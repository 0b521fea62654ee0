------------------------------- MODULE MCRunLoop -------------------------------
(* TLC instances of RunLoop.                                                *)
EXTENDS RunLoop, TLC

CONSTANTS events, dns

(* In the order run_loop starts and stops them.                             *)
EventsAndDns == <<events, dns>>
DnsOnly      == <<dns>>
===============================================================================
