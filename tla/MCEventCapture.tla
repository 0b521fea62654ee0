---------------------------- MODULE MCEventCapture ----------------------------
(* TLC instances of EventCapture.                                           *)
EXTENDS EventCapture, TLC

CONSTANT theEdge

(* All flows are connections of one edge: the case the sums are about.      *)
OneEdge == [f \in Flows |-> theEdge]
===============================================================================
