--------------------------- MODULE MCCentralMerge ----------------------------
(* TLC instances of CentralMerge.                                           *)
EXTENDS CentralMerge
==============================================================================
