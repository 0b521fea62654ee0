------------------------------ MODULE MCElevate ------------------------------
(* TLC instances of Elevate.                                                *)
EXTENDS Elevate
==============================================================================
