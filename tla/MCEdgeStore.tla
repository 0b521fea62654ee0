----------------------------- MODULE MCEdgeStore -----------------------------
(* TLC instances of EdgeStore.                                              *)
EXTENDS EdgeStore, TLC

(* Edges are interchangeable: no property compares two of them.             *)
Symmetry == Permutations(Edges)
==============================================================================
