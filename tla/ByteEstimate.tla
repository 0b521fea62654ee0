---------------------------- MODULE ByteEstimate ----------------------------
(* The arithmetic by which Store.record_edge (commatrix/store.py) turns the *)
(* counter sums of successive snapshots into a cumulative estimate; shared  *)
(* by the polling and the event-driven collector.                           *)
EXTENDS Integers

(* "A drop in the snapshot counter means old connections closed and new     *)
(* ones started, so the whole new snapshot value counts as fresh traffic."  *)
Delta(last, snapshot) ==
  IF snapshot >= last THEN snapshot - last ELSE snapshot
==============================================================================
