----------------------------- MODULE CentralView -----------------------------
(***************************************************************************)
(* What the central database promises of a host's row, whatever transport  *)
(* brought the host's snapshots, in whatever order and however often: a    *)
(* snapshot is merged as a whole or not at all, and leaves the counters of *)
(* the version merged last, the earliest first and the latest last         *)
(* sighting of all versions merged.                                        *)
(***************************************************************************)
EXTENDS Naturals, FiniteSetsExt

CONSTANTS
  Hosts,     \* hosts that report
  Edges,     \* edge keys of a host
  Versions,  \* states of a row a host can report
  NoRow      \* the edge has no row

VARIABLES
  table,     \* the central rows
  merged,    \* the versions merged into each
  offered,   \* input: the snapshots being imported
  torn       \* input: rows of a failed import wait to be committed

Earliest(versions) == Min({v.first_seen : v \in versions})
Latest(versions)   == Max({v.last_seen : v \in versions})

Init ==
  /\ table = [h \in Hosts |-> [e \in Edges |-> NoRow]]
  /\ merged = [h \in Hosts |-> [e \in Edges |-> {}]]

(* Rows of one host are merged at once.                                     *)
Merge(h, rows) ==
  /\ merged' = [merged EXCEPT ![h] =
       [e \in Edges |-> IF e \in DOMAIN rows THEN @[e] \cup {rows[e]} ELSE @[e]]]
  /\ table' = [table EXCEPT ![h] =
       [e \in Edges |->
          IF e \in DOMAIN rows
          THEN [bytes      |-> rows[e].bytes,
                first_seen |-> Earliest(merged'[h][e]),
                last_seen  |-> Latest(merged'[h][e])]
          ELSE @[e]]]

MergeWhole == \E body \in offered : Merge(body.host, body.rows)

MergeTorn ==
  /\ torn
  /\ \E h \in Hosts, some \in SUBSET Edges : \E rows \in [some -> Versions] : Merge(h, rows)

Spec == Init /\ [][MergeWhole \/ MergeTorn]_<<table, merged>>
==============================================================================
