------------------------------ MODULE EdgeStore ------------------------------
(***************************************************************************)
(* The per-host edge database (commatrix/store.py) as the polling          *)
(* collector uses it (commatrix/collector.py, run_loop, _enforce_disk,     *)
(* poll_once): byte estimates from counter snapshots, activity gaps, the   *)
(* IR event log, retention and the disk budget.                            *)
(*                                                                         *)
(* The kernel opens, feeds and closes connections at any moment; the wall  *)
(* clock may be stepped either way; the collector may die between any two  *)
(* commits.  What survives a death is the database, so a restarted         *)
(* collector is one that sleeps before its next cycle.                     *)
(*                                                                         *)
(* Abstractions.  One edge carries one counter: packets are accumulated by *)
(* the same expressions as bytes.  Descriptive columns are left out.  The  *)
(* kernel side of an edge is the number of its tracked connections and the *)
(* sum of their counters, which is what a snapshot adds up.                *)
(***************************************************************************)
EXTENDS Integers, FiniteSets, Functions, ByteEstimate

CONSTANTS
  Edges,        \* edge keys of one host
  MaxConns,     \* connections of one edge tracked at the same time
  MaxTraffic,   \* bound on the units an edge ever carries
  MaxTime,      \* bound on the clock
  MaxEvents,    \* bound on the IR events kept at a time
  EventMinGap,  \* event_min_gap_seconds; 0 disables reactivation events
  Retention     \* retention_days; 0 disables retention

ASSUME EdgeStoreAssumption ==
  /\ MaxConns \in Nat /\ MaxTraffic \in Nat /\ MaxTime \in Nat /\ MaxEvents \in Nat
  /\ EventMinGap \in Nat /\ Retention \in Nat

VARIABLES
  conns,        \* kernel: tracked connections per edge
  tracked,      \* kernel: sum of their byte counters
  clock,        \* wall clock
  known,        \* edges with a row in flows
  row,          \* the rows (Blank where there is none)
  events,       \* flow_events
  pc,           \* the step of the cycle the collector is at
  stamp,        \* `start` of the current cycle
  cutoff,       \* the time retention is measured from (0 when not in use)
  pending,      \* edges of the current poll still to be recorded
  snapshot,     \* their summed counters
  sent,         \* history: units the edge really carried
  closed,       \* history: edges that lost a connection since their row's first snapshot
  trimmed       \* history: edges of which a row or an event was deleted

kernel    == <<conns, tracked, sent>>
database  == <<known, row, events>>
cycle     == <<pc, stamp, cutoff, pending, snapshot>>
vars      == <<conns, tracked, clock, known, row, events, pc, stamp, cutoff, pending,
               snapshot, sent, closed, trimmed>>

Row == [bytes : Nat, last_snapshot_bytes : Nat, first_seen : Nat, last_seen : Nat,
        last_active : Nat, max_gap : Nat]

Blank == [bytes |-> 0, last_snapshot_bytes |-> 0, first_seen |-> 0, last_seen |-> 0,
          last_active |-> 0, max_gap |-> 0]

Event == [edge : Edges, kind : {"new", "reactivated"}, ts : Nat, bytes_delta : Nat,
          idle_gap : Nat]

TypeOK ==
  /\ conns \in [Edges -> 0..MaxConns]
  /\ tracked \in [Edges -> Nat]
  /\ clock \in 0..MaxTime
  /\ known \subseteq Edges
  /\ row \in [Edges -> Row]
  /\ events \subseteq Event
  /\ pc \in {"sleep", "retain", "retain_events", "budget", "budget_rows", "poll", "record"}
  /\ stamp \in 0..MaxTime
  /\ cutoff \in 0..MaxTime
  /\ pending \subseteq Edges
  /\ snapshot \in [Edges -> Nat]
  /\ sent \in [Edges -> Nat]
  /\ closed \subseteq Edges
  /\ trimmed \subseteq Edges

(* An empty database on a host whose connections have carried nothing yet.  *)
Init ==
  /\ conns = [e \in Edges |-> 0]
  /\ tracked = [e \in Edges |-> 0]
  /\ clock = 0
  /\ known = {}
  /\ row = [e \in Edges |-> Blank]
  /\ events = {}
  /\ pc = "sleep"
  /\ stamp = 0
  /\ cutoff = 0
  /\ pending = {}
  /\ snapshot = [e \in Edges |-> 0]
  /\ sent = [e \in Edges |-> 0]
  /\ closed = {}
  /\ trimmed = {}

------------------------------------------------------------------------------
(* The kernel and the clock.                                                *)

Open(e) ==
  /\ conns[e] < MaxConns
  /\ conns' = [conns EXCEPT ![e] = @ + 1]
  /\ UNCHANGED <<tracked, sent, clock, database, cycle, closed, trimmed>>

Transfer(e) ==
  /\ conns[e] > 0
  /\ sent[e] < MaxTraffic
  /\ tracked' = [tracked EXCEPT ![e] = @ + 1]
  /\ sent' = [sent EXCEPT ![e] = @ + 1]
  /\ UNCHANGED <<conns, clock, database, cycle, closed, trimmed>>

(* A connection ends and takes its counter with it; the last one of an edge *)
(* takes everything that was left.                                          *)
Close(e) ==
  /\ conns[e] > 0
  /\ conns' = [conns EXCEPT ![e] = @ - 1]
  /\ \E gone \in 0..tracked[e] :
       /\ conns[e] = 1 => gone = tracked[e]
       /\ tracked' = [tracked EXCEPT ![e] = @ - gone]
  /\ closed' = closed \cup {e}
  /\ UNCHANGED <<sent, clock, database, cycle, trimmed>>

(* Time passes, or the clock is stepped (NTP, an operator), even back.      *)
SetClock ==
  /\ clock' \in 0..MaxTime
  /\ UNCHANGED <<kernel, database, cycle, closed, trimmed>>

------------------------------------------------------------------------------
(* The first half of a cycle: _enforce_disk.                                *)

NoSnapshot == [e \in Edges |-> 0]

(* The locals of a cycle end with it.                                       *)
CycleOver ==
  /\ pc' = "sleep"
  /\ stamp' = 0
  /\ cutoff' = 0
  /\ pending' = {}
  /\ snapshot' = NoSnapshot

StartCycle ==
  /\ pc = "sleep"
  /\ pc' = IF Retention > 0 THEN "retain" ELSE "budget"
  /\ stamp' = clock
  /\ UNCHANGED <<kernel, clock, database, cutoff, pending, snapshot, closed, trimmed>>

(* DELETE ... WHERE last_seen (or ts) < now - retention, for one `now`.     *)
TooOld(ts, now) == ts + Retention < now

DeleteRows(gone) ==
  /\ known' = known \ gone
  /\ row' = [e \in Edges |-> IF e \in gone THEN Blank ELSE row[e]]

DeleteEvents(gone) == events' = events \ gone

EdgesOf(gone) == {v.edge : v \in gone}

PruneFlows ==
  /\ pc = "retain"
  /\ LET gone == {e \in known : TooOld(row[e].last_seen, clock)}
     IN  DeleteRows(gone) /\ trimmed' = trimmed \cup gone
  /\ cutoff' = clock
  /\ pc' = "retain_events"
  /\ UNCHANGED <<kernel, clock, events, stamp, pending, snapshot, closed>>

PruneEvents ==
  /\ pc = "retain_events"
  /\ LET gone == {v \in events : TooOld(v.ts, cutoff)}
     IN  DeleteEvents(gone) /\ trimmed' = trimmed \cup EdgesOf(gone)
  /\ cutoff' = 0
  /\ pc' = "budget"
  /\ UNCHANGED <<kernel, clock, known, row, stamp, pending, snapshot, closed>>

(* One pass of prune_to_budget while the files exceed the budget, which     *)
(* moves with the free space of the disk: first a batch of the oldest       *)
(* events, then a batch of the rows longest idle.  With fewer than twenty   *)
(* of each a batch is one.                                                  *)
BudgetEvents ==
  /\ pc = "budget"
  /\ known # {}
  /\ \/ /\ events = {}
        /\ UNCHANGED <<events, trimmed>>
     \/ \E oldest \in events :
          /\ \A v \in events : oldest.ts <= v.ts
          /\ DeleteEvents({oldest})
          /\ trimmed' = trimmed \cup {oldest.edge}
  /\ pc' = "budget_rows"
  /\ UNCHANGED <<kernel, clock, known, row, stamp, cutoff, pending, snapshot, closed>>

(* COALESCE(last_active, last_seen) is last_active: record_edge always sets *)
(* it.                                                                      *)
BudgetRows ==
  /\ pc = "budget_rows"
  /\ \E victim \in known :
       /\ \A e \in known : row[victim].last_active <= row[e].last_active
       /\ DeleteRows({victim})
       /\ trimmed' = trimmed \cup {victim}
  /\ pc' = "budget"
  /\ UNCHANGED <<kernel, clock, events, stamp, cutoff, pending, snapshot, closed>>

(* Within the budget again, or out of passes or rows: go on to the poll, or *)
(* skip it when the free space is below the floor.                          *)
EnforceDone ==
  /\ pc = "budget"
  /\ \/ CycleOver
     \/ pc' = "poll" /\ UNCHANGED <<stamp, cutoff, pending, snapshot>>
  /\ UNCHANGED <<kernel, clock, database, closed, trimmed>>

------------------------------------------------------------------------------
(* The second half: read_conntrack_snapshot, then record_edge per edge.     *)

Poll ==
  /\ pc = "poll"
  /\ pc' = "record"
  /\ pending' = {e \in Edges : conns[e] > 0}
  /\ snapshot' = tracked
  /\ closed' = closed \cap known
  /\ UNCHANGED <<kernel, clock, database, stamp, cutoff, trimmed>>

(* Mutants: the drop of a counter is not noticed; the whole snapshot counts *)
(* every time.                                                              *)
SignedDelta(e)   == snapshot[e] - row[e].last_snapshot_bytes
WholeSnapshot(e) == snapshot[e]

ByteDelta(e) == Delta(row[e].last_snapshot_bytes, snapshot[e])

(* Mutant: the first snapshot is only a reference point.                    *)
ReferenceRow(e) ==
  [bytes |-> 0, last_snapshot_bytes |-> snapshot[e], first_seen |-> stamp,
   last_seen |-> stamp, last_active |-> stamp, max_gap |-> 0]

NewRow(e) ==
  [bytes |-> snapshot[e], last_snapshot_bytes |-> snapshot[e], first_seen |-> stamp,
   last_seen |-> stamp, last_active |-> stamp, max_gap |-> 0]

Gap(e) == stamp - row[e].last_active

UpdatedRow(e) ==
  [bytes               |-> row[e].bytes + ByteDelta(e),
   last_snapshot_bytes |-> snapshot[e],
   first_seen          |-> row[e].first_seen,
   last_seen           |-> stamp,
   last_active         |-> IF ByteDelta(e) > 0 THEN stamp ELSE row[e].last_active,
   max_gap             |-> IF ByteDelta(e) > 0 /\ Gap(e) > row[e].max_gap
                           THEN Gap(e) ELSE row[e].max_gap]

(* Mutants: any traffic is a reactivation; a gap of exactly the threshold   *)
(* is not one.                                                              *)
WakesAlways(e) == ByteDelta(e) > 0 /\ EventMinGap > 0
WakesAbove(e) == ByteDelta(e) > 0 /\ Gap(e) > EventMinGap /\ EventMinGap > 0

Wakes(e) == ByteDelta(e) > 0 /\ Gap(e) >= EventMinGap /\ EventMinGap > 0

NewEvent(e) ==
  [edge |-> e, kind |-> "new", ts |-> stamp, bytes_delta |-> snapshot[e], idle_gap |-> 0]

(* Mutant: the event carries the snapshot instead of the increase.          *)
WakeWithSnapshot(e) ==
  [edge |-> e, kind |-> "reactivated", ts |-> stamp, bytes_delta |-> snapshot[e],
   idle_gap |-> Gap(e)]

WakeEvent(e) ==
  [edge |-> e, kind |-> "reactivated", ts |-> stamp, bytes_delta |-> ByteDelta(e),
   idle_gap |-> Gap(e)]

(* The row and its event are one transaction.                               *)
RecordEdge(e) ==
  /\ pc = "record"
  /\ e \in pending
  /\ Cardinality(events) < MaxEvents
  /\ pending' = pending \ {e}
  /\ \/ /\ e \notin known
        /\ known' = known \cup {e}
        /\ row' = [row EXCEPT ![e] = NewRow(e)]
        /\ events' = events \cup {NewEvent(e)}
     \/ /\ e \in known
        /\ row' = [row EXCEPT ![e] = UpdatedRow(e)]
        /\ events' = events \cup (IF Wakes(e) THEN {WakeEvent(e)} ELSE {})
        /\ UNCHANGED known
  /\ UNCHANGED <<kernel, clock, pc, stamp, cutoff, snapshot, closed, trimmed>>

EndCycle ==
  /\ pc = "record"
  /\ pending = {}
  /\ CycleOver
  /\ UNCHANGED <<kernel, clock, database, closed, trimmed>>

(* The collector dies; only what was committed is left.                     *)
Crash ==
  /\ pc # "sleep"
  /\ CycleOver
  /\ UNCHANGED <<kernel, clock, database, closed, trimmed>>

------------------------------------------------------------------------------
Next ==
  \/ \E e \in Edges : Open(e) \/ Transfer(e) \/ Close(e) \/ RecordEdge(e)
  \/ SetClock
  \/ StartCycle
  \/ PruneFlows
  \/ PruneEvents
  \/ BudgetEvents
  \/ BudgetRows
  \/ EnforceDone
  \/ Poll
  \/ EndCycle
  \/ Crash

Spec == Init /\ [][Next]_vars

------------------------------------------------------------------------------
(* Properties.                                                              *)

(* record_edge never forgets part of what the kernel just reported: the     *)
(* cumulative estimate is at least the last snapshot.                       *)
SnapshotCovered ==
  \A e \in known : row[e].last_snapshot_bytes <= row[e].bytes

(* While an edge has at most one tracked connection at a time, the estimate *)
(* never exceeds what the edge carried, whatever polls, deaths, closings,   *)
(* reopenings and prunings come between.                                    *)
NeverOverestimates ==
  \A e \in known : row[e].bytes <= sent[e]

(* While no connection of the edge has ended since the snapshot its row     *)
(* was created from, the estimate is exactly the kernel's counter.          *)
ExactWhileOpen ==
  \A e \in known \ closed : row[e].bytes = row[e].last_snapshot_bytes

EventsOf(e) == {v \in events : v.edge = e}

(* The IR log and max_gap tell the same story: no event of the edge reports *)
(* a longer idle gap than max_gap, and a max_gap at or above the threshold  *)
(* has its event (for edges whose history was not deleted).                 *)
GapsAccountedFor ==
  \A e \in known \ trimmed :
    /\ \A v \in EventsOf(e) : v.idle_gap <= row[e].max_gap
    /\ row[e].max_gap >= EventMinGap /\ EventMinGap > 0
         => \E v \in EventsOf(e) : v.idle_gap = row[e].max_gap

ReportedIn(log) == SumFunction([v \in log |-> v.bytes_delta])

(* An edge that is in the database has its "new" event, stamped with        *)
(* first_seen, and all of its events together report no more bytes than the *)
(* edge counts.                                                             *)
EventsMatchRow ==
  \A e \in known \ trimmed :
    /\ \E v \in EventsOf(e) : v.kind = "new" /\ v.ts = row[e].first_seen
    /\ ReportedIn(EventsOf(e)) <= row[e].bytes

(* While a row stays in the database its counters never fall and its first  *)
(* sighting never moves, even when the clock is stepped back.               *)
RowsOnlyGrow ==
  [][\A e \in known \cap known' :
       /\ row'[e].bytes >= row[e].bytes
       /\ row'[e].max_gap >= row[e].max_gap
       /\ row'[e].first_seen = row[e].first_seen]_vars
==============================================================================
