--------------------------- MODULE EdgeStore_proofs ---------------------------
(***************************************************************************)
(* For any set of edges, any bounds, any retention and any sequence of     *)
(* polls, prunings, clock steps and deaths of the collector: what a row    *)
(* says of the bytes of its edge, and the IR events of its history.        *)
(***************************************************************************)
EXTENDS EdgeStore, SumTheorems

USE EdgeStoreAssumption

------------------------------------------------------------------------------
(* Types of what a poll computes.                                           *)

LEMMA NewRowType ==
  ASSUME TypeOK, NEW e \in Edges
  PROVE  NewRow(e) \in Row
BY DEF TypeOK, NewRow, Row

LEMMA ByteDeltaType ==
  ASSUME TypeOK, NEW e \in Edges
  PROVE  ByteDelta(e) \in Nat
BY DEF TypeOK, ByteDelta, Delta, Row

LEMMA GapType ==
  ASSUME TypeOK, NEW e \in Edges
  PROVE  /\ Gap(e) \in Int
         /\ row[e] \in Row
         /\ row[e].max_gap \in Nat
         /\ stamp \in Nat
BY DEF TypeOK, Gap, Row

LEMMA UpdatedRowType ==
  ASSUME TypeOK, NEW e \in Edges
  PROVE  UpdatedRow(e) \in Row
<1>1. /\ ByteDelta(e) \in Nat /\ Gap(e) \in Int /\ row[e] \in Row
      /\ stamp \in Nat /\ snapshot[e] \in Nat
  BY ByteDeltaType, GapType DEF TypeOK
<1>2. QED
  BY <1>1 DEF UpdatedRow, Row

LEMMA WakeEventType ==
  ASSUME TypeOK, NEW e \in Edges, Wakes(e)
  PROVE  WakeEvent(e) \in Event
<1>1. /\ ByteDelta(e) \in Nat /\ Gap(e) \in Int /\ stamp \in Nat
      /\ EventMinGap \in Nat
  BY ByteDeltaType, GapType
<1>2. Gap(e) \in Nat
  BY <1>1 DEF Wakes
<1>3. QED
  BY <1>1, <1>2 DEF WakeEvent, Event

------------------------------------------------------------------------------
(* Type correctness, action by action.                                      *)

LEMMA NextTypeOK == TypeOK /\ [Next]_vars => TypeOK'
<1> SUFFICES ASSUME TypeOK, [Next]_vars PROVE TypeOK'
  OBVIOUS
<1>1. ASSUME NEW e \in Edges, Open(e) PROVE TypeOK'
  BY <1>1 DEF TypeOK, Open, database, cycle
<1>2. ASSUME NEW e \in Edges, Transfer(e) PROVE TypeOK'
  BY <1>2 DEF TypeOK, Transfer, database, cycle
<1>3. ASSUME NEW e \in Edges, Close(e) PROVE TypeOK'
  BY <1>3 DEF TypeOK, Close, database, cycle
<1>4. CASE SetClock
  BY <1>4 DEF TypeOK, SetClock, kernel, database, cycle
<1>5. CASE StartCycle
  BY <1>5 DEF TypeOK, StartCycle, kernel, database
<1>6. ASSUME NEW gone \in SUBSET Edges, DeleteRows(gone)
      PROVE  known' \subseteq Edges /\ row' \in [Edges -> Row]
  <2>1. Blank \in Row
    BY DEF Blank, Row
  <2>2. QED
    BY <1>6, <2>1 DEF TypeOK, DeleteRows
<1>7. CASE PruneFlows
  <2> DEFINE gone == {e \in known : TooOld(row[e].last_seen, clock)}
  <2>1. gone \in SUBSET Edges /\ DeleteRows(gone) /\ trimmed' = trimmed \cup gone
    BY <1>7 DEF PruneFlows, TypeOK
  <2>2. known' \subseteq Edges /\ row' \in [Edges -> Row]
    BY <2>1, <1>6
  <2>3. QED
    BY <1>7, <2>1, <2>2 DEF TypeOK, PruneFlows, kernel
<1>8. CASE PruneEvents
  <2> DEFINE gone == {v \in events : TooOld(v.ts, cutoff)}
  <2>1. events' = events \ gone /\ trimmed' = trimmed \cup EdgesOf(gone)
    BY <1>8 DEF PruneEvents, DeleteEvents
  <2>2. gone \subseteq Event
    BY DEF TypeOK
  <2>3. EdgesOf(gone) \subseteq Edges
    BY <2>2 DEF EdgesOf, Event
  <2>4. QED
    BY <1>8, <2>1, <2>2, <2>3 DEF TypeOK, PruneEvents, kernel
<1>9. CASE BudgetEvents
  <2>1. \A v \in events : v.edge \in Edges
    BY DEF TypeOK, Event
  <2>2. events' \subseteq Event /\ trimmed' \subseteq Edges
    BY <1>9, <2>1 DEF TypeOK, BudgetEvents, DeleteEvents
  <2>3. QED
    BY <1>9, <2>2 DEF TypeOK, BudgetEvents, kernel
<1>9b. CASE BudgetRows
  <2>1. PICK victim \in known : DeleteRows({victim}) /\ trimmed' = trimmed \cup {victim}
    BY <1>9b DEF BudgetRows
  <2>2. {victim} \in SUBSET Edges
    BY DEF TypeOK
  <2>3. known' \subseteq Edges /\ row' \in [Edges -> Row]
    BY <2>1, <2>2, <1>6
  <2>4. QED
    BY <1>9b, <2>1, <2>2, <2>3 DEF TypeOK, BudgetRows, kernel
<1>10. CASE EnforceDone
  BY <1>10 DEF TypeOK, EnforceDone, CycleOver, NoSnapshot, kernel, database
<1>11. CASE Poll
  BY <1>11 DEF TypeOK, Poll, kernel, database
<1>12. ASSUME NEW e \in Edges, RecordEdge(e) PROVE TypeOK'
  <2>1. NewRow(e) \in Row /\ UpdatedRow(e) \in Row
    BY NewRowType, UpdatedRowType
  <2>2. NewEvent(e) \in Event
    BY DEF TypeOK, NewEvent, Event
  <2>3. row' \in [Edges -> Row] /\ known' \subseteq Edges
    BY <1>12, <2>1 DEF RecordEdge, TypeOK
  <2>4. events' \subseteq Event
    <3>1. CASE e \notin known
      BY <1>12, <3>1, <2>2 DEF RecordEdge, TypeOK
    <3>2. CASE e \in known
      BY <1>12, <3>2, WakeEventType DEF RecordEdge, TypeOK
    <3>3. QED
      BY <3>1, <3>2
  <2>5. QED
    BY <1>12, <2>3, <2>4 DEF RecordEdge, TypeOK, kernel
<1>13. CASE EndCycle
  BY <1>13 DEF TypeOK, EndCycle, CycleOver, NoSnapshot, kernel, database
<1>14. CASE Crash
  BY <1>14 DEF TypeOK, Crash, CycleOver, NoSnapshot, kernel, database
<1>15. CASE UNCHANGED vars
  BY <1>15 DEF TypeOK, vars
<1>16. QED
  BY <1>1, <1>2, <1>3, <1>4, <1>5, <1>7, <1>8, <1>9, <1>10, <1>11, <1>12, <1>13,
     <1>14, <1>15, <1>9b DEF Next

(* Every reachable state is well typed; in particular no clock step makes   *)
(* max_gap or an event's idle gap negative (record_edge, _append_event).    *)
THEOREM TypeCorrect == Spec => []TypeOK
<1>1. Init => TypeOK
  BY DEF Init, TypeOK, Blank, Row
<1>2. TypeOK /\ [Next]_vars => TypeOK'
  BY NextTypeOK
<1>3. QED
  BY <1>1, <1>2, PTL DEF Spec

------------------------------------------------------------------------------
(* Steps that write no counter.                                             *)

(* The row and the pending edges, as an edge sees them: forgotten, or kept. *)
Forgets == known' \subseteq known /\ \A e \in known' : row'[e] = row[e]

LEMMA DeleteForgets ==
  ASSUME TypeOK, NEW gone, DeleteRows(gone)
  PROVE  Forgets
BY DEF TypeOK, DeleteRows, Forgets

(* Every step records one edge or leaves the surviving rows alone.          *)
LEMMA RowSteps ==
  ASSUME TypeOK, [Next]_vars
  PROVE  Forgets \/ \E e \in Edges : RecordEdge(e)
<1>1. ASSUME NEW e \in Edges, Open(e) \/ Transfer(e) \/ Close(e) PROVE Forgets
  BY <1>1 DEF Open, Transfer, Close, database, Forgets
<1>2. CASE SetClock \/ StartCycle \/ EnforceDone \/ Poll \/ EndCycle \/ Crash \/ UNCHANGED vars
  BY <1>2 DEF SetClock, StartCycle, EnforceDone, Poll, EndCycle, Crash, vars, database, Forgets
<1>3. CASE PruneFlows
  <2>1. PICK gone : DeleteRows(gone)
    BY <1>3 DEF PruneFlows
  <2>2. QED
    BY <2>1, DeleteForgets
<1>4. CASE PruneEvents \/ BudgetEvents
  BY <1>4 DEF PruneEvents, BudgetEvents, Forgets
<1>5. CASE BudgetRows
  <2>1. PICK gone : DeleteRows(gone)
    BY <1>5 DEF BudgetRows
  <2>2. QED
    BY <2>1, DeleteForgets
<1>6. QED
  BY <1>1, <1>2, <1>3, <1>4, <1>5 DEF Next

(* What recording an edge does, seen from every edge.                       *)
LEMMA RecordRow ==
  ASSUME TypeOK, NEW e \in Edges, RecordEdge(e), NEW d \in Edges
  PROVE  /\ known' = known \cup {e}
         /\ d # e => row'[d] = row[d]
         /\ e \notin known => row'[e] = NewRow(e)
         /\ e \in known => row'[e] = UpdatedRow(e)
BY DEF TypeOK, RecordEdge

------------------------------------------------------------------------------
(* The snapshot is covered; rows only grow.                                 *)

LEMMA NextSnapshotCovered ==
  TypeOK /\ SnapshotCovered /\ [Next]_vars => SnapshotCovered'
<1> SUFFICES ASSUME TypeOK, SnapshotCovered, [Next]_vars PROVE SnapshotCovered'
  OBVIOUS
<1>1. CASE Forgets
  BY <1>1 DEF Forgets, SnapshotCovered
<1>2. ASSUME NEW e \in Edges, RecordEdge(e) PROVE SnapshotCovered'
  <2> SUFFICES ASSUME NEW d \in known'
               PROVE  row'[d].last_snapshot_bytes <= row'[d].bytes
    BY DEF SnapshotCovered
  <2>2. CASE d # e
    BY <1>2, <2>2, RecordRow DEF SnapshotCovered, TypeOK
  <2>3. CASE d = e /\ e \notin known
    <3>1. row'[d] = NewRow(e) /\ snapshot[e] \in Nat
      BY <1>2, <2>3, RecordRow DEF TypeOK
    <3>2. QED
      BY <3>1 DEF NewRow
  <2>4. CASE d = e /\ e \in known
    <3>1. row'[d] = UpdatedRow(e) /\ row[e] \in Row /\ snapshot[e] \in Nat
      BY <1>2, <2>4, RecordRow DEF TypeOK
    <3>2. row[e].last_snapshot_bytes <= row[e].bytes
      BY <2>4 DEF SnapshotCovered
    <3>3. QED
      BY <3>1, <3>2 DEF UpdatedRow, ByteDelta, Delta, Row
  <2>5. QED
    BY <2>2, <2>3, <2>4
<1>3. QED
  BY <1>1, <1>2, RowSteps

(* record_edge never forgets part of what the kernel reported: the estimate *)
(* is at least the last snapshot.                                           *)
THEOREM CoversSnapshot == Spec => []SnapshotCovered
<1>1. Init => TypeOK /\ SnapshotCovered
  BY DEF Init, TypeOK, SnapshotCovered, Blank, Row
<1>2. TypeOK /\ SnapshotCovered /\ [Next]_vars => (TypeOK /\ SnapshotCovered)'
  BY NextTypeOK, NextSnapshotCovered
<1>3. QED
  BY <1>1, <1>2, PTL DEF Spec

(* record_edge: a row that stays in the database never counts less, never   *)
(* shortens its longest gap and keeps its first sighting.                   *)
THEOREM Grows == Spec => RowsOnlyGrow
<1>1. TypeOK /\ [Next]_vars =>
        [\A e \in known \cap known' :
           /\ row'[e].bytes >= row[e].bytes
           /\ row'[e].max_gap >= row[e].max_gap
           /\ row'[e].first_seen = row[e].first_seen]_vars
  <2> SUFFICES ASSUME TypeOK, [Next]_vars, NEW d \in known \cap known'
               PROVE  /\ row'[d].bytes >= row[d].bytes
                      /\ row'[d].max_gap >= row[d].max_gap
                      /\ row'[d].first_seen = row[d].first_seen
    OBVIOUS
  <2>2. d \in Edges /\ row[d] \in Row
    BY DEF TypeOK
  <2>3. CASE row'[d] = row[d]
    BY <2>2, <2>3 DEF Row
  <2>4. ASSUME row'[d] = UpdatedRow(d)
        PROVE  /\ row'[d].bytes >= row[d].bytes
               /\ row'[d].max_gap >= row[d].max_gap
               /\ row'[d].first_seen = row[d].first_seen
    <3>1. ByteDelta(d) \in Nat /\ Gap(d) \in Int
      BY <2>2, ByteDeltaType, GapType
    <3>2. QED
      BY <2>2, <2>4, <3>1 DEF UpdatedRow, Row
  <2>5. row'[d] = row[d] \/ row'[d] = UpdatedRow(d)
    <3>1. CASE Forgets
      BY <3>1 DEF Forgets
    <3>2. CASE \E e \in Edges : RecordEdge(e)
      BY <2>2, <3>2, RecordRow
    <3>3. QED
      BY <3>1, <3>2, RowSteps
  <2>6. QED
    BY <2>3, <2>4, <2>5
<1>2. Init => TypeOK
  BY DEF Init, TypeOK, Blank, Row
<1>3. TypeOK /\ [Next]_vars => TypeOK'
  BY NextTypeOK
<1>4. QED
  BY <1>1, <1>2, <1>3, PTL DEF Spec, RowsOnlyGrow

------------------------------------------------------------------------------
(* What a step does to one edge outside its row.                            *)

Rests(e) == UNCHANGED <<tracked[e], sent[e]>>

Grows1(e) == tracked'[e] = tracked[e] + 1 /\ sent'[e] = sent[e] + 1

Drops(e) ==
  /\ conns[e] > 0
  /\ tracked'[e] \in 0..tracked[e]
  /\ conns[e] = 1 => tracked'[e] = 0
  /\ sent'[e] = sent[e]
  /\ e \in closed'

KernelStep(e) == Rests(e) \/ Grows1(e) \/ Drops(e)

(* Outside the record phase nothing is left to record.                      *)
CycleInv == pc # "record" => pending = {}

LEMMA NextCycleInv == TypeOK /\ CycleInv /\ [Next]_vars => CycleInv'
<1> SUFFICES ASSUME TypeOK, CycleInv, [Next]_vars PROVE CycleInv'
  OBVIOUS
<1>1. CASE \/ \E e \in Edges : Open(e) \/ Transfer(e) \/ Close(e) \/ RecordEdge(e)
           \/ SetClock \/ UNCHANGED vars
  BY <1>1 DEF Open, Transfer, Close, RecordEdge, SetClock, vars, cycle, CycleInv
<1>2. CASE StartCycle \/ PruneFlows \/ PruneEvents \/ BudgetEvents \/ BudgetRows
  BY <1>2 DEF StartCycle, PruneFlows, PruneEvents, BudgetEvents, BudgetRows, CycleInv
<1>3. CASE EnforceDone \/ Poll \/ EndCycle \/ Crash
  BY <1>3 DEF EnforceDone, Poll, EndCycle, Crash, CycleOver, CycleInv
<1>4. QED
  BY <1>1, <1>2, <1>3 DEF Next

(* A step that neither polls nor records.                                   *)
Quiet ==
  /\ Forgets
  /\ pending' = {} \/ UNCHANGED <<pending, snapshot, known>>
  /\ closed \subseteq closed'
  /\ \A e \in Edges : KernelStep(e)

LEMMA Steps ==
  ASSUME TypeOK, CycleInv, [Next]_vars
  PROVE  Quiet \/ Poll \/ \E e \in Edges : RecordEdge(e)
<1>1. ASSUME NEW d \in Edges, Open(d) PROVE Quiet
  BY <1>1 DEF Open, database, cycle, Forgets, Quiet, KernelStep, Rests
<1>2. ASSUME NEW d \in Edges, Transfer(d) PROVE Quiet
  <2>1. ASSUME NEW e \in Edges PROVE KernelStep(e)
    BY <1>2 DEF Transfer, TypeOK, KernelStep, Rests, Grows1
  <2>2. QED
    BY <1>2, <2>1 DEF Transfer, database, cycle, Forgets, Quiet
<1>3. ASSUME NEW d \in Edges, Close(d) PROVE Quiet
  <2>1. PICK gone \in 0..tracked[d] :
          /\ conns[d] = 1 => gone = tracked[d]
          /\ tracked' = [tracked EXCEPT ![d] = @ - gone]
    BY <1>3 DEF Close
  <2>2. conns[d] > 0 /\ sent' = sent /\ closed' = closed \cup {d}
    BY <1>3 DEF Close
  <2>3. ASSUME NEW e \in Edges PROVE KernelStep(e)
    <3>1. CASE d # e
      BY <2>1, <2>2, <3>1 DEF TypeOK, KernelStep, Rests
    <3>2. CASE d = e
      <4>1. tracked[e] \in Nat /\ tracked'[e] = tracked[e] - gone
        BY <2>1, <3>2 DEF TypeOK
      <4>2. QED
        BY <2>1, <2>2, <3>2, <4>1 DEF KernelStep, Drops
    <3>3. QED
      BY <3>1, <3>2
  <2>4. QED
    BY <1>3, <2>2, <2>3 DEF Close, database, cycle, Forgets, Quiet
<1>4. CASE SetClock \/ StartCycle \/ UNCHANGED vars
  BY <1>4 DEF SetClock, StartCycle, vars, kernel, database, cycle, Forgets, Quiet,
              KernelStep, Rests
<1>5. CASE EnforceDone \/ EndCycle \/ Crash
  BY <1>5 DEF EnforceDone, EndCycle, Crash, CycleOver, kernel, database, Forgets,
              Quiet, KernelStep, Rests
<1>6. CASE PruneFlows
  <2>1. Forgets
    BY <1>6, DeleteForgets DEF PruneFlows
  <2>2. QED
    BY <1>6, <2>1 DEF PruneFlows, CycleInv, kernel, Quiet, KernelStep, Rests
<1>7. CASE PruneEvents \/ BudgetEvents
  BY <1>7 DEF PruneEvents, BudgetEvents, CycleInv, kernel, Forgets, Quiet, KernelStep, Rests
<1>8. CASE BudgetRows
  <2>1. Forgets
    BY <1>8, DeleteForgets DEF BudgetRows
  <2>2. QED
    BY <1>8, <2>1 DEF BudgetRows, CycleInv, kernel, Quiet, KernelStep, Rests
<1>9. QED
  BY <1>1, <1>2, <1>3, <1>4, <1>5, <1>6, <1>7, <1>8 DEF Next

------------------------------------------------------------------------------
(* The estimate is exact until a connection closes.                         *)

ExactInv(e) ==
  e \notin closed =>
    /\ e \in known => /\ row[e].bytes = row[e].last_snapshot_bytes
                      /\ row[e].last_snapshot_bytes <= tracked[e]
    /\ e \in pending => snapshot[e] <= tracked[e]
    /\ e \in pending \cap known => row[e].last_snapshot_bytes <= snapshot[e]

LEMMA NextExactInv ==
  ASSUME TypeOK, CycleInv, [Next]_vars, \A e \in Edges : ExactInv(e)
  PROVE  \A e \in Edges : ExactInv(e)'
<1> SUFFICES ASSUME NEW e \in Edges PROVE ExactInv(e)'
  OBVIOUS
<1> ExactInv(e)
  OBVIOUS
<1>1. /\ tracked[e] \in Nat /\ snapshot[e] \in Nat
      /\ row[e].last_snapshot_bytes \in Nat /\ row[e].bytes \in Nat
  BY DEF TypeOK, Row
<1>2. CASE Quiet
  <2>1. /\ e \in known' => e \in known /\ row'[e] = row[e]
        /\ e \in pending' => e \in pending /\ snapshot'[e] = snapshot[e]
        /\ e \notin closed' => e \notin closed /\ tracked'[e] >= tracked[e]
        /\ tracked'[e] \in Nat
    BY <1>1, <1>2 DEF Quiet, Forgets, KernelStep, Rests, Grows1, Drops
  <2>2. QED
    BY <1>1, <2>1 DEF ExactInv
<1>3. CASE Poll
  <2>1. /\ UNCHANGED <<known, row, tracked>>
        /\ snapshot' = tracked
        /\ closed' = closed \cap known
    BY <1>3 DEF Poll, kernel, database
  <2>2. QED
    BY <1>1, <2>1 DEF ExactInv
<1>4. ASSUME NEW d \in Edges, RecordEdge(d) PROVE ExactInv(e)'
  <2>1. UNCHANGED <<tracked, snapshot, closed>> /\ pending' = pending \ {d} /\ d \in pending
    BY <1>4 DEF RecordEdge, kernel
  <2>2. CASE d # e
    <3>1. row'[e] = row[e] /\ (e \in known' <=> e \in known)
      BY <1>4, <2>2, RecordRow
    <3>2. QED
      BY <2>1, <3>1 DEF ExactInv
  <2>3. CASE d = e /\ e \notin known
    <3>1. row'[e] = NewRow(e)
      BY <1>4, <2>3, RecordRow
    <3>2. QED
      BY <1>1, <2>1, <2>3, <3>1 DEF ExactInv, NewRow
  <2>4. CASE d = e /\ e \in known
    <3>1. row'[e] = UpdatedRow(e)
      BY <1>4, <2>4, RecordRow
    <3>2. QED
      BY <1>1, <2>1, <2>4, <3>1 DEF ExactInv, UpdatedRow, ByteDelta, Delta
  <2>5. QED
    BY <2>2, <2>3, <2>4
<1>5. QED
  BY <1>2, <1>3, <1>4, Steps

(* While none of its connections has closed since the row was created, the  *)
(* estimate of record_edge is the kernel's counter itself.                  *)
THEOREM Exact == Spec => []ExactWhileOpen
<1> DEFINE I == TypeOK /\ CycleInv /\ \A e \in Edges : ExactInv(e)
<1>1. Init => I
  BY DEF Init, TypeOK, CycleInv, ExactInv, Blank, Row
<1>2. I /\ [Next]_vars => I'
  BY NextTypeOK, NextCycleInv, NextExactInv
<1>3. I => ExactWhileOpen
  BY DEF TypeOK, ExactInv, ExactWhileOpen
<1> HIDE DEF I
<1>4. QED
  BY <1>1, <1>2, <1>3, PTL DEF Spec

------------------------------------------------------------------------------
(* One connection at a time: the estimate never exceeds the traffic.        *)

LEMMA DeltaFacts ==
  ASSUME NEW l \in Nat, NEW t \in Nat
  PROVE  /\ Delta(l, t) \in Nat
         /\ Delta(l, t + 1) <= Delta(l, t) + 1
         /\ Delta(l, 0) = 0
         /\ Delta(l, l) = 0
BY DEF Delta

(* The row, with what the snapshot in hand and the traffic since then will  *)
(* still add to it, stays within what the edge carried.                     *)
BoundInv(e) ==
  /\ tracked[e] <= sent[e]
  /\ e \in known =>
       row[e].bytes + Delta(row[e].last_snapshot_bytes, tracked[e]) <= sent[e]
  /\ e \in pending \cap known =>
       row[e].bytes + Delta(row[e].last_snapshot_bytes, snapshot[e])
         + Delta(snapshot[e], tracked[e]) <= sent[e]
  /\ e \in pending \ known => snapshot[e] + Delta(snapshot[e], tracked[e]) <= sent[e]

LEMMA NextBoundInv ==
  ASSUME MaxConns = 1, TypeOK, CycleInv, [Next]_vars, \A e \in Edges : BoundInv(e)
  PROVE  \A e \in Edges : BoundInv(e)'
<1> SUFFICES ASSUME NEW e \in Edges PROVE BoundInv(e)'
  OBVIOUS
<1> BoundInv(e)
  OBVIOUS
<1> DEFINE L == row[e].last_snapshot_bytes
           B == row[e].bytes
<1>1. /\ tracked[e] \in Nat /\ snapshot[e] \in Nat /\ sent[e] \in Nat
      /\ L \in Nat /\ B \in Nat /\ conns[e] \in 0..1
  BY DEF TypeOK, Row
<1>2. /\ Delta(L, tracked[e]) \in Nat
      /\ Delta(L, snapshot[e]) \in Nat
      /\ Delta(snapshot[e], tracked[e]) \in Nat
  BY <1>1, DeltaFacts
<1>3. CASE Quiet
  <2>1. /\ e \in known' => e \in known /\ row'[e] = row[e]
        /\ e \in pending' => /\ e \in pending /\ snapshot'[e] = snapshot[e]
                             /\ e \in known' <=> e \in known
    BY <1>3 DEF Quiet, Forgets
  <2>2. CASE Rests(e)
    BY <1>1, <2>1, <2>2 DEF BoundInv, Rests
  <2>3. CASE Grows1(e)
    <3>1. /\ Delta(L, tracked'[e]) <= Delta(L, tracked[e]) + 1
          /\ Delta(snapshot[e], tracked'[e]) <= Delta(snapshot[e], tracked[e]) + 1
          /\ Delta(L, tracked'[e]) \in Nat
          /\ Delta(snapshot[e], tracked'[e]) \in Nat
      BY <1>1, <2>3, DeltaFacts DEF Grows1
    <3>2. QED
      BY <1>1, <1>2, <2>1, <2>3, <3>1 DEF BoundInv, Grows1
  <2>4. CASE Drops(e)
    <3>1. tracked'[e] = 0 /\ sent'[e] = sent[e]
      BY <1>1, <2>4 DEF Drops
    <3>2. Delta(L, tracked'[e]) = 0 /\ Delta(snapshot[e], tracked'[e]) = 0
      BY <1>1, <3>1, DeltaFacts
    <3>3. QED
      BY <1>1, <1>2, <2>1, <3>1, <3>2 DEF BoundInv
  <2>5. QED
    BY <1>3, <2>2, <2>3, <2>4 DEF Quiet, KernelStep
<1>4. CASE Poll
  <2>1. UNCHANGED <<known, row, tracked, sent>> /\ snapshot' = tracked
    BY <1>4 DEF Poll, kernel, database
  <2>2. Delta(tracked[e], tracked[e]) = 0
    BY <1>1, DeltaFacts
  <2>3. QED
    BY <1>1, <1>2, <2>1, <2>2 DEF BoundInv
<1>5. ASSUME NEW d \in Edges, RecordEdge(d) PROVE BoundInv(e)'
  <2>1. UNCHANGED <<tracked, sent, snapshot>> /\ pending' = pending \ {d} /\ d \in pending
    BY <1>5 DEF RecordEdge, kernel
  <2>2. CASE d # e
    <3>1. row'[e] = row[e] /\ (e \in known' <=> e \in known)
      BY <1>5, <2>2, RecordRow
    <3>2. QED
      BY <2>1, <3>1 DEF BoundInv
  <2>3. CASE d = e /\ e \notin known
    <3>1. row'[e] = NewRow(e)
      BY <1>5, <2>3, RecordRow
    <3>2. QED
      BY <1>1, <1>2, <2>1, <2>3, <3>1 DEF BoundInv, NewRow
  <2>4. CASE d = e /\ e \in known
    <3>1. row'[e] = UpdatedRow(e)
      BY <1>5, <2>4, RecordRow
    <3>2. /\ row'[e].bytes = B + Delta(L, snapshot[e])
          /\ row'[e].last_snapshot_bytes = snapshot[e]
      BY <3>1 DEF UpdatedRow, ByteDelta, Delta
    <3>3. QED
      BY <1>1, <1>2, <2>1, <2>4, <3>2 DEF BoundInv
  <2>5. QED
    BY <2>2, <2>3, <2>4
<1>6. QED
  BY <1>3, <1>4, <1>5, Steps

(* While an edge has at most one tracked connection at a time, record_edge  *)
(* never counts more than the edge carried, across polls, closings,         *)
(* reopenings, prunings and deaths of the collector.                        *)
THEOREM Bounded == ASSUME MaxConns = 1 PROVE Spec => []NeverOverestimates
<1> DEFINE I == TypeOK /\ CycleInv /\ \A e \in Edges : BoundInv(e)
<1>1. Init => I
  BY DEF Init, TypeOK, CycleInv, BoundInv, Delta, Blank, Row
<1>2. I /\ [Next]_vars => I'
  BY NextTypeOK, NextCycleInv, NextBoundInv
<1>3. I => NeverOverestimates
  <2> SUFFICES ASSUME I, NEW e \in known PROVE row[e].bytes <= sent[e]
    BY DEF NeverOverestimates
  <2>1. /\ tracked[e] \in Nat /\ sent[e] \in Nat
        /\ row[e].last_snapshot_bytes \in Nat /\ row[e].bytes \in Nat
        /\ BoundInv(e)
    BY DEF TypeOK, Row
  <2>2. Delta(row[e].last_snapshot_bytes, tracked[e]) \in Nat
    BY <2>1, DeltaFacts
  <2>3. QED
    BY <2>1, <2>2 DEF BoundInv
<1> HIDE DEF I
<1>4. QED
  BY <1>1, <1>2, <1>3, PTL DEF Spec

------------------------------------------------------------------------------
(* The IR log.                                                              *)

(* An edge with its history has a log that begins with its row.             *)
LogInv ==
  /\ IsFiniteSet(events)
  /\ \A e \in Edges \ trimmed : e \notin known => EventsOf(e) = {}

(* A step as an edge's log sees it: the history is deleted, or nothing      *)
(* happens to row and log.                                                  *)
LogKept(e) ==
  e \notin trimmed' => /\ e \notin trimmed
                       /\ e \in known' <=> e \in known
                       /\ e \in known => row'[e] = row[e]
                       /\ EventsOf(e)' = EventsOf(e)

LEMMA DeleteKeeps ==
  ASSUME TypeOK, NEW gone, DeleteRows(gone), trimmed' = trimmed \cup gone, UNCHANGED events,
         NEW e \in Edges
  PROVE  LogKept(e)
BY DEF TypeOK, DeleteRows, LogKept, EventsOf

LEMMA DeleteEventsKeeps ==
  ASSUME TypeOK, NEW gone, DeleteEvents(gone), trimmed' = trimmed \cup EdgesOf(gone),
         UNCHANGED <<known, row>>, NEW e \in Edges
  PROVE  LogKept(e)
<1>1. e \notin trimmed' => \A v \in gone : v.edge # e
  BY DEF EdgesOf
<1> QED BY <1>1 DEF DeleteEvents, LogKept, EventsOf

(* Only recording an edge adds to its log.                                  *)
LEMMA LogSteps ==
  ASSUME TypeOK, LogInv, [Next]_vars, NEW e \in Edges
  PROVE  IsFiniteSet(events') /\ (LogKept(e) \/ RecordEdge(e))
<1>0. IsFiniteSet(events)
  BY DEF LogInv
<1>1. CASE UNCHANGED <<known, row, events, trimmed>>
  BY <1>0, <1>1 DEF LogKept, EventsOf
<1>2. CASE PruneFlows
  <2>1. PICK gone : DeleteRows(gone) /\ trimmed' = trimmed \cup gone
    BY <1>2 DEF PruneFlows
  <2>2. UNCHANGED events
    BY <1>2 DEF PruneFlows
  <2> QED BY <1>0, <2>1, <2>2, DeleteKeeps
<1>3. CASE PruneEvents
  <2>1. PICK gone : DeleteEvents(gone) /\ trimmed' = trimmed \cup EdgesOf(gone)
    BY <1>3 DEF PruneEvents
  <2>2. UNCHANGED <<known, row>> /\ events' \subseteq events
    BY <1>3, <2>1 DEF PruneEvents, DeleteEvents
  <2>3. IsFiniteSet(events')
    BY <1>0, <2>2, FS_Subset
  <2> QED BY <2>1, <2>2, <2>3, DeleteEventsKeeps
<1>4. CASE BudgetEvents
  <2>1. CASE UNCHANGED <<events, trimmed>>
    BY <1>1, <1>4, <2>1 DEF BudgetEvents
  <2>2. CASE \E oldest \in events : DeleteEvents({oldest}) /\ trimmed' = trimmed \cup {oldest.edge}
    <3>1. PICK oldest : DeleteEvents({oldest}) /\ trimmed' = trimmed \cup {oldest.edge}
      BY <2>2
    <3>2. EdgesOf({oldest}) = {oldest.edge}
      BY DEF EdgesOf
    <3>3. UNCHANGED <<known, row>> /\ events' \subseteq events
      BY <1>4, <3>1 DEF BudgetEvents, DeleteEvents
    <3>4. IsFiniteSet(events')
      BY <1>0, <3>3, FS_Subset
    <3> QED BY <3>1, <3>2, <3>3, <3>4, DeleteEventsKeeps
  <2> QED BY <1>4, <2>1, <2>2 DEF BudgetEvents
<1>5. CASE BudgetRows
  <2>1. PICK victim \in known : DeleteRows({victim}) /\ trimmed' = trimmed \cup {victim}
    BY <1>5 DEF BudgetRows
  <2>2. UNCHANGED events
    BY <1>5 DEF BudgetRows
  <2> QED BY <1>0, <2>1, <2>2, DeleteKeeps
<1>6. ASSUME NEW d \in Edges, RecordEdge(d)
      PROVE  IsFiniteSet(events') /\ (LogKept(e) \/ RecordEdge(e))
  <2>1. PICK new : events' = events \cup new /\ IsFiniteSet(new) /\ \A v \in new : v.edge = d
    <3>1. IsFiniteSet({NewEvent(d)}) /\ IsFiniteSet({WakeEvent(d)}) /\ IsFiniteSet({})
      BY FS_Singleton, FS_EmptySet
    <3>2. NewEvent(d).edge = d /\ WakeEvent(d).edge = d
      BY DEF NewEvent, WakeEvent
    <3> QED BY <1>6, <3>1, <3>2 DEF RecordEdge
  <2>2. IsFiniteSet(events')
    BY <1>0, <2>1, FS_Union
  <2>3. CASE d # e
    <3>1. row'[e] = row[e] /\ (e \in known' <=> e \in known)
      BY <1>6, <2>3, RecordRow
    <3>2. UNCHANGED trimmed
      BY <1>6 DEF RecordEdge
    <3>3. EventsOf(e)' = EventsOf(e)
      BY <2>1, <2>3 DEF EventsOf
    <3> QED BY <2>2, <3>1, <3>2, <3>3 DEF LogKept
  <2> QED BY <1>6, <2>2, <2>3
<1>7. ASSUME NEW d \in Edges, Open(d) \/ Transfer(d) \/ Close(d)
      PROVE  UNCHANGED <<known, row, events, trimmed>>
  BY <1>7 DEF Open, Transfer, Close, database
<1>8. SetClock \/ StartCycle \/ EnforceDone \/ Poll \/ EndCycle \/ Crash \/ UNCHANGED vars
        => UNCHANGED <<known, row, events, trimmed>>
  BY DEF SetClock, StartCycle, EnforceDone, Poll, EndCycle, Crash, vars, database
<1> QED BY <1>1, <1>2, <1>3, <1>4, <1>5, <1>6, <1>7, <1>8 DEF Next

(* What recording an edge does to its log.                                  *)
LEMMA RecordLog ==
  ASSUME TypeOK, NEW e \in Edges, RecordEdge(e)
  PROVE  /\ UNCHANGED trimmed /\ e \in known'
         /\ e \notin known => row'[e] = NewRow(e) /\ EventsOf(e)' = EventsOf(e) \cup {NewEvent(e)}
         /\ e \in known => /\ row'[e] = UpdatedRow(e)
                           /\ Wakes(e) => EventsOf(e)' = EventsOf(e) \cup {WakeEvent(e)}
                           /\ ~Wakes(e) => EventsOf(e)' = EventsOf(e)
<1>1. NewEvent(e).edge = e /\ WakeEvent(e).edge = e
  BY DEF NewEvent, WakeEvent
<1>2. UNCHANGED trimmed /\ e \in known'
  BY DEF RecordEdge
<1>3. CASE e \notin known
  <2>1. events' = events \cup {NewEvent(e)} /\ row'[e] = NewRow(e)
    BY <1>3 DEF RecordEdge, TypeOK
  <2>2. EventsOf(e)' = EventsOf(e) \cup {NewEvent(e)}
    BY <1>1, <2>1 DEF EventsOf
  <2> QED BY <1>2, <1>3, <2>1, <2>2
<1>4. CASE e \in known
  <2>1. events' = events \cup (IF Wakes(e) THEN {WakeEvent(e)} ELSE {})
        /\ row'[e] = UpdatedRow(e)
    BY <1>4 DEF RecordEdge, TypeOK
  <2>2. Wakes(e) => EventsOf(e)' = EventsOf(e) \cup {WakeEvent(e)}
    BY <1>1, <2>1 DEF EventsOf
  <2>3. ~Wakes(e) => EventsOf(e)' = EventsOf(e)
    BY <1>1, <2>1 DEF EventsOf
  <2> QED BY <1>2, <1>4, <2>1, <2>2, <2>3
<1> QED BY <1>3, <1>4

LEMMA NextLogInv == TypeOK /\ LogInv /\ [Next]_vars => LogInv'
<1> SUFFICES ASSUME TypeOK, LogInv, [Next]_vars PROVE LogInv'
  OBVIOUS
<1>1. ASSUME NEW e \in Edges, e \notin trimmed', e \notin known' PROVE EventsOf(e)' = {}
  <2>1. CASE LogKept(e)
    BY <1>1, <2>1 DEF LogKept, LogInv
  <2>2. CASE RecordEdge(e)
    BY <1>1, <2>2, RecordLog
  <2> QED BY <2>1, <2>2, LogSteps
<1>2. IsFiniteSet(events')
  <2>1. CASE Edges = {}
    <3>1. events' = {}
      BY <2>1, NextTypeOK DEF TypeOK, Event
    <3> QED BY <3>1, FS_EmptySet
  <2> QED BY <2>1, LogSteps
<1> QED BY <1>1, <1>2 DEF LogInv

------------------------------------------------------------------------------
(* Gaps.                                                                    *)

LEMMA NextGaps == TypeOK /\ LogInv /\ GapsAccountedFor /\ [Next]_vars => GapsAccountedFor'
<1> SUFFICES ASSUME TypeOK, LogInv, GapsAccountedFor, [Next]_vars,
                    NEW e \in known', e \notin trimmed'
             PROVE  /\ \A v \in EventsOf(e)' : v.idle_gap <= row'[e].max_gap
                    /\ row'[e].max_gap >= EventMinGap /\ EventMinGap > 0
                         => \E v \in EventsOf(e)' : v.idle_gap = row'[e].max_gap
  BY DEF GapsAccountedFor
<1>1. e \in Edges /\ known \subseteq Edges
  BY NextTypeOK DEF TypeOK
<1>2. CASE LogKept(e)
  BY <1>2 DEF LogKept, GapsAccountedFor
<1>3. CASE RecordEdge(e) /\ e \notin known
  <2>1. EventsOf(e)' = {NewEvent(e)} /\ row'[e] = NewRow(e)
    BY <1>1, <1>3, RecordLog DEF LogInv
  <2>2. NewEvent(e).idle_gap = 0 /\ NewRow(e).max_gap = 0
    BY DEF NewEvent, NewRow
  <2> QED BY <2>1, <2>2
<1>4. CASE RecordEdge(e) /\ e \in known
  <2>1. PICK d \in Nat, g \in Int, m \in Nat :
          d = ByteDelta(e) /\ g = Gap(e) /\ m = row[e].max_gap
    BY <1>1, ByteDeltaType, GapType
  <2>2. row'[e].max_gap = IF d > 0 /\ g > m THEN g ELSE m
    <3>1. row'[e] = UpdatedRow(e)
      BY <1>1, <1>4, RecordLog
    <3>2. UpdatedRow(e).max_gap = IF d > 0 /\ g > m THEN g ELSE m
      BY <2>1 DEF UpdatedRow
    <3> QED BY <3>1, <3>2
  <2>3. /\ \A v \in EventsOf(e) : v.idle_gap <= m
        /\ m >= EventMinGap /\ EventMinGap > 0 => \E v \in EventsOf(e) : v.idle_gap = m
    BY <1>1, <1>4, <2>1, RecordLog DEF GapsAccountedFor
  <2>4. \A v \in EventsOf(e) : v.idle_gap \in Nat
    BY DEF EventsOf, TypeOK, Event
  <2>5. Wakes(e) <=> d > 0 /\ g >= EventMinGap /\ EventMinGap > 0
    BY <2>1 DEF Wakes
  <2>6. CASE Wakes(e)
    <3>1. EventsOf(e)' = EventsOf(e) \cup {WakeEvent(e)} /\ WakeEvent(e).idle_gap = g
      BY <1>1, <1>4, <2>1, <2>6, RecordLog DEF WakeEvent
    <3> QED BY <2>2, <2>3, <2>4, <2>5, <2>6, <3>1
  <2>7. CASE ~Wakes(e)
    <3>1. EventsOf(e)' = EventsOf(e)
      BY <1>1, <1>4, <2>7, RecordLog
    <3> QED BY <2>2, <2>3, <2>4, <2>5, <2>7, <3>1
  <2> QED BY <2>6, <2>7
<1> QED BY <1>1, <1>2, <1>3, <1>4, LogSteps

(* The gaps of the IR log (_append_event) and max_gap tell one story, for   *)
(* any threshold and any steps of the clock: an analyst who filters the log *)
(* by idle gap misses no edge whose row shows a gap at or above it.         *)
THEOREM GapsAgree == Spec => []GapsAccountedFor
<1> DEFINE I == TypeOK /\ LogInv /\ GapsAccountedFor
<1>1. Init => I
  BY FS_EmptySet DEF Init, TypeOK, LogInv, EventsOf, GapsAccountedFor, Blank, Row
<1>2. I /\ [Next]_vars => I'
  BY NextTypeOK, NextLogInv, NextGaps
<1>3. I => GapsAccountedFor
  OBVIOUS
<1> HIDE DEF I
<1>4. QED
  BY <1>1, <1>2, <1>3, PTL DEF Spec

------------------------------------------------------------------------------
(* Bytes.                                                                   *)

(* The bytes a log reports, with one event more.                            *)
LEMMA ReportedMore ==
  ASSUME NEW log, IsFiniteSet(log), \A v \in log : v.bytes_delta \in Nat,
         NEW x, x.bytes_delta \in Nat
  PROVE  /\ ReportedIn(log) \in Nat
         /\ ReportedIn(log \cup {x}) <= ReportedIn(log) + x.bytes_delta
<1> DEFINE more == log \cup {x}
           f == [v \in log |-> v.bytes_delta]
           h == [v \in more |-> v.bytes_delta]
<1>1. ReportedIn(log) = SumFunctionOnSet(f, log) /\ ReportedIn(more) = SumFunctionOnSet(h, more)
  BY DEF ReportedIn, SumFunction
<1>2. /\ IsFiniteSet(more) /\ IsFiniteSet(log) /\ x \in more
      /\ \A v \in log : f[v] \in Nat
      /\ \A v \in log : f[v] \in Int /\ f[v] = h[v]
      /\ \A v \in more : h[v] \in Int
      /\ h[x] = x.bytes_delta
  <2>1. IsFiniteSet(more)
    BY FS_AddElement
  <2> QED BY <2>1
<1>3. x \in log => more = log
  OBVIOUS
<1>4. x \notin log => more \ {x} = log
  OBVIOUS
<1> HIDE DEF f, h, more
<1>5. PICK k \in Nat : k = SumFunctionOnSet(f, log)
  BY <1>2, SumNat
<1>6. SumFunctionOnSet(h, log) = k
  BY <1>2, <1>5, SumAgree
<1>7. CASE x \in log
  <2>1. SumFunctionOnSet(h, more) = k
    BY <1>3, <1>6, <1>7
  <2>2. PICK n \in Nat : n = x.bytes_delta /\ k <= k + n
    OBVIOUS
  <2> QED BY <1>1, <1>5, <2>1, <2>2 DEF more
<1>8. CASE x \notin log
  <2>1. SumFunctionOnSet(h, more) = h[x] + SumFunctionOnSet(h, more \ {x})
    BY <1>2, SumRemove
  <2>2. SumFunctionOnSet(h, more) = x.bytes_delta + k
    BY <1>2, <1>4, <1>6, <1>8, <2>1
  <2> QED BY <1>1, <1>5, <2>2 DEF more
<1> QED BY <1>7, <1>8

LEMMA ReportedNothing == ReportedIn({}) = 0
<1> DEFINE f == [v \in {} |-> v.bytes_delta]
<1>1. ReportedIn({}) = SumFunctionOnSet(f, {})
  BY DEF ReportedIn, SumFunction
<1> QED BY <1>1, SumEmpty

LEMMA NextEvents == TypeOK /\ LogInv /\ EventsMatchRow /\ [Next]_vars => EventsMatchRow'
<1> SUFFICES ASSUME TypeOK, LogInv, EventsMatchRow, [Next]_vars,
                    NEW e \in known', e \notin trimmed'
             PROVE  /\ \E v \in EventsOf(e)' : v.kind = "new" /\ v.ts = row'[e].first_seen
                    /\ ReportedIn(EventsOf(e)') <= row'[e].bytes
  BY DEF EventsMatchRow
<1>1. e \in Edges /\ known \subseteq Edges
  BY NextTypeOK DEF TypeOK
<1>2. CASE LogKept(e)
  BY <1>2 DEF LogKept, EventsMatchRow
<1>3. /\ IsFiniteSet(EventsOf(e))
      /\ \A v \in EventsOf(e) : v.bytes_delta \in Nat
  <2>1. EventsOf(e) \subseteq events
    BY DEF EventsOf
  <2>2. IsFiniteSet(EventsOf(e))
    BY <2>1, FS_Subset DEF LogInv
  <2> QED BY <2>1, <2>2 DEF TypeOK, Event
<1>4. CASE RecordEdge(e) /\ e \notin known
  <2>1. EventsOf(e)' = {} \cup {NewEvent(e)} /\ row'[e] = NewRow(e)
    BY <1>1, <1>4, RecordLog DEF LogInv
  <2>2. PICK n \in Nat : n = snapshot[e]
    BY <1>1 DEF TypeOK
  <2>3. /\ NewEvent(e).bytes_delta = n /\ NewRow(e).bytes = n
        /\ NewEvent(e).kind = "new" /\ NewEvent(e).ts = NewRow(e).first_seen
    BY <2>2 DEF NewEvent, NewRow
  <2>4. ReportedIn({} \cup {NewEvent(e)}) <= n
    <3>1. IsFiniteSet({}) /\ NewEvent(e).bytes_delta \in Nat
      BY <2>3, FS_EmptySet
    <3>2. ReportedIn({} \cup {NewEvent(e)}) <= ReportedIn({}) + NewEvent(e).bytes_delta
      BY <3>1, ReportedMore
    <3> QED BY <2>3, <3>2, ReportedNothing
  <2> QED BY <2>1, <2>3, <2>4
<1>5. CASE RecordEdge(e) /\ e \in known
  <2>1. PICK d \in Nat, b \in Nat, r \in Nat :
          d = ByteDelta(e) /\ b = row[e].bytes /\ r = ReportedIn(EventsOf(e))
    <3>1. ReportedIn(EventsOf(e)) \in Nat
      <4>1. NewEvent(e).bytes_delta \in Nat
        BY <1>1 DEF NewEvent, TypeOK
      <4> QED BY <1>3, <4>1, ReportedMore
    <3>2. row[e].bytes \in Nat
      BY <1>1 DEF TypeOK, Row
    <3> QED BY <1>1, <3>1, <3>2, ByteDeltaType
  <2>2. /\ row'[e].bytes = b + d /\ row'[e].first_seen = row[e].first_seen /\ UNCHANGED trimmed
    <3>1. row'[e] = UpdatedRow(e) /\ UNCHANGED trimmed
      BY <1>1, <1>5, RecordLog
    <3>2. UpdatedRow(e).bytes = b + d /\ UpdatedRow(e).first_seen = row[e].first_seen
      BY <2>1 DEF UpdatedRow
    <3> QED BY <3>1, <3>2
  <2>3. /\ \E v \in EventsOf(e) : v.kind = "new" /\ v.ts = row[e].first_seen
        /\ r <= b
    BY <1>5, <2>1, <2>2 DEF EventsMatchRow
  <2>4. CASE Wakes(e)
    <3>1. EventsOf(e)' = EventsOf(e) \cup {WakeEvent(e)}
      BY <1>1, <1>5, <2>4, RecordLog
    <3>2. WakeEvent(e).bytes_delta = d
      BY <2>1 DEF WakeEvent
    <3>3. ReportedIn(EventsOf(e) \cup {WakeEvent(e)}) <= r + d
      BY <1>3, <2>1, <3>2, ReportedMore
    <3>4. ReportedIn(EventsOf(e) \cup {WakeEvent(e)}) \in Nat
      <4>1. IsFiniteSet(EventsOf(e) \cup {WakeEvent(e)})
        BY <1>3, FS_AddElement
      <4>2. \A v \in EventsOf(e) \cup {WakeEvent(e)} : v.bytes_delta \in Nat
        BY <1>3, <3>2
      <4> QED BY <3>2, <4>1, <4>2, ReportedMore
    <3> QED BY <2>2, <2>3, <3>1, <3>3, <3>4
  <2>5. CASE ~Wakes(e)
    <3>1. EventsOf(e)' = EventsOf(e)
      BY <1>1, <1>5, <2>5, RecordLog
    <3> QED BY <2>1, <2>2, <2>3, <3>1
  <2> QED BY <2>4, <2>5
<1> QED BY <1>1, <1>2, <1>4, <1>5, LogSteps

(* record_edge writes a row and its event in one transaction: a row with    *)
(* its history has the "new" event it began with, and all its events        *)
(* together report no more bytes than the row counts.                       *)
THEOREM EventsAgree == Spec => []EventsMatchRow
<1> DEFINE I == TypeOK /\ LogInv /\ EventsMatchRow
<1>1. Init => I
  BY FS_EmptySet DEF Init, TypeOK, LogInv, EventsOf, EventsMatchRow, Blank, Row
<1>2. I /\ [Next]_vars => I'
  BY NextTypeOK, NextLogInv, NextEvents
<1>3. I => EventsMatchRow
  OBVIOUS
<1> HIDE DEF I
<1>4. QED
  BY <1>1, <1>2, <1>3, PTL DEF Spec
===============================================================================
