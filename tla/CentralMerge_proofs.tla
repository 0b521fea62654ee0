------------------------- MODULE CentralMerge_proofs -------------------------
(***************************************************************************)
(* For any hosts, edges, importers and failures: what is answered is       *)
(* merged, a pushed body is merged as a whole, and the central rows are    *)
(* those of CentralView.                                                   *)
(***************************************************************************)
EXTENDS CentralMerge, TLAPS

(* The clock of a host bounds its counters.                                 *)
LocalInv ==
  \A h \in Hosts, e \in Edges : local[h][e] # NoRow => local[h][e].bytes <= clock[h]

(* A row says when the edge was first and last seen in what was merged.     *)
Tells(row, versions) ==
  /\ row = NoRow <=> versions = {}
  /\ row # NoRow =>
       /\ \E v \in versions : v.first_seen = row.first_seen
       /\ \E v \in versions : v.last_seen = row.last_seen
       /\ \A v \in versions : row.first_seen <= v.first_seen /\ v.last_seen <= row.last_seen

TableInv(flows) ==
  \A h \in Hosts, e \in Edges : Tells(flows.rows[h][e], flows.merged[h][e])

(* What the open transaction did to a row: nothing, or one merge.           *)
Same(h, e) ==
  /\ working.rows[h][e] = central.rows[h][e]
  /\ working.merged[h][e] = central.merged[h][e]
OneMore(h, e, v) ==
  /\ working.rows[h][e] # NoRow /\ working.rows[h][e].bytes = v.bytes
  /\ working.merged[h][e] = central.merged[h][e] \cup {v}
Changed(h) ==
  \A g \in Hosts, e \in Edges :
    Same(g, e) \/ (g = h /\ \E v \in Versions : OneMore(g, e, v))

(* It has merged the rows of a body of a host, but for those to do.         *)
Merging(h, rows, todo) ==
  /\ \A g \in Hosts, e \in Edges : Same(g, e) \/ (g = h /\ e \in Present(rows) \ todo)
  /\ \A e \in Present(rows) \ todo : OneMore(h, e, rows[e])

TransactionInv ==
  /\ writer = Nobody => working = central
  /\ writer # Nobody => \E h \in Hosts : Changed(h)
  /\ \A w \in Workers : writer = w /\ pc[w] = "rows" =>
       Merging(task[w].host, task[w].rows, task[w].todo)

(* The rows of a worker's snapshot that it has merged.                      *)
Through(w) == Present(task[w].rows) \ task[w].todo

TaskInv ==
  \A w \in Workers :
    /\ pc[w] = "idle" => task[w] = NoTask
    /\ pc[w] # "idle" => task[w].host \in Hosts
    /\ pc[w] \in {"received", "ok"} => task[w].from = "push"
    /\ pc[w] \in {"received", "open"} =>
         /\ task[w].todo = Present(task[w].rows)
         /\ task[w].from = "push" => writer # w
    /\ pc[w] \in {"open", "rows"} /\ task[w].from = "push" => lock = w
    /\ pc[w] = "rows" =>
         /\ task[w].todo \subseteq Present(task[w].rows)
         /\ Through(w) # {} => writer = w
         /\ \A e \in Through(w) : task[w].rows[e] \in working.merged[task[w].host][e]

IInv ==
  /\ TypeOK
  /\ LocalInv
  /\ TableInv(central) /\ TableInv(working)
  /\ TransactionInv
  /\ TaskInv
  /\ AnsweredMeansMerged
------------------------------------------------------------------------------
(* One row.                                                                 *)

LEMMA MergedType ==
  ASSUME NEW old \in Versions \cup {NoRow}, NEW new \in Versions
  PROVE  MergedRow(old, new) \in Versions
BY CentralMergeAssumption DEF MergedRow, Versions, Least, Greatest

(* MergedRow keeps what a row tells of the versions merged into it.         *)
LEMMA MergedTells ==
  ASSUME NEW old \in Versions \cup {NoRow}, NEW new \in Versions,
         NEW versions \in SUBSET Versions, Tells(old, versions)
  PROVE  Tells(MergedRow(old, new), versions \cup {new})
<1>1. MergedRow(old, new) # NoRow
  BY MergedType, NoRowAssumption
<1>2. CASE old = NoRow
  <2>1. versions \cup {new} = {new} /\ MergedRow(old, new) = new
    BY <1>2 DEF Tells, MergedRow
  <2>2. new.first_seen \in Nat /\ new.last_seen \in Nat
    BY CentralMergeAssumption DEF Versions
  <2> QED
    BY <1>1, <2>1, <2>2 DEF Tells
<1>3. CASE old # NoRow
  <2> DEFINE row == MergedRow(old, new)
  <2>1. /\ row.first_seen = Least(old.first_seen, new.first_seen)
        /\ row.last_seen = Greatest(old.last_seen, new.last_seen)
    BY <1>3 DEF MergedRow
  <2>2. \A v \in Versions : v.first_seen \in Nat /\ v.last_seen \in Nat
    BY CentralMergeAssumption DEF Versions
  <2>3. old \in Versions
    BY <1>3
  <2>4. \A v \in versions \cup {new} :
          row.first_seen <= v.first_seen /\ v.last_seen <= row.last_seen
    BY <1>3, <2>1, <2>2, <2>3 DEF Tells, Least, Greatest
  <2>5. \E v \in versions \cup {new} : v.first_seen = row.first_seen
    BY <1>3, <2>1 DEF Tells, Least
  <2>6. \E v \in versions \cup {new} : v.last_seen = row.last_seen
    BY <1>3, <2>1 DEF Tells, Greatest
  <2> QED
    BY <1>1, <2>4, <2>5, <2>6 DEF Tells
<1> QED
  BY <1>2, <1>3

LEMMA WithRowFacts ==
  ASSUME NEW flows \in Flows, NEW h \in Hosts, NEW e \in Edges, NEW v \in Versions
  PROVE  LET new == WithRow(flows, h, e, v)
         IN  /\ new \in Flows
             /\ new.rows[h][e] = MergedRow(flows.rows[h][e], v)
             /\ new.merged[h][e] = flows.merged[h][e] \cup {v}
             /\ \A g \in Hosts, d \in Edges : g # h \/ d # e =>
                  /\ new.rows[g][d] = flows.rows[g][d]
                  /\ new.merged[g][d] = flows.merged[g][d]
<1> DEFINE new == WithRow(flows, h, e, v)
<1>1. flows.rows[h][e] \in Versions \cup {NoRow}
  BY DEF Flows, Rows
<1>2. MergedRow(flows.rows[h][e], v) \in Versions
  BY <1>1, MergedType
<1>3. /\ new.rows = [flows.rows EXCEPT ![h][e] = MergedRow(@, v)]
      /\ new.merged = [flows.merged EXCEPT ![h][e] = @ \cup {v}]
      /\ new = [rows |-> new.rows, merged |-> new.merged]
  BY DEF WithRow, Flows
<1>4. new.rows \in [Hosts -> Rows]
  BY <1>2, <1>3 DEF Flows, Rows
<1>5. new.merged \in [Hosts -> [Edges -> SUBSET Versions]]
  BY <1>3 DEF Flows
<1>6. new \in Flows
  BY <1>3, <1>4, <1>5 DEF Flows
<1> QED
  BY <1>3, <1>6 DEF Flows, Rows

(* The parts of TypeOK.                                                     *)

HostsOK ==
  /\ clock \in [Hosts -> 0..MaxTime]
  /\ local \in [Hosts -> Rows]
  /\ copy \in [Hosts -> [state : {"absent", "written"}, rows : Rows]]

DatabaseOK ==
  /\ params \subseteq Hosts
  /\ central \in Flows /\ working \in Flows
  /\ writer \in Workers \cup {Nobody}

WorkOK ==
  /\ lock \in Workers \cup {Nobody}
  /\ pc \in [Workers -> {"idle", "received", "open", "rows", "ok"}]
  /\ task \in [Workers -> [from : {"push", "file", "database", Nobody},
                           host : Hosts \cup {Nobody}, rows : Rows, todo : SUBSET Edges]]
  /\ faults \in 0..MaxFaults

------------------------------------------------------------------------------
(* The kinds of step.                                                       *)

(* What a step may do to the hosts.                                         *)
HostStep ==
  \/ UNCHANGED hosts
  \/ \E h \in Hosts, e \in Edges : Observe(h, e) \/ Forget(h, e)
  \/ \E h \in Hosts : Export(h)

(* What a step may do to the central database.                              *)
CommitStep == \E w \in Workers : UpsertHost(w) \/ Commit(w)
DropStep ==
  /\ writer # Nobody /\ writer' = Nobody /\ pc'[writer] = "idle"
  /\ working' = central
  /\ UNCHANGED <<params, central>>
DatabaseStep ==
  \/ UNCHANGED database
  \/ \E w \in Workers, e \in Edges : MergeRow(w, e)
  \/ CommitStep
  \/ DropStep

LEMMA Dropped ==
  ASSUME NEW w \in Workers, DropWork(w), pc'[w] = "idle"
  PROVE  UNCHANGED database \/ DropStep
BY CentralMergeAssumption DEF DropWork, DropStep, database

LEMMA Steps ==
  ASSUME WorkOK, [Next]_vars
  PROVE  HostStep /\ DatabaseStep
<1> USE DEF HostStep, DatabaseStep
<1>1. ASSUME NEW h \in Hosts, Export(h)
      PROVE  HostStep /\ DatabaseStep
  BY <1>1 DEF Export
<1>2. ASSUME NEW h \in Hosts, NEW e \in Edges, Observe(h, e) \/ Forget(h, e)
      PROVE  HostStep /\ DatabaseStep
  BY <1>2 DEF Observe, Forget
<1>3. ASSUME NEW w \in Workers, NEW h \in Hosts, Push(w, h) \/ PullFile(w, h) \/ PullDatabase(w, h)
      PROVE  HostStep /\ DatabaseStep
  BY <1>3 DEF Push, PullFile, PullDatabase
<1>4. ASSUME NEW w \in Workers, EnterIngest(w)
      PROVE  HostStep /\ DatabaseStep
  BY <1>4 DEF EnterIngest
<1>5. ASSUME NEW w \in Workers, Import(w)
      PROVE  HostStep /\ DatabaseStep
  <2>1. CASE UpsertHost(w)
    BY <2>1 DEF UpsertHost, CommitStep
  <2>2. ASSUME NEW e \in Edges, MergeRow(w, e) PROVE HostStep /\ DatabaseStep
    BY <2>2 DEF MergeRow
  <2>3. CASE Commit(w)
    BY <2>3 DEF Commit, CommitStep
  <2>4. CASE Busy(w)
    BY <2>4, Dropped DEF Busy, Failed, Done, Goto, WorkOK
  <2>5. CASE Answer(w)
    BY <2>5 DEF Answer
  <2>6. CASE FinishDatabases(w)
    BY <2>6, Dropped DEF FinishDatabases, WorkOK
  <2> QED
    BY <1>5, <2>1, <2>2, <2>3, <2>4, <2>5, <2>6 DEF Import
<1>6. ASSUME NEW w \in Workers, Fault(w)
      PROVE  HostStep /\ DatabaseStep
  BY <1>6, Dropped DEF Fault, Failed, Done, Goto, WorkOK
<1>7. ASSUME NEW process \in SUBSET Workers, Die(process)
      PROVE  HostStep /\ DatabaseStep
  BY <1>7, CentralMergeAssumption DEF Die, DropStep, database, WorkOK
<1>8. CASE UNCHANGED vars
  BY <1>8 DEF vars, hosts, database
<1>9. Threads \in SUBSET Workers /\ \A w \in Commands : {w} \in SUBSET Workers
  BY DEF Threads, Commands
<1> QED
  BY <1>1, <1>2, <1>3, <1>4, <1>5, <1>6, <1>7, <1>8, <1>9 DEF Next

------------------------------------------------------------------------------
(* Types.                                                                   *)

LEMMA TypeParts == TypeOK <=> HostsOK /\ DatabaseOK /\ WorkOK
BY DEF TypeOK, HostsOK, DatabaseOK, WorkOK

LEMMA HostsType ==
  ASSUME HostsOK, LocalInv, HostStep
  PROVE  HostsOK' /\ LocalInv'
<1>1. CASE UNCHANGED hosts
  BY <1>1 DEF HostsOK, LocalInv, hosts
<1>2. ASSUME NEW h \in Hosts, NEW e \in Edges, Observe(h, e)
      PROVE  HostsOK' /\ LocalInv'
  <2> DEFINE old == local[h][e]
             now == clock[h] + 1
             new == Recorded(old, now)
  <2>1. clock[h] \in 0..MaxTime /\ clock[h] < MaxTime /\ now \in 1..MaxTime
    BY <1>2, CentralMergeAssumption DEF Observe, HostsOK
  <2>2. old \in Versions \cup {NoRow}
    BY DEF HostsOK, Rows
  <2>3. new \in Versions /\ new.bytes <= now
    <3>1. CASE old = NoRow
      BY <2>1, <3>1, CentralMergeAssumption DEF Recorded, Versions
    <3>2. CASE old # NoRow
      <4>1. old \in Versions /\ old.bytes <= clock[h]
        BY <2>2, <3>2 DEF LocalInv
      <4> QED
        BY <2>1, <3>2, <4>1, CentralMergeAssumption DEF Recorded, Versions
    <3> QED
      BY <3>1, <3>2
  <2>4. local' = [local EXCEPT ![h][e] = new] /\ clock' = [clock EXCEPT ![h] = now]
        /\ copy' = copy
    BY <1>2 DEF Observe
  <2> HIDE DEF new
  <2>5. local' \in [Hosts -> Rows]
    BY <2>3, <2>4 DEF HostsOK, Rows
  <2>6. HostsOK'
    BY <2>1, <2>4, <2>5 DEF HostsOK
  <2>7. ASSUME NEW g \in Hosts, NEW d \in Edges, local'[g][d] # NoRow
        PROVE  local'[g][d].bytes <= clock'[g]
    <3>1. CASE g = h /\ d = e
      BY <2>3, <2>4, <3>1 DEF HostsOK, Rows
    <3>2. CASE ~ (g = h /\ d = e)
      <4>1. local'[g][d] = local[g][d] /\ local[g][d] \in Versions
        BY <2>4, <2>7, <3>2 DEF HostsOK, Rows
      <4>2. local[g][d].bytes <= clock[g] /\ local[g][d].bytes \in Nat
        BY <2>7, <4>1, CentralMergeAssumption DEF LocalInv, Versions
      <4>3. clock'[g] \in {clock[g], clock[g] + 1} /\ clock[g] \in Nat
        BY <2>4, CentralMergeAssumption DEF HostsOK
      <4> QED
        BY <4>1, <4>2, <4>3
    <3> QED
      BY <3>1, <3>2
  <2> QED
    BY <2>6, <2>7 DEF LocalInv
<1>3. ASSUME NEW h \in Hosts, NEW e \in Edges, Forget(h, e)
      PROVE  HostsOK' /\ LocalInv'
  BY <1>3 DEF Forget, HostsOK, LocalInv, Rows
<1>4. ASSUME NEW h \in Hosts, Export(h)
      PROVE  HostsOK' /\ LocalInv'
  <2>1. NoFile \in [state : {"absent", "written"}, rows : Rows]
    BY DEF NoFile, NoRows, Rows
  <2>2. [state |-> "written", rows |-> local[h]]
          \in [state : {"absent", "written"}, rows : Rows]
    BY DEF HostsOK
  <2> QED
    BY <1>4, <2>1, <2>2 DEF Export, HostsOK, LocalInv
<1> QED
  BY <1>1, <1>2, <1>3, <1>4 DEF HostStep

LEMMA DatabaseType ==
  ASSUME DatabaseOK, WorkOK, TaskInv, DatabaseStep
  PROVE  DatabaseOK'
<1>1. CASE UNCHANGED database
  BY <1>1 DEF DatabaseOK, database
<1>2. ASSUME NEW w \in Workers, NEW e \in Edges, MergeRow(w, e)
      PROVE  DatabaseOK'
  <2>1. task[w].host \in Hosts /\ task[w].rows[e] \in Versions
    BY <1>2 DEF MergeRow, TaskInv, WorkOK, Rows, Present, Through
  <2>2. working' \in Flows
    BY <1>2, <2>1, WithRowFacts DEF MergeRow, DatabaseOK
  <2> QED
    BY <1>2, <2>2 DEF MergeRow, DatabaseOK
<1>3. CASE CommitStep
  <2>1. central' = working /\ working' = working /\ writer' = Nobody
    BY <1>3 DEF CommitStep, UpsertHost, Commit, CommitWork
  <2>2. params' \subseteq Hosts
    BY <1>3 DEF CommitStep, UpsertHost, Commit, DatabaseOK, TaskInv
  <2> QED
    BY <2>1, <2>2 DEF DatabaseOK
<1>4. CASE DropStep
  BY <1>4 DEF DropStep, DatabaseOK
<1> QED
  BY <1>1, <1>2, <1>3, <1>4 DEF DatabaseStep


Job == [from : {"push", "file", "database", Nobody}, host : Hosts \cup {Nobody}, rows : Rows,
        todo : SUBSET Edges]

LEMMA JobFacts ==
  /\ NoTask \in Job
  /\ \A rows \in Rows : Present(rows) \subseteq Edges
BY DEF NoTask, Job, NoRows, Rows, Present

LEMMA WorkType ==
  ASSUME HostsOK, WorkOK, [Next]_vars
  PROVE  WorkOK'
<1> USE DEF Goto
<1>1. ASSUME NEW h \in Hosts, Export(h)
      PROVE  WorkOK'
  BY <1>1 DEF Export, WorkOK
<1>2. ASSUME NEW h \in Hosts, NEW e \in Edges, Observe(h, e) \/ Forget(h, e) PROVE WorkOK'
  BY <1>2, CentralMergeAssumption DEF Observe, Forget, WorkOK
<1>3. ASSUME NEW w \in Workers, NEW h \in Hosts, Push(w, h) \/ PullFile(w, h) \/ PullDatabase(w, h)
      PROVE  WorkOK'
  <2>1. PICK from \in {"push", "file", "database"}, rows \in Rows : Take(w, from, h, rows)
    BY <1>3 DEF Push, PullFile, PullDatabase, HostsOK
  <2>2. [from |-> from, host |-> h, rows |-> rows, todo |-> Present(rows)] \in Job
    BY <2>1, JobFacts DEF Job
  <2>3. task' \in [Workers -> Job]
    BY <2>1, <2>2 DEF Take, WorkOK, Job
  <2>4. /\ lock' = lock
        /\ faults' = faults
        /\ pc' \in {[pc EXCEPT ![w] = "received"], [pc EXCEPT ![w] = "open"]}
    BY <1>3 DEF Push, PullFile, PullDatabase
  <2> QED
    BY <2>3, <2>4 DEF WorkOK, Job
<1>4. ASSUME NEW w \in Workers, EnterIngest(w) PROVE WorkOK'
  BY <1>4 DEF EnterIngest, WorkOK
<1>5. ASSUME NEW w \in Workers, Done(w)
      PROVE  /\ pc' = [pc EXCEPT ![w] = "idle"]
             /\ task' \in [Workers -> Job]
  BY <1>5, JobFacts DEF Done, WorkOK, Job
<1>6. ASSUME NEW w \in Workers, Failed(w), faults' \in 0..MaxFaults
      PROVE  WorkOK'
  BY <1>5, <1>6 DEF Failed, Release, WorkOK, Job
<1>7. ASSUME NEW w \in Workers, Import(w) PROVE WorkOK'
  <2>1. CASE UpsertHost(w)
    BY <2>1 DEF UpsertHost, WorkOK
  <2>2. ASSUME NEW e \in Edges, MergeRow(w, e) PROVE WorkOK'
    <3>1. task' = [task EXCEPT ![w] = [task[w] EXCEPT !.todo = task[w].todo \ {e}]]
      BY <2>2 DEF MergeRow
    <3>2. task[w].todo \ {e} \in SUBSET Edges
      BY DEF WorkOK
    <3>3. task' \in [Workers -> Job]
      BY <3>1, <3>2 DEF WorkOK, Job
    <3> QED
      BY <2>2, <3>3 DEF MergeRow, WorkOK, Job
  <2>3. CASE Commit(w)
    BY <1>5, <2>3 DEF Commit, Release, WorkOK, Job
  <2>4. CASE Busy(w)
    BY <1>6, <2>4 DEF Busy, WorkOK
  <2>5. CASE Answer(w)
    BY <1>5, <2>5 DEF Answer, WorkOK, Job
  <2>6. CASE FinishDatabases(w)
    BY <2>6 DEF FinishDatabases, WorkOK
  <2> QED
    BY <1>7, <2>1, <2>2, <2>3, <2>4, <2>5, <2>6 DEF Import
<1>8. ASSUME NEW w \in Workers, Fault(w) PROVE WorkOK'
  BY <1>6, <1>8, CentralMergeAssumption DEF Fault, WorkOK
<1>9. ASSUME NEW process \in SUBSET Workers, Die(process) PROVE WorkOK'
  <2>1. task' \in [Workers -> Job]
    BY <1>9, JobFacts DEF Die, WorkOK, Job
  <2> QED
    BY <1>9, <2>1, CentralMergeAssumption DEF Die, WorkOK, Job
<1>10. CASE UNCHANGED vars
  BY <1>10 DEF vars, WorkOK
<1>11. Threads \in SUBSET Workers /\ \A w \in Commands : {w} \in SUBSET Workers
  BY DEF Threads, Commands
<1> QED
  BY <1>1, <1>2, <1>3, <1>4, <1>7, <1>8, <1>9, <1>10, <1>11 DEF Next

------------------------------------------------------------------------------
(* The database.                                                            *)

LEMMA MergedBytes ==
  ASSUME NEW old \in Versions \cup {NoRow}, NEW new \in Versions
  PROVE  MergedRow(old, new).bytes = new.bytes /\ MergedRow(old, new) # NoRow
BY MergedType, NoRowAssumption DEF MergedRow

(* A worker merges a row of a host into a database in order.                *)
LEMMA MergeFacts ==
  ASSUME DatabaseOK, WorkOK, TaskInv, TableInv(working),
         NEW w \in Workers, NEW e \in Edges, MergeRow(w, e)
  PROVE  LET h == task[w].host
             v == task[w].rows[e]
         IN  /\ h \in Hosts /\ v \in Versions
             /\ central' = central /\ writer' = w
             /\ working.rows[h][e] \in Versions \cup {NoRow}
             /\ working.merged[h][e] \in SUBSET Versions
             /\ Tells(working.rows[h][e], working.merged[h][e])
             /\ working'.rows[h][e] = MergedRow(working.rows[h][e], v)
             /\ working'.merged[h][e] = working.merged[h][e] \cup {v}
             /\ \A g \in Hosts, d \in Edges : g # h \/ d # e =>
                  /\ working'.rows[g][d] = working.rows[g][d]
                  /\ working'.merged[g][d] = working.merged[g][d]
<1>1. task[w].host \in Hosts /\ task[w].rows[e] \in Versions
  BY DEF MergeRow, TaskInv, WorkOK, Rows, Present, Through
<1>2. working \in Flows
  BY DEF DatabaseOK
<1>3. /\ working' = WithRow(working, task[w].host, e, task[w].rows[e])
      /\ central' = central
      /\ writer' = w
  BY DEF MergeRow
<1>4. Tells(working.rows[task[w].host][e], working.merged[task[w].host][e])
  BY <1>1 DEF TableInv
<1>5. /\ working.rows[task[w].host][e] \in Versions \cup {NoRow}
      /\ working.merged[task[w].host][e] \in SUBSET Versions
  BY <1>1, <1>2 DEF Flows, Rows
<1> DEFINE h == task[w].host
           v == task[w].rows[e]
<1>6. /\ working'.rows[h][e] = MergedRow(working.rows[h][e], v)
      /\ working'.merged[h][e] = working.merged[h][e] \cup {v}
      /\ \A g \in Hosts, d \in Edges : g # h \/ d # e =>
           /\ working'.rows[g][d] = working.rows[g][d]
           /\ working'.merged[g][d] = working.merged[g][d]
  <2> HIDE DEF h, v
  <2>1. h \in Hosts /\ v \in Versions /\ working' = WithRow(working, h, e, v)
    BY <1>1, <1>3 DEF h, v
  <2> QED
    BY <1>2, <2>1, WithRowFacts
<1> QED
  BY <1>1, <1>3, <1>4, <1>5, <1>6

LEMMA TableStep ==
  ASSUME DatabaseOK, WorkOK, TaskInv, TableInv(central), TableInv(working), DatabaseStep
  PROVE  TableInv(central') /\ TableInv(working')
<1>1. CASE UNCHANGED database
  BY <1>1 DEF database
<1>2. ASSUME NEW w \in Workers, NEW e \in Edges, MergeRow(w, e)
      PROVE  TableInv(central') /\ TableInv(working')
  <2> DEFINE h == task[w].host
             v == task[w].rows[e]
  <2>1. Tells(MergedRow(working.rows[h][e], v), working.merged[h][e] \cup {v})
    BY <1>2, MergeFacts, MergedTells
  <2>2. Tells(working'.rows[h][e], working'.merged[h][e])
    BY <1>2, <2>1, MergeFacts
  <2>3. ASSUME NEW g \in Hosts, NEW d \in Edges, g # h \/ d # e
        PROVE  Tells(working'.rows[g][d], working'.merged[g][d])
    BY <1>2, <2>3, MergeFacts DEF TableInv
  <2>4. central' = central
    BY <1>2 DEF MergeRow
  <2> QED
    BY <2>2, <2>3, <2>4 DEF TableInv
<1>3. CASE CommitStep
  BY <1>3 DEF CommitStep, UpsertHost, Commit, CommitWork
<1>4. CASE DropStep
  BY <1>4 DEF DropStep
<1> QED
  BY <1>1, <1>2, <1>3, <1>4 DEF DatabaseStep

(* What is merged stays merged.                                             *)
LEMMA Grows ==
  ASSUME TransactionInv, DatabaseStep, NEW h \in Hosts, NEW e \in Edges
  PROVE  central.merged[h][e] \subseteq central'.merged[h][e]
<1>1. central.merged[h][e] \subseteq working.merged[h][e]
  BY DEF TransactionInv, Changed, Same, OneMore
<1>2. central' \in {central, working}
  BY DEF DatabaseStep, database, MergeRow, CommitStep, UpsertHost, Commit, CommitWork, DropStep
<1> QED
  BY <1>1, <1>2

(* What a step may do to the work of one worker.                            *)
Begins(w) ==
  \E h \in Hosts, rows \in Rows :
    \/ Take(w, "push", h, rows) /\ pc' = [pc EXCEPT ![w] = "received"] /\ writer # w
    \/ \E from \in {"file", "database"} : Take(w, from, h, rows) /\ pc' = [pc EXCEPT ![w] = "open"]

Ends(w) == pc'[w] = "idle" /\ task'[w] = NoTask

WorkStep(w) ==
  \/ pc'[w] = pc[w] /\ task'[w] = task[w]
  \/ Begins(w) /\ UNCHANGED <<database, lock>>
  \/ EnterIngest(w)
  \/ UpsertHost(w)
  \/ \E e \in Edges : MergeRow(w, e)
  \/ Commit(w)
  \/ Ends(w)

(* A lock that is held stays so until its worker is done.                   *)
LockStep(w) == lock = w => lock' = w \/ pc'[w] \in {"idle", "ok"}

LEMMA WorkSteps ==
  ASSUME TypeOK, [Next]_vars, NEW w \in Workers
  PROVE  WorkStep(w) /\ LockStep(w)
<1> USE DEF WorkStep, LockStep
<1>1. ASSUME UNCHANGED <<pc, task, lock>> PROVE WorkStep(w) /\ LockStep(w)
  BY <1>1
<1>2. ASSUME NEW v \in Workers, NEW h \in Hosts, Push(v, h) \/ PullFile(v, h) \/ PullDatabase(v, h)
      PROVE  WorkStep(w) /\ LockStep(w)
  <2>1. CASE v = w
    <3>1. Begins(w) /\ UNCHANGED <<database, lock>>
      BY <1>2, <2>1, TypeParts DEF Push, PullFile, PullDatabase, Begins, Goto, Free, HostsOK
    <3> QED
      BY <3>1
  <2>2. CASE v # w
    BY <1>2, <2>2, TypeParts DEF Push, PullFile, PullDatabase, Goto, Take, WorkOK
  <2> QED
    BY <2>1, <2>2
<1>3. ASSUME NEW v \in Workers, EnterIngest(v) PROVE WorkStep(w) /\ LockStep(w)
  BY <1>3, TypeParts, CentralMergeAssumption DEF EnterIngest, Goto, WorkOK
<1>4. ASSUME NEW v \in Workers, Done(v), Release(v) \/ UNCHANGED lock
      PROVE  WorkStep(w) /\ LockStep(w)
  <2>1. CASE v = w
    BY <1>4, <2>1, TypeParts DEF Done, Goto, WorkOK, Ends
  <2>2. CASE v # w
    BY <1>4, <2>2, TypeParts DEF Done, Goto, Release, WorkOK
  <2> QED
    BY <2>1, <2>2
<1>5. ASSUME NEW v \in Workers, Import(v) PROVE WorkStep(w) /\ LockStep(w)
  <2>1. CASE UpsertHost(v)
    BY <2>1, TypeParts DEF UpsertHost, Goto, WorkOK
  <2>2. ASSUME NEW e \in Edges, MergeRow(v, e) PROVE WorkStep(w) /\ LockStep(w)
    BY <2>2, TypeParts DEF MergeRow, WorkOK
  <2>3. CASE Commit(v)
    <3>1. CASE v = w
      BY <2>3, <3>1, TypeParts DEF Commit, Goto, Done, WorkOK
    <3>2. CASE v # w
      BY <2>3, <3>2, TypeParts DEF Commit, Release, Done, Goto, WorkOK
    <3> QED
      BY <3>1, <3>2
  <2>4. CASE Busy(v)
    BY <1>4, <2>4 DEF Busy, Failed
  <2>5. CASE Answer(v)
    BY <1>4, <2>5 DEF Answer
  <2>6. CASE FinishDatabases(v)
    BY <1>1, <2>6 DEF FinishDatabases
  <2> QED
    BY <1>5, <2>1, <2>2, <2>3, <2>4, <2>5, <2>6 DEF Import
<1>6. ASSUME NEW v \in Workers, Fault(v) PROVE WorkStep(w) /\ LockStep(w)
  BY <1>4, <1>6 DEF Fault, Failed
<1>7. ASSUME NEW process, Die(process) PROVE WorkStep(w) /\ LockStep(w)
  <2>1. CASE w \in process
    BY <1>7, <2>1 DEF Die, Ends
  <2>2. CASE w \notin process
    BY <1>7, <2>2 DEF Die
  <2> QED
    BY <2>1, <2>2
<1>8. ASSUME NEW h \in Hosts, Export(h)
      PROVE  WorkStep(w) /\ LockStep(w)
  BY <1>1, <1>8 DEF Export
<1>9. ASSUME NEW h \in Hosts, NEW e \in Edges, Observe(h, e) \/ Forget(h, e)
      PROVE  WorkStep(w) /\ LockStep(w)
  BY <1>1, <1>9 DEF Observe, Forget
<1>10. CASE UNCHANGED vars
  BY <1>1, <1>10 DEF vars
<1> QED
  BY <1>2, <1>3, <1>5, <1>6, <1>7, <1>8, <1>9, <1>10 DEF Next

LEMMA TransactionStep ==
  ASSUME IInv, [Next]_vars, DatabaseStep
  PROVE  TransactionInv'
<1> USE TypeParts DEF IInv
<1>1. CASE CommitStep
  <2>1. central' = working /\ working' = working /\ writer' = Nobody
    BY <1>1 DEF CommitStep, UpsertHost, Commit, CommitWork
  <2> QED
    BY <2>1, CentralMergeAssumption DEF TransactionInv
<1>2. CASE DropStep
  BY <1>2, CentralMergeAssumption DEF DropStep, TransactionInv
<1>3. ASSUME NEW w \in Workers, NEW e \in Edges, MergeRow(w, e)
      PROVE  TransactionInv'
  <2>1. PICK h \in Hosts, rows \in Rows, todo \in SUBSET Edges :
          h = task[w].host /\ rows = task[w].rows /\ todo = task[w].todo
    BY <1>3, MergeFacts DEF WorkOK
  <2>2. writer' = w /\ w # Nobody /\ central' = central /\ pc[w] = "rows"
    BY <1>3, MergeFacts, CentralMergeAssumption DEF MergeRow
  <2>3. Merging(h, rows, todo)
    <3>1. CASE writer = Nobody
      <4>1. Present(rows) \ todo = {}
        BY <2>1, <2>2, <3>1 DEF TaskInv, Through
      <4> QED
        BY <3>1, <4>1 DEF TransactionInv, Merging, Same
    <3>2. CASE writer = w
      BY <2>1, <2>2, <3>2 DEF TransactionInv
    <3> QED
      BY <1>3, <3>1, <3>2 DEF MergeRow, MayWrite
  <2>4. /\ e \in todo /\ task'[w].host = h /\ task'[w].rows = rows
        /\ task'[w].todo = todo \ {e}
    BY <1>3, <2>1 DEF MergeRow, WorkOK
  <2>5. e \in Present(rows) /\ todo \subseteq Present(rows)
    BY <2>1, <2>2, <2>4 DEF TaskInv
  <2>6. OneMore(h, e, rows[e])'
    <3>1. Same(h, e)
      BY <2>3, <2>4 DEF Merging
    <3>2. /\ working'.rows[h][e] = MergedRow(working.rows[h][e], rows[e])
          /\ working'.merged[h][e] = working.merged[h][e] \cup {rows[e]}
          /\ working.rows[h][e] \in Versions \cup {NoRow} /\ rows[e] \in Versions
      BY <1>3, <2>1, MergeFacts
    <3>3. working'.rows[h][e] # NoRow /\ working'.rows[h][e].bytes = rows[e].bytes
      BY <3>2, MergedBytes
    <3> QED
      BY <2>2, <3>1, <3>2, <3>3 DEF OneMore, Same
  <2>7. ASSUME NEW g \in Hosts, NEW d \in Edges, ~ (g = h /\ d = e)
        PROVE  /\ Same(g, d) => Same(g, d)'
               /\ \A x : OneMore(g, d, x) => OneMore(g, d, x)'
    <3>1. /\ working'.rows[g][d] = working.rows[g][d]
          /\ working'.merged[g][d] = working.merged[g][d]
      BY <1>3, <2>1, <2>7, MergeFacts
    <3> QED
      BY <2>2, <3>1 DEF Same, OneMore
  <2>8. PICK rest \in SUBSET Edges : rest = todo \ {e}
    OBVIOUS
  <2>9. Merging(h, rows, rest)'
    <3>1. ASSUME NEW g \in Hosts, NEW d \in Edges
          PROVE  Same(g, d)' \/ (g = h /\ d \in Present(rows) \ rest)
      BY <2>3, <2>5, <2>7, <2>8 DEF Merging
    <3>2. ASSUME NEW d \in Present(rows) \ rest PROVE OneMore(h, d, rows[d])'
      <4>1. CASE d = e
        BY <2>6, <4>1
      <4>2. CASE d # e
        <5>1. d \in Edges /\ d \in Present(rows) \ todo
          BY <2>8, <4>2 DEF Present
        <5>2. OneMore(h, d, rows[d])
          BY <2>3, <5>1 DEF Merging
        <5> QED
          BY <2>7, <4>2, <5>1, <5>2
      <4> QED
        BY <4>1, <4>2
    <3> QED
      BY <3>1, <3>2 DEF Merging
  <2>10. Changed(h)'
    <3>1. \A d \in Present(rows) : d \in Edges /\ rows[d] \in Versions
      BY DEF Present, Rows
    <3> QED
      BY <2>9, <3>1 DEF Merging, Changed
  <2> QED
    BY <2>1, <2>2, <2>4, <2>8, <2>9, <2>10 DEF TransactionInv
<1>4. CASE UNCHANGED database /\ ~ \E w \in Workers, e \in Edges : MergeRow(w, e)
  <2>1. central' = central /\ working' = working /\ writer' = writer
    BY <1>4 DEF database
  <2>2. /\ \A h : Changed(h) => Changed(h)'
        /\ \A h, rows, todo : Merging(h, rows, todo) => Merging(h, rows, todo)'
    BY <2>1 DEF Changed, Merging, Same, OneMore
  <2>3. ASSUME NEW w \in Workers, writer' = w, pc'[w] = "rows"
        PROVE  Merging(task[w].host, task[w].rows, task[w].todo)'
    <3>1. WorkStep(w)
      BY WorkSteps
    <3>2. ~ UpsertHost(w)
      BY <2>1, <2>3, CentralMergeAssumption DEF UpsertHost, CommitWork
    <3>3. pc[w] = "rows" /\ task'[w] = task[w]
      BY <1>4, <2>3, <3>1, <3>2 DEF WorkStep, Begins, EnterIngest, Goto, Commit, Done, Ends, WorkOK
    <3>4. PICK h, rows, todo : h = task[w].host /\ rows = task[w].rows /\ todo = task[w].todo
      OBVIOUS
    <3>5. Merging(h, rows, todo)'
      BY <2>1, <2>2, <2>3, <3>3, <3>4 DEF TransactionInv
    <3> QED
      BY <3>3, <3>4, <3>5
  <2> QED
    BY <2>1, <2>2, <2>3 DEF TransactionInv
<1> QED
  BY <1>1, <1>2, <1>3, <1>4 DEF DatabaseStep

------------------------------------------------------------------------------
(* The importers.                                                           *)

(* What TaskInv says of one worker.                                         *)
WorkerInv(w) ==
  /\ pc[w] = "idle" => task[w] = NoTask
  /\ pc[w] # "idle" => task[w].host \in Hosts
  /\ pc[w] \in {"received", "ok"} => task[w].from = "push"
  /\ pc[w] \in {"received", "open"} =>
       /\ task[w].todo = Present(task[w].rows)
       /\ task[w].from = "push" => writer # w
  /\ pc[w] \in {"open", "rows"} /\ task[w].from = "push" => lock = w
  /\ pc[w] = "rows" =>
       /\ task[w].todo \subseteq Present(task[w].rows)
       /\ Through(w) # {} => writer = w
       /\ \A e \in Through(w) : task[w].rows[e] \in working.merged[task[w].host][e]

LEMMA StillStep ==
  ASSUME IInv, [Next]_vars, DatabaseStep,
         NEW w \in Workers, pc'[w] = pc[w], task'[w] = task[w], LockStep(w),
         ~ \E e \in Edges : MergeRow(w, e)
  PROVE  WorkerInv(w)'
<1> USE TypeParts DEF IInv
<1>1. WorkerInv(w)
  BY DEF TaskInv, WorkerInv
<1>2. writer' = w => writer = w
  BY CentralMergeAssumption
     DEF DatabaseStep, database, MergeRow, CommitStep, UpsertHost, Commit, CommitWork, DropStep
<1>3. pc[w] \in {"open", "rows"} /\ task[w].from = "push" => lock' = w
  BY <1>1 DEF WorkerInv, LockStep
<1>4. ASSUME pc[w] = "rows", Through(w) # {}
      PROVE  writer' = w /\ working' = working
  <2>1. writer = w
    BY <1>1, <1>4 DEF WorkerInv
  <2>2. ~ DropStep
    BY <1>4, <2>1 DEF DropStep
  <2>3. ~ CommitStep
    <3>1. ASSUME NEW v \in Workers, UpsertHost(v) \/ Commit(v) PROVE FALSE
      <4>1. v = w
        BY <2>1, <3>1, CentralMergeAssumption DEF UpsertHost, Commit, MayWrite
      <4>2. pc'[w] # pc[w]
        BY <3>1, <4>1 DEF UpsertHost, Commit, Done, Goto, WorkOK
      <4> QED
        BY <4>2
    <3> QED
      BY <3>1 DEF CommitStep
  <2>4. ASSUME NEW v \in Workers, NEW e \in Edges, MergeRow(v, e) PROVE FALSE
    BY <2>1, <2>4, CentralMergeAssumption DEF MergeRow, MayWrite
  <2> QED
    BY <2>1, <2>2, <2>3, <2>4 DEF DatabaseStep, database
<1>5. Through(w)' = Through(w)
  BY DEF Through
<1> QED
  BY <1>1, <1>2, <1>3, <1>4, <1>5 DEF WorkerInv

LEMMA TaskStep ==
  ASSUME IInv, [Next]_vars, DatabaseStep
  PROVE  TaskInv'
<1> USE TypeParts DEF IInv
<1>1. SUFFICES ASSUME NEW w \in Workers PROVE WorkerInv(w)'
  BY DEF TaskInv, WorkerInv
<1>2. WorkerInv(w) /\ WorkStep(w) /\ LockStep(w)
  BY WorkSteps DEF TaskInv, WorkerInv
<1>3. CASE Begins(w) /\ UNCHANGED <<database, lock>>
  <2>1. PICK h \in Hosts, rows \in Rows, from \in {"push", "file", "database"} :
          Take(w, from, h, rows) /\ (from = "push" => writer # w /\ pc'[w] = "received")
                                 /\ (from # "push" => pc'[w] = "open")
    BY <1>3 DEF Begins, WorkOK
  <2>2. task'[w] = [from |-> from, host |-> h, rows |-> rows, todo |-> Present(rows)]
    BY <2>1 DEF Take, WorkOK
  <2> QED
    BY <1>3, <2>1, <2>2 DEF WorkerInv, database
<1>4. CASE EnterIngest(w)
  BY <1>2, <1>4 DEF EnterIngest, Goto, WorkerInv, WorkOK, database
<1>5. CASE UpsertHost(w)
  <2>1. pc[w] = "open" /\ pc'[w] = "rows" /\ task' = task /\ lock' = lock
    BY <1>5 DEF UpsertHost, Goto, WorkOK
  <2>2. Through(w)' = {}
    BY <1>2, <2>1 DEF WorkerInv, Through
  <2> QED
    BY <1>2, <2>1, <2>2 DEF WorkerInv
<1>6. ASSUME NEW e \in Edges, MergeRow(w, e) PROVE WorkerInv(w)'
  <2>1. PICK h \in Hosts, rows \in Rows, todo \in SUBSET Edges :
          h = task[w].host /\ rows = task[w].rows /\ todo = task[w].todo
    BY <1>6, MergeFacts DEF WorkOK
  <2>2. /\ task'[w].from = task[w].from /\ task'[w].host = h /\ task'[w].rows = rows
        /\ task'[w].todo = todo \ {e}
    BY <1>6, <2>1 DEF MergeRow, WorkOK
  <2>3. pc[w] = "rows" /\ pc' = pc /\ lock' = lock /\ writer' = w /\ e \in todo
    BY <1>6, <2>1 DEF MergeRow
  <2>4. todo \subseteq Present(rows)
    BY <1>2, <2>1, <2>3 DEF WorkerInv
  <2>5. /\ working'.merged[h][e] = working.merged[h][e] \cup {rows[e]}
        /\ \A d \in Edges : d # e => working'.merged[h][d] = working.merged[h][d]
    BY <1>6, <2>1, MergeFacts
  <2>6. \A d \in Present(rows) \ todo : rows[d] \in working.merged[h][d]
    BY <1>2, <2>1, <2>3 DEF WorkerInv, Through
  <2>7. \A d \in Present(rows) \ (todo \ {e}) : rows[d] \in working'.merged[h][d]
    BY <2>5, <2>6 DEF Present
  <2> QED
    BY <1>2, <2>1, <2>2, <2>3, <2>4, <2>7 DEF WorkerInv, Through
<1>7. CASE Commit(w)
  BY <1>2, <1>7 DEF Commit, Done, Goto, WorkerInv, WorkOK
<1>8. CASE Ends(w)
  BY <1>8 DEF Ends, WorkerInv
<1>9. CASE pc'[w] = pc[w] /\ task'[w] = task[w]
  BY <1>2, <1>6, <1>9, StillStep
<1> QED
  BY <1>2, <1>3, <1>4, <1>5, <1>6, <1>7, <1>8, <1>9 DEF WorkStep

LEMMA AnsweredStep ==
  ASSUME IInv, [Next]_vars, DatabaseStep
  PROVE  AnsweredMeansMerged'
<1> USE TypeParts DEF IInv
<1>1. SUFFICES ASSUME NEW w \in Workers, pc'[w] = "ok", NEW e \in Present(task'[w].rows)
               PROVE  task'[w].rows[e] \in central'.merged[task'[w].host][e]
  BY DEF AnsweredMeansMerged
<1>2. WorkStep(w)
  BY WorkSteps
<1>3. CASE pc'[w] = pc[w] /\ task'[w] = task[w]
  <2>1. task[w].host \in Hosts /\ e \in Edges
    BY <1>1, <1>3 DEF TaskInv, Present
  <2>2. task[w].rows[e] \in central.merged[task[w].host][e]
    BY <1>1, <1>3 DEF AnsweredMeansMerged
  <2> QED
    BY <1>3, <2>1, <2>2, Grows
<1>4. CASE Commit(w)
  <2>1. central' = working /\ task[w].todo = {} /\ pc[w] = "rows"
    BY <1>4 DEF Commit, CommitWork
  <2>2. task' = task
    BY <1>1, <1>4 DEF Commit, Done, Goto, WorkOK
  <2> QED
    BY <1>1, <2>1, <2>2 DEF TaskInv, Through
<1> QED
  BY <1>1, <1>2, <1>3, <1>4
     DEF WorkStep, Begins, EnterIngest, UpsertHost, MergeRow, Goto, Ends, WorkOK

------------------------------------------------------------------------------
(* The invariant.                                                           *)

LEMMA Start == Init => IInv
<1> SUFFICES ASSUME Init PROVE IInv
  OBVIOUS
<1> USE DEF Init
<1>1. HostsOK /\ LocalInv
  BY CentralMergeAssumption DEF HostsOK, LocalInv, NoRows, NoFile, Rows
<1>2. DatabaseOK
  BY DEF DatabaseOK, Flows, Rows, NoRows
<1>3. WorkOK
  BY CentralMergeAssumption, JobFacts DEF WorkOK, Job
<1>4. TableInv(central) /\ TableInv(working)
  BY DEF TableInv, Tells, NoRows
<1>5. TransactionInv /\ TaskInv /\ AnsweredMeansMerged
  BY DEF TransactionInv, TaskInv, AnsweredMeansMerged
<1> QED
  BY <1>1, <1>2, <1>3, <1>4, <1>5, TypeParts DEF IInv

LEMMA Step == IInv /\ [Next]_vars => IInv'
<1> SUFFICES ASSUME IInv, [Next]_vars PROVE IInv'
  OBVIOUS
<1>1. HostsOK /\ DatabaseOK /\ WorkOK
  BY TypeParts DEF IInv
<1>2. HostStep /\ DatabaseStep
  BY <1>1, Steps
<1>3. HostsOK' /\ LocalInv'
  BY <1>1, <1>2, HostsType DEF IInv
<1>4. DatabaseOK'
  BY <1>1, <1>2, DatabaseType DEF IInv
<1>5. WorkOK'
  BY <1>1, WorkType
<1>6. TypeOK'
  BY <1>3, <1>4, <1>5 DEF TypeOK, HostsOK, DatabaseOK, WorkOK
<1>7. TableInv(central') /\ TableInv(working')
  BY <1>1, <1>2, TableStep DEF IInv
<1>8. TransactionInv' /\ TaskInv' /\ AnsweredMeansMerged'
  BY <1>2, TransactionStep, TaskStep, AnsweredStep
<1> QED
  BY <1>3, <1>6, <1>7, <1>8 DEF IInv, TableInv

LEMMA Invariant == Spec => []IInv
BY Start, Step, PTL DEF Spec

(* TypeOK for any hosts, edges, importers and bounds.                       *)
THEOREM TypeCorrect == Spec => []TypeOK
<1>1. IInv => TypeOK
  BY DEF IInv
<1> QED
  BY <1>1, Invariant, PTL

(* The server says 200 only when every row of the body is committed.        *)
THEOREM AnswersHonest == Spec => []AnsweredMeansMerged
<1>1. IInv => AnsweredMeansMerged
  BY DEF IInv
<1> QED
  BY <1>1, Invariant, PTL

(* While a thread of the server imports, the flows change by its whole body *)
(* or not at all: what another importer had open is not committed under it, *)
(* and its own upsert_host finds nothing to commit.                         *)
THEOREM PushAtomic == Spec => PushesAreAtomic
<1> DEFINE Whole(w) == \A e \in Present(task[w].rows) :
                         task[w].rows[e] \in central'.merged[task[w].host][e]
<1>1. ASSUME IInv, [Next]_vars, NEW w \in Threads, lock = w, MayWrite(w), central' # central
      PROVE  Whole(w)
  <2> USE <1>1 DEF IInv
  <2>1. HostsOK /\ DatabaseOK /\ WorkOK /\ w \in Workers /\ task[w].from = "push"
    BY TypeParts DEF Threads
  <2>2. DatabaseStep
    BY <2>1, Steps
  <2>3. PICK v \in Workers : UpsertHost(v) \/ Commit(v)
    BY <2>2 DEF DatabaseStep, database, MergeRow, DropStep, CommitStep
  <2>4. central' = working /\ writer = v
    BY <2>3, CentralMergeAssumption DEF UpsertHost, Commit, CommitWork, MayWrite, TransactionInv
  <2>5. v = w
    BY <2>1, <2>4, CentralMergeAssumption DEF MayWrite
  <2>6. Commit(w)
    BY <2>1, <2>3, <2>4, <2>5 DEF UpsertHost, TaskInv
  <2>7. pc[w] = "rows" /\ task[w].todo = {}
    BY <2>6 DEF Commit
  <2> QED
    BY <2>1, <2>4, <2>7 DEF TaskInv, Through
<1>2. IInv /\ [Next]_vars =>
        [\A w \in Threads : lock = w /\ MayWrite(w) /\ central' # central => Whole(w)]_vars
  BY <1>1
<1> QED
  BY <1>2, Invariant, PTL DEF Spec, PushesAreAtomic

------------------------------------------------------------------------------
(* Refinement.                                                              *)

LEMMA RowOfView ==
  ASSUME NEW row \in Versions, NEW versions \in SUBSET Versions, Tells(row, versions)
  PROVE  row = [bytes      |-> row.bytes,
                first_seen |-> View!Earliest(versions),
                last_seen  |-> View!Latest(versions)]
<1>1. row # NoRow
  BY NoRowAssumption
<1>2. \A v \in Versions : v.first_seen \in Nat /\ v.last_seen \in Nat
  BY CentralMergeAssumption DEF Versions
<1>3. View!Earliest(versions) = row.first_seen
  <2> DEFINE S == {v.first_seen : v \in versions}
  <2>1. row.first_seen \in S /\ \A x \in S : x \in Nat /\ row.first_seen <= x
    BY <1>1, <1>2 DEF Tells
  <2>2. \A x \in S : (\A y \in S : x <= y) => x = row.first_seen
    BY <1>2, <2>1
  <2> QED
    BY <2>1, <2>2 DEF View!Earliest, View!Min
<1>4. View!Latest(versions) = row.last_seen
  <2> DEFINE S == {v.last_seen : v \in versions}
  <2>1. row.last_seen \in S /\ \A x \in S : x \in Nat /\ row.last_seen >= x
    BY <1>1, <1>2 DEF Tells
  <2>2. \A x \in S : (\A y \in S : x >= y) => x = row.last_seen
    BY <1>2, <2>1
  <2> QED
    BY <2>1, <2>2 DEF View!Latest, View!Max
<1> QED
  BY <1>3, <1>4 DEF Versions

(* What a transaction commits is a Merge of CentralView, of the rows it     *)
(* merged.                                                                  *)
LEMMA CommitMerges ==
  ASSUME IInv, central' = working,
         NEW h \in Hosts, NEW some \in SUBSET Edges, NEW rows \in [some -> Versions],
         \A e \in some : OneMore(h, e, rows[e]),
         \A g \in Hosts, e \in Edges : g # h \/ e \notin some => Same(g, e)
  PROVE  View!Merge(h, rows)
<1> USE TypeParts DEF IInv
<1>2. central \in Flows /\ working \in Flows
  BY DEF DatabaseOK
<1>3. \A e \in some : rows[e] \in Versions /\ OneMore(h, e, rows[e])
  OBVIOUS
<1>4. DOMAIN rows = some
  OBVIOUS
<1>5. \A g \in Hosts, e \in Edges : g # h => Same(g, e)
  OBVIOUS
<1>6. \A e \in Edges : e \notin some => Same(h, e)
  OBVIOUS
<1>7. central.merged' = [central.merged EXCEPT ![h] =
        [e \in Edges |-> IF e \in DOMAIN rows THEN @[e] \cup {rows[e]} ELSE @[e]]]
  <2> DEFINE new == [e \in Edges |-> IF e \in some THEN central.merged[h][e] \cup {rows[e]}
                                     ELSE central.merged[h][e]]
  <2>1. \A e \in Edges : working.merged[h][e] = new[e]
    BY <1>3, <1>6 DEF OneMore, Same
  <2>2. working.merged[h] = new
    BY <1>2, <2>1 DEF Flows
  <2>3. ASSUME NEW g \in Hosts, g # h PROVE working.merged[g] = central.merged[g]
    <3>1. \A e \in Edges : working.merged[g][e] = central.merged[g][e]
      BY <1>5, <2>3 DEF Same
    <3> QED
      BY <1>2, <3>1 DEF Flows
  <2>4. working.merged = [central.merged EXCEPT ![h] = new]
    BY <1>2, <2>2, <2>3 DEF Flows
  <2> QED
    BY <1>4, <2>4
<1>8. \A e \in some : working.rows[h][e] =
        [bytes      |-> rows[e].bytes,
         first_seen |-> View!Earliest(working.merged[h][e]),
         last_seen  |-> View!Latest(working.merged[h][e])]
  <2> SUFFICES ASSUME NEW e \in some
               PROVE  working.rows[h][e] = [bytes      |-> rows[e].bytes,
                                            first_seen |-> View!Earliest(working.merged[h][e]),
                                            last_seen  |-> View!Latest(working.merged[h][e])]
    OBVIOUS
  <2>1. e \in Edges /\ OneMore(h, e, rows[e])
    BY <1>3, <1>4
  <2>2. working.rows[h][e] \in Versions /\ working.merged[h][e] \in SUBSET Versions
    BY <1>2, <2>1 DEF Flows, Rows, OneMore
  <2>3. Tells(working.rows[h][e], working.merged[h][e])
    BY <2>1 DEF TableInv
  <2>4. working.rows[h][e].bytes = rows[e].bytes
    BY <2>1 DEF OneMore
  <2> QED
    BY <2>2, <2>3, <2>4, RowOfView
<1>9. central.rows' = [central.rows EXCEPT ![h] =
        [e \in Edges |->
           IF e \in DOMAIN rows
           THEN [bytes      |-> rows[e].bytes,
                 first_seen |-> View!Earliest(central.merged'[h][e]),
                 last_seen  |-> View!Latest(central.merged'[h][e])]
           ELSE @[e]]]
  <2> DEFINE new == [e \in Edges |->
                       IF e \in some
                       THEN [bytes      |-> rows[e].bytes,
                             first_seen |-> View!Earliest(working.merged[h][e]),
                             last_seen  |-> View!Latest(working.merged[h][e])]
                       ELSE central.rows[h][e]]
  <2>1. \A e \in Edges : working.rows[h][e] = new[e]
    BY <1>6, <1>8 DEF Same
  <2>2. working.rows[h] = new
    <3>1. working.rows[h] = [e \in Edges |-> working.rows[h][e]]
      BY <1>2 DEF Flows, Rows
    <3> HIDE DEF new
    <3>2. new = [e \in Edges |-> new[e]]
      BY DEF new
    <3> QED
      BY <2>1, <3>1, <3>2
  <2>3. ASSUME NEW g \in Hosts, g # h PROVE working.rows[g] = central.rows[g]
    <3>1. \A e \in Edges : working.rows[g][e] = central.rows[g][e]
      BY <1>5, <2>3 DEF Same
    <3> QED
      BY <1>2, <3>1 DEF Flows, Rows
  <2>4. working.rows = [central.rows EXCEPT ![h] = new]
    <3> HIDE DEF new
    <3> QED
      BY <1>2, <2>2, <2>3 DEF Flows
  <2> QED
    BY <1>4, <2>4
<1> QED
  BY <1>7, <1>9 DEF View!Merge

(* import_dict's commit is that of the body in hand.                        *)
LEMMA WholeCommit ==
  ASSUME IInv, NEW w \in Workers, Commit(w), writer = w
  PROVE  View!MergeWhole
<1> USE TypeParts DEF IInv
<1>1. central' = working /\ pc[w] = "rows" /\ task[w].todo = {}
  BY DEF Commit, CommitWork
<1>2. PICK h \in Hosts, body \in Rows : h = task[w].host /\ body = task[w].rows
  BY <1>1 DEF TaskInv, WorkOK
<1>3. Merging(h, body, {})
  BY <1>1, <1>2 DEF TransactionInv
<1> DEFINE some == Present(body)
           rows == [e \in some |-> body[e]]
<1>4. some \in SUBSET Edges /\ rows \in [some -> Versions]
  BY DEF Present, Rows
<1>5. /\ \A e \in some : OneMore(h, e, rows[e])
      /\ \A g \in Hosts, e \in Edges : g # h \/ e \notin some => Same(g, e)
  BY <1>3 DEF Merging
<1>6. [host |-> h, rows |-> rows] \in Bodies
  BY <1>1, <1>2 DEF Bodies
<1> HIDE DEF some, rows
<1>7. View!Merge(h, rows)
  BY <1>1, <1>4, <1>5, CommitMerges
<1> QED
  BY <1>6, <1>7 DEF View!MergeWhole

(* upsert_host's commit finds something only after a failed database.       *)
LEMMA TornCommit ==
  ASSUME IInv, NEW w \in Workers, UpsertHost(w), writer = w
  PROVE  View!MergeTorn
<1> USE TypeParts DEF IInv
<1>1. central' = working /\ pc[w] = "open" /\ w # Nobody
  BY CentralMergeAssumption DEF UpsertHost, CommitWork
<1>2. PICK h \in Hosts : Changed(h)
  BY <1>1 DEF TransactionInv
<1> DEFINE some == {e \in Edges : ~ Same(h, e)}
           rows == [e \in some |-> CHOOSE v \in Versions : OneMore(h, e, v)]
<1>3. \A e \in some : rows[e] \in Versions /\ OneMore(h, e, rows[e])
  BY <1>2 DEF Changed
<1>4. some \in SUBSET Edges /\ rows \in [some -> Versions]
  BY <1>3
<1>5. \A g \in Hosts, e \in Edges : g # h \/ e \notin some => Same(g, e)
  BY <1>2 DEF Changed
<1>6. TornBody
  BY <1>1 DEF TornBody
<1> HIDE DEF some, rows
<1>7. View!Merge(h, rows)
  BY <1>1, <1>3, <1>4, <1>5, CommitMerges
<1> QED
  BY <1>4, <1>6, <1>7 DEF View!MergeTorn

(* Whatever arrives in whatever order and whatever fails on the way, the    *)
(* central flows change as CentralView says: by whole snapshots, but for    *)
(* what a failed database of aggregate_databases left behind.               *)
THEOREM Refines == Spec => MergesLikeView
<1>1. Init => View!Init
  BY DEF Init, View!Init, NoRows
<1>2. IInv /\ [Next]_vars
        => [View!MergeWhole \/ View!MergeTorn]_<<central.rows, central.merged>>
  <2> SUFFICES ASSUME IInv, [Next]_vars, central' # central
               PROVE  View!MergeWhole \/ View!MergeTorn
    OBVIOUS
  <2>1. DatabaseStep
    BY Steps, TypeParts DEF IInv
  <2>2. PICK w \in Workers : UpsertHost(w) \/ Commit(w)
    BY <2>1 DEF DatabaseStep, database, MergeRow, CommitStep, DropStep
  <2>3. central' = working /\ MayWrite(w)
    BY <2>2 DEF UpsertHost, Commit, CommitWork
  <2>4. writer = w
    BY <2>3 DEF IInv, TransactionInv, MayWrite
  <2> QED
    BY <2>2, <2>4, WholeCommit, TornCommit
<1> QED
  BY <1>1, <1>2, Invariant, PTL DEF Spec, MergesLikeView, View!Spec
==============================================================================
