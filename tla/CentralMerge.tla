---------------------------- MODULE CentralMerge -----------------------------
(***************************************************************************)
(* How the rows of the hosts reach the central database: agents push JSON  *)
(* snapshots to the ingest server (commatrix/collector_server.py,          *)
(* `commatrix push`), or an operator merges copies of snapshot files or    *)
(* whole databases (commatrix/aggregate.py).  All of them end in           *)
(* Store.import_dict.                                                      *)
(*                                                                         *)
(* A host pushes by timer or exports by timer (systemd/commatrix-export    *)
(* .service: one of the two); both can also be run by hand.  Files are     *)
(* copied to the central snapshot directory and aggregated whenever an     *)
(* operator likes, the same copy again and again.                          *)
(*                                                                         *)
(* A worker is a request being handled by a thread of the server, or the   *)
(* `aggregate` command, which is another process.  The threads share a     *)
(* lock; with the command they share only SQLite's write lock, which a     *)
(* connection takes with its first INSERT and gives up when it commits,    *)
(* rolls back or closes.  Any statement may fail: the write lock was not   *)
(* given within the busy timeout, the disk is full, a column is missing.   *)
(*                                                                         *)
(* Abstractions.  A row is its replaced counters (bytes), its minimum      *)
(* (first_seen) and its maximum (last_seen, like last_active and max_gap). *)
(* Of the host parameters only their presence is kept.                     *)
(***************************************************************************)
EXTENDS Naturals, FiniteSets

CONSTANTS
  Hosts,        \* hosts that report
  Pushers,      \* those whose timer pushes
  Edges,        \* edge keys of a host
  Workers,      \* importers at work at a time: request threads, runs of aggregate
  NoRow,        \* the edge has no row
  Nobody,       \* nobody holds the lock; there is no such host
  MaxTime,      \* bound on the sightings of a host
  MaxFaults     \* bound on the rare events: deleted rows, failed statements, deaths

ASSUME CentralMergeAssumption ==
  /\ MaxTime \in Nat /\ MaxFaults \in Nat
  /\ Nobody \notin Hosts \cup Workers
  /\ Pushers \subseteq Hosts

VARIABLES
  clock,     \* sightings of each host so far, its clock
  local,     \* the rows of each host's own database
  copy,      \* the snapshot of each host in the central snapshot directory
  params,    \* central hosts table: the hosts that have parameters
  central,   \* central flows table as committed; history: the versions merged into it
  working,   \* the same as the open transaction sees it
  writer,    \* who has SQLite's write lock, that is an open transaction
  lock,      \* the server's threading.Lock
  pc,        \* where each worker is
  task,      \* what it imports: from where, the host, its rows, those still to do
  faults     \* rare events so far

hosts    == <<clock, local, copy>>
database == <<params, central, working, writer>>
vars     == <<clock, local, copy, params, central, working, writer, lock, pc, task, faults>>

Versions == [bytes : 1..MaxTime, first_seen : 1..MaxTime, last_seen : 1..MaxTime]

ASSUME NoRowAssumption == NoRow \notin Versions

Rows     == [Edges -> Versions \cup {NoRow}]
Present(rows) == {e \in Edges : rows[e] # NoRow}

NoRows == [e \in Edges |-> NoRow]
NoTask == [from |-> Nobody, host |-> Nobody, rows |-> NoRows, todo |-> {}]
NoFile == [state |-> "absent", rows |-> NoRows]

Flows == [rows : [Hosts -> Rows], merged : [Hosts -> [Edges -> SUBSET Versions]]]

TypeOK ==
  /\ clock \in [Hosts -> 0..MaxTime]
  /\ local \in [Hosts -> Rows]
  /\ copy \in [Hosts -> [state : {"absent", "written"}, rows : Rows]]
  /\ params \subseteq Hosts
  /\ central \in Flows /\ working \in Flows
  /\ writer \in Workers \cup {Nobody}
  /\ lock \in Workers \cup {Nobody}
  /\ pc \in [Workers -> {"idle", "received", "open", "rows", "ok"}]
  /\ task \in [Workers -> [from : {"push", "file", "database", Nobody},
                           host : Hosts \cup {Nobody}, rows : Rows, todo : SUBSET Edges]]
  /\ faults \in 0..MaxFaults

Init ==
  /\ clock = [h \in Hosts |-> 0]
  /\ local = [h \in Hosts |-> NoRows]
  /\ copy = [h \in Hosts |-> NoFile]
  /\ params = {}
  /\ central = [rows |-> local, merged |-> [h \in Hosts |-> [e \in Edges |-> {}]]]
  /\ working = central
  /\ writer = Nobody
  /\ lock = Nobody
  /\ pc = [w \in Workers |-> "idle"]
  /\ task = [w \in Workers |-> NoTask]
  /\ faults = 0

------------------------------------------------------------------------------
(* The hosts.                                                               *)

(* The collector records the edge once more, or for the first time.         *)
Recorded(row, now) ==
  IF row = NoRow
  THEN [bytes |-> 1, first_seen |-> now, last_seen |-> now]
  ELSE [bytes |-> row.bytes + 1, first_seen |-> row.first_seen, last_seen |-> now]

Observe(h, e) ==
  /\ clock[h] < MaxTime
  /\ clock' = [clock EXCEPT ![h] = @ + 1]
  /\ local' = [local EXCEPT ![h][e] = Recorded(@, clock[h] + 1)]
  /\ UNCHANGED <<copy, database, lock, pc, task, faults>>

(* Retention or the disk budget deletes the row.                            *)
Forget(h, e) ==
  /\ local[h][e] # NoRow
  /\ faults < MaxFaults
  /\ faults' = faults + 1
  /\ local' = [local EXCEPT ![h][e] = NoRow]
  /\ UNCHANGED <<clock, copy, database, lock, pc, task>>

(* export_snapshot: one SELECT reads the flows, the file is opened in place *)
(* and written; rsync, scp or ansible copies it to the central snapshot     *)
(* directory.  Of a file caught while it is rewritten, or left empty by an  *)
(* export that was killed, the copy is not JSON, and as good as none.       *)
Export(h) ==
  /\ clock[h] > 0
  /\ \/ copy' = [copy EXCEPT ![h] = [state |-> "written", rows |-> local[h]]]
     \/ copy' = [copy EXCEPT ![h] = NoFile]
  /\ UNCHANGED <<clock, local, database, lock, pc, task, faults>>

------------------------------------------------------------------------------
(* A worker gets something to import.                                       *)

Take(w, from, h, rows) ==
  task' = [task EXCEPT ![w] =
    [from |-> from, host |-> h, rows |-> rows, todo |-> Present(rows)]]

(* Between two databases the command may still have a transaction open.     *)
Free(w) == pc[w] = "idle" /\ writer # w

Goto(w, step) == pc' = [pc EXCEPT ![w] = step]

(* do_POST read a well-formed body of `commatrix push`.  Requests it turns  *)
(* down (path, token, length, JSON) touch nothing.                          *)
Push(w, h) ==
  /\ Free(w)
  /\ clock[h] > 0
  /\ Take(w, "push", h, local[h])
  /\ Goto(w, "received")
  /\ UNCHANGED <<hosts, database, lock, faults>>

(* `with lock:`, then a store of the handler's own.                         *)
EnterIngest(w) ==
  /\ pc[w] = "received"
  /\ lock = Nobody
  /\ lock' = w
  /\ Goto(w, "open")
  /\ UNCHANGED <<hosts, database, task, faults>>

(* aggregate_snapshots: the copy there is, of whatever age and merged       *)
(* before or not; one that is not JSON is logged and passed over.           *)
PullFile(w, h) ==
  /\ Free(w)
  /\ copy[h].state = "written"
  /\ Take(w, "file", h, copy[h].rows)
  /\ Goto(w, "open")
  /\ UNCHANGED <<hosts, database, lock, faults>>

(* aggregate_databases: the next database, read directly.                   *)
PullDatabase(w, h) ==
  /\ pc[w] = "idle"
  /\ clock[h] > 0
  /\ Take(w, "database", h, local[h])
  /\ Goto(w, "open")
  /\ UNCHANGED <<hosts, database, lock, faults>>

------------------------------------------------------------------------------
(* Store.import_dict.                                                       *)

MayWrite(w) == writer \in {Nobody, w}

CommitWork ==
  /\ central' = working
  /\ writer' = Nobody
  /\ UNCHANGED working

DropWork(w) ==
  /\ working' = IF writer = w THEN central ELSE working
  /\ writer' = IF writer = w THEN Nobody ELSE writer
  /\ UNCHANGED <<params, central>>

(* upsert_host commits, so the host's parameters are in before its flows,   *)
(* and with them whatever the transaction still held.                       *)
UpsertHost(w) ==
  /\ pc[w] = "open"
  /\ MayWrite(w)
  /\ params' = params \cup {task[w].host}
  /\ CommitWork
  /\ Goto(w, "rows")
  /\ UNCHANGED <<hosts, lock, task, faults>>

Least(a, b)    == IF a < b THEN a ELSE b
Greatest(a, b) == IF a > b THEN a ELSE b

(* Mutants: MAX for the counters as well; the counters there are, are kept  *)
(* (DO NOTHING on a conflict); a missing column makes the minimum NULL.     *)
GreatestBytes(old, new) ==
  IF old = NoRow THEN new
  ELSE [bytes      |-> IF old.bytes > new.bytes THEN old.bytes ELSE new.bytes,
        first_seen |-> Least(old.first_seen, new.first_seen),
        last_seen  |-> Greatest(old.last_seen, new.last_seen)]
KeptBytes(old, new) == IF old = NoRow THEN new ELSE old
NullFirstSeen(old, new) == [new EXCEPT !.first_seen = NoRow]

MergedRow(old, new) ==
  IF old = NoRow THEN new
  ELSE [bytes      |-> new.bytes,
        first_seen |-> Least(old.first_seen, new.first_seen),
        last_seen  |-> Greatest(old.last_seen, new.last_seen)]

WithRow(flows, h, e, version) ==
  [rows   |-> [flows.rows EXCEPT ![h][e] = MergedRow(@, version)],
   merged |-> [flows.merged EXCEPT ![h][e] = @ \cup {version}]]

(* Mutant: every row is committed as it is written.                         *)
CommitRow(w, e) ==
  /\ pc[w] = "rows"
  /\ MayWrite(w)
  /\ e \in task[w].todo
  /\ working' = WithRow(working, task[w].host, e, task[w].rows[e])
  /\ central' = working'
  /\ writer' = Nobody
  /\ task' = [task EXCEPT ![w].todo = @ \ {e}]
  /\ UNCHANGED <<hosts, params, lock, pc, faults>>

MergeRow(w, e) ==
  /\ pc[w] = "rows"
  /\ MayWrite(w)
  /\ e \in task[w].todo
  /\ working' = WithRow(working, task[w].host, e, task[w].rows[e])
  /\ writer' = w
  /\ task' = [task EXCEPT ![w].todo = @ \ {e}]
  /\ UNCHANGED <<hosts, params, central, lock, pc, faults>>

(* The store is closed and the lock released; the answer is not out yet.    *)
Release(w) == lock' = IF lock = w THEN Nobody ELSE lock

(* The request is answered, or the command goes on to its next snapshot.    *)
Done(w) ==
  /\ Goto(w, "idle")
  /\ task' = [task EXCEPT ![w] = NoTask]

(* Mutant: done, rows or no rows.                                           *)
CommitEarly(w) ==
  /\ pc[w] = "rows"
  /\ MayWrite(w)
  /\ CommitWork
  /\ Release(w)
  /\ IF task[w].from = "push" THEN Goto(w, "ok") /\ UNCHANGED task ELSE Done(w)
  /\ UNCHANGED <<hosts, params, faults>>

Commit(w) ==
  /\ pc[w] = "rows"
  /\ MayWrite(w)
  /\ task[w].todo = {}
  /\ CommitWork
  /\ Release(w)
  /\ IF task[w].from = "push" THEN Goto(w, "ok") /\ UNCHANGED task ELSE Done(w)
  /\ UNCHANGED <<hosts, params, faults>>

(* Mutant: the lock is released after the import, but not in a `finally`.   *)
FailedWithLock(w) ==
  /\ IF task[w].from = "database" THEN UNCHANGED database ELSE DropWork(w)
  /\ UNCHANGED lock
  /\ Done(w)

(* The exception closes the handler's store, or that of the command         *)
(* merging files, and rolls back; aggregate_databases logs it and keeps the *)
(* connection, with its transaction.                                        *)
Failed(w) ==
  /\ IF task[w].from = "database" THEN UNCHANGED database ELSE DropWork(w)
  /\ Release(w)
  /\ Done(w)

Importing(w) == pc[w] \in {"open", "rows"}

(* The busy timeout runs out.                                               *)
Busy(w) ==
  /\ Importing(w)
  /\ ~ MayWrite(w)
  /\ Failed(w)
  /\ UNCHANGED <<hosts, faults>>

Fault(w) ==
  /\ Importing(w)
  /\ faults < MaxFaults
  /\ faults' = faults + 1
  /\ Failed(w)
  /\ UNCHANGED hosts

Answer(w) ==
  /\ pc[w] = "ok"
  /\ Done(w)
  /\ UNCHANGED <<hosts, database, lock, faults>>

(* aggregate_databases is through its list and closes the central store.    *)
FinishDatabases(w) ==
  /\ pc[w] = "idle"
  /\ writer = w
  /\ DropWork(w)
  /\ UNCHANGED <<hosts, lock, pc, task, faults>>

(* The server, with all its threads, or a run of the command is killed.     *)
Die(process) ==
  /\ faults < MaxFaults
  /\ process # {}
  /\ faults' = faults + 1
  /\ lock' = IF lock \in process THEN Nobody ELSE lock
  /\ working' = IF writer \in process THEN central ELSE working
  /\ writer' = IF writer \in process THEN Nobody ELSE writer
  /\ pc' = [w \in Workers |-> IF w \in process THEN "idle" ELSE pc[w]]
  /\ task' = [w \in Workers |-> IF w \in process THEN NoTask ELSE task[w]]
  /\ UNCHANGED <<hosts, params, central>>

Threads  == {w \in Workers : task[w].from = "push"}
Commands == {w \in Workers : ~ Free(w)} \ Threads

------------------------------------------------------------------------------
Import(w) ==
  \/ UpsertHost(w)
  \/ \E e \in Edges : MergeRow(w, e)
  \/ Commit(w)
  \/ Busy(w)
  \/ Answer(w)
  \/ FinishDatabases(w)

Next ==
  \/ \E h \in Hosts : Export(h)
  \/ \E h \in Hosts, e \in Edges : Observe(h, e) \/ Forget(h, e)
  \/ \E w \in Workers, h \in Hosts : Push(w, h) \/ PullFile(w, h) \/ PullDatabase(w, h)
  \/ \E w \in Workers : EnterIngest(w) \/ Import(w) \/ Fault(w)
  \/ Die(Threads)
  \/ \E w \in Commands : Die({w})

(* Imports that began go on (the busy timeout ends every wait for SQLite), a *)
(* thread waiting for the lock gets it some time, and the timer of a pusher  *)
(* goes off again and again, some time when a worker is free (the server     *)
(* starts a thread per request; Workers bounds them).  Exports, copies and   *)
(* aggregations need not happen.                                             *)
Fairness ==
  /\ \A w \in Workers : WF_vars(Import(w))
  /\ \A w \in Workers : SF_vars(EnterIngest(w))
  /\ \A h \in Pushers : SF_vars(\E w \in Workers : Push(w, h))

Spec == Init /\ [][Next]_vars /\ Fairness

------------------------------------------------------------------------------
(* Properties.                                                              *)

(* Whatever the transport, the order of arrival, repetition, failure or     *)
(* death, the central flows change as CentralView says: by the whole body   *)
(* that an importer has in hand, to the counters of that body and the first *)
(* and last sightings of all that was merged.  Only aggregate_databases,    *)
(* after a failed database, has a torn body to commit.                      *)
Bodies ==
  {[host |-> task[w].host, rows |-> [e \in Present(task[w].rows) |-> task[w].rows[e]]] :
     w \in {v \in Workers : pc[v] = "rows"}}
TornBody == writer # Nobody /\ pc[writer] \in {"idle", "open"}

View == INSTANCE CentralView
          WITH table <- central.rows, merged <- central.merged,
               offered <- Bodies, torn <- TornBody

MergesLikeView == View!Spec

(* "Flows are replaced wholesale per (host, edge-key) with the incoming     *)
(* values" (store.py, import_dict): a central row is one of the versions    *)
(* that were merged into it.                                                *)
ReplacedWholesale ==
  \A h \in Hosts, e \in Edges :
    central.rows[h][e] = NoRow \/ central.rows[h][e] \in central.merged[h][e]

(* The server answers 200 only when every row of the body is committed.     *)
AnsweredMeansMerged ==
  \A w \in Workers : pc[w] = "ok" =>
    \A e \in Present(task[w].rows) : task[w].rows[e] \in central.merged[task[w].host][e]

(* A transaction of the server changes the flows by the whole body or not   *)
(* at all, although upsert_host commits on its own before it.               *)
PushesAreAtomic ==
  [][\A w \in Threads : lock = w /\ MayWrite(w) /\ central' # central =>
       \A e \in Present(task[w].rows) :
         task[w].rows[e] \in central'.merged[task[w].host][e]]_vars

(* A request that was read is answered, or the server dies: no failure      *)
(* leaves the lock behind, and no wait is for ever.                         *)
EveryPushAnswered ==
  \A w \in Workers : pc[w] = "received" ~> pc[w] = "idle"

(* When a host that pushes stops changing and nobody aggregates any more,   *)
(* the central counters of the edges it has become those of the host and    *)
(* stay so, whatever older copies overwrote on the way.                     *)
Current(h) ==
  \A e \in Present(local[h]) :
    central.rows[h][e] # NoRow /\ central.rows[h][e].bytes = local[h][e].bytes

OnlyPushes == \A w \in Workers : task[w].from \in {"push", Nobody}

EventuallyCurrent ==
  <>[]OnlyPushes => \A h \in Pushers : <>[]Current(h)
==============================================================================
