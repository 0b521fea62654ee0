----------------------------- MODULE EventCapture -----------------------------
(***************************************************************************)
(* Event-driven capture: the kernel's conntrack event group, the thread    *)
(* that subscribes to it (commatrix/ctnetlink.py, ConntrackEventListener)  *)
(* and the collector's loop that drains the thread's buffers into the      *)
(* database (commatrix/collector.py, run_loop).                            *)
(*                                                                         *)
(* The kernel announces a flow with its counters when it is created,       *)
(* updated and destroyed.  The socket's buffer is finite: an event that    *)
(* finds it full is lost.  The thread keeps the latest counters of every   *)
(* live flow and the final counters of those that ended since the last     *)
(* drain.  Thread and loop interleave at the granularity of the lock.      *)
(*                                                                         *)
(* Abstractions.  A datagram carries one event; a longer one is the same   *)
(* events with no other step forbidden in between.  One counter stands for *)
(* bytes and packets.  The rest of a row is in EdgeStore.                  *)
(***************************************************************************)
EXTENDS Integers, Sequences, FiniteSets, Functions, ByteEstimate

CONSTANTS
  Flows,         \* connection 5-tuples; one may be used again after its end
  Edges,         \* edge keys
  EdgeOf,        \* the edge a flow folds onto
  MaxTraffic,    \* bound on the units one edge carries
  MaxQueue,      \* events the socket buffer holds
  MaxActive,     \* 200000 in the code
  MaxDestroyed,  \* 50000 in the code
  MaxRestarts,   \* bound on restarts of the collector
  OpenMayFail,   \* the thread's own subscription may be refused
  None           \* no entry, no counter

ASSUME EventCaptureAssumption ==
  /\ IsFiniteSet(Flows)
  /\ EdgeOf \in [Flows -> Edges]
  /\ MaxTraffic \in Nat /\ MaxRestarts \in Nat
  /\ MaxQueue \in Nat \ {0} /\ MaxActive \in Nat \ {0} /\ MaxDestroyed \in Nat \ {0}
  /\ OpenMayFail \in BOOLEAN
  /\ None \notin Nat

VARIABLES
  bytes,         \* kernel: counter of every tracked flow (None: not tracked)
  queue,         \* kernel: events in the socket's buffer
  listener,      \* the thread
  active,        \* _active: latest counters by flow (None: no entry)
  destroyed,     \* _destroyed
  pc,            \* the loop: between cycles, or with drained entries in hand
  eventDriven,   \* event_listener is not None
  held,          \* edges of the drained entries that are not recorded yet
  sums,          \* their counters added up: all entries, and the ended ones
  known,         \* edges with a row
  row,           \* bytes and last_snapshot_bytes of the rows
  restarts,      \* restarts so far (bounded by MaxRestarts)
  reported,      \* history: what the kernel last announced on this socket
  blurred,       \* history: flows an event or an entry of which was thrown away since
  carried,       \* history: units an edge carried
  dropped,       \* history: those whose end was not announced or thrown away
  captured       \* history: those whose end was recorded

kernel   == <<bytes, queue>>
buffers  == <<active, destroyed>>
loop     == <<pc, held, sums>>
database == <<known, row>>
totals   == <<carried, dropped, captured>>
history  == <<restarts, reported, blurred, totals>>
vars     == <<bytes, queue, listener, active, destroyed, pc, eventDriven, held, sums, known,
              row, restarts, reported, blurred, carried, dropped, captured>>

Counter == Nat \cup {None}
Held(counters) == {f \in Flows : counters[f] # None}

Entry   == [flow : Flows, event : {"LIVE", "DESTROY"}, bytes : Nat]

TypeOK ==
  /\ bytes \in [Flows -> Counter]
  /\ queue \in Seq(Entry) /\ Len(queue) <= MaxQueue
  /\ listener \in {"starting", "receiving", "auth_failed"}
  /\ active \in [Flows -> Counter] /\ Cardinality(Held(active)) <= MaxActive
  /\ destroyed \in Seq(Entry) /\ Len(destroyed) <= MaxDestroyed
  /\ pc \in {"cycle", "record"}
  /\ eventDriven \in BOOLEAN
  /\ held \subseteq Edges
  /\ sums \in [Edges -> [all : Nat, ends : Nat]]
  /\ known \subseteq Edges
  /\ row \in [Edges -> [bytes : Nat, last_snapshot_bytes : Nat]]
  /\ restarts \in 0..MaxRestarts
  /\ reported \in [Flows -> Counter]
  /\ blurred \subseteq Flows
  /\ carried \in [Edges -> Nat] /\ dropped \in [Edges -> Nat] /\ captured \in [Edges -> Nat]

Nothing == [f \in Flows |-> None]
Zero    == [e \in Edges |-> 0]
NoSums  == [e \in Edges |-> [all |-> 0, ends |-> 0]]

(* The loop starts after the probe available() has decided between events   *)
(* and polling; flows may be open already.                                  *)
Init ==
  /\ bytes \in [Flows -> {None, 0}]
  /\ queue = <<>>
  /\ listener = "starting"
  /\ active = Nothing
  /\ destroyed = <<>>
  /\ pc = "cycle"
  /\ eventDriven \in BOOLEAN
  /\ held = {}
  /\ sums = NoSums
  /\ known = {}
  /\ row = [e \in Edges |-> [bytes |-> 0, last_snapshot_bytes |-> 0]]
  /\ restarts = 0
  /\ reported = Nothing
  /\ blurred = {}
  /\ carried = Zero
  /\ dropped = Zero
  /\ captured = Zero

------------------------------------------------------------------------------
(* Helpers.                                                                 *)

Tracked(f) == bytes[f] # None

(* The ends among some entries that fold onto edge e, and what they carried *)
(* together.                                                                *)
EndsAt(e, entries) ==
  {i \in DOMAIN entries : entries[i].event = "DESTROY" /\ EdgeOf[entries[i].flow] = e}

EndsOf(e, entries) ==
  SumFunctionOnSet([i \in DOMAIN entries |-> entries[i].bytes], EndsAt(e, entries))

(* The counters of a table's live flows added up for edge e.                *)
HeldAt(e, counters) == {f \in Held(counters) : EdgeOf[f] = e}

LiveUnits(e, counters) == SumFunctionOnSet(counters, HeldAt(e, counters))

Drop(entries) == dropped' = [e \in Edges |-> dropped[e] + EndsOf(e, entries)]

FlowsIn(entries) == {entries[i].flow : i \in DOMAIN entries}

------------------------------------------------------------------------------
(* The kernel.                                                              *)

(* An event of flow f reaches the subscriber, if there is one and its       *)
(* buffer has room.                                                         *)
Emit(f, event, count) ==
  LET entry == [flow |-> f, event |-> event, bytes |-> count]
  IN  IF listener # "receiving"
      THEN Drop(<<entry>>) /\ UNCHANGED <<queue, reported, blurred>>
      ELSE /\ reported' = [reported EXCEPT ![f] = IF event = "DESTROY" THEN None ELSE count]
           /\ IF Len(queue) < MaxQueue
              THEN /\ queue' = Append(queue, entry)
                   /\ blurred' = blurred \ {f}
                   /\ UNCHANGED dropped
              ELSE /\ blurred' = blurred \cup {f}
                   /\ Drop(<<entry>>)
                   /\ UNCHANGED queue

KernelNew(f) ==
  /\ ~Tracked(f)
  /\ bytes' = [bytes EXCEPT ![f] = 0]
  /\ Emit(f, "LIVE", 0)
  /\ UNCHANGED <<listener, buffers, loop, eventDriven, database, restarts,
                 carried, captured>>

KernelCount(f) ==
  /\ Tracked(f)
  /\ carried[EdgeOf[f]] < MaxTraffic
  /\ bytes' = [bytes EXCEPT ![f] = @ + 1]
  /\ carried' = [carried EXCEPT ![EdgeOf[f]] = @ + 1]
  /\ UNCHANGED <<queue, listener, buffers, loop, eventDriven, database, restarts, reported,
                 blurred, dropped, captured>>

KernelUpdate(f) ==
  /\ Tracked(f)
  /\ bytes[f] # reported[f]
  /\ Emit(f, "LIVE", bytes[f])
  /\ UNCHANGED <<bytes, listener, buffers, loop, eventDriven, database, restarts,
                 carried, captured>>

KernelDestroy(f) ==
  /\ Tracked(f)
  /\ bytes' = [bytes EXCEPT ![f] = None]
  /\ Emit(f, "DESTROY", bytes[f])
  /\ UNCHANGED <<listener, buffers, loop, eventDriven, database, restarts,
                 carried, captured>>

------------------------------------------------------------------------------
(* The listener thread.                                                     *)

(* run: its own subscription, after the probe's was closed again.  When it  *)
(* is refused the thread logs and returns.                                  *)
OpenSocket ==
  /\ eventDriven
  /\ listener = "starting"
  /\ \/ listener' = "receiving"
     \/ OpenMayFail /\ listener' = "auth_failed"
  /\ UNCHANGED <<kernel, buffers, loop, eventDriven, database, history>>

(* Mutants: an ended flow keeps its entry in _active; the ends pile up.     *)
RecordKeepsActive(x) ==
  /\ active' = IF x.event = "DESTROY" THEN active ELSE [active EXCEPT ![x.flow] = x.bytes]
  /\ destroyed' = IF x.event = "DESTROY" THEN <<x>> ELSE destroyed
  /\ Drop(IF x.event = "DESTROY" THEN destroyed ELSE <<>>)
  /\ UNCHANGED blurred
RecordUnbounded(x) ==
  /\ active' = [active EXCEPT ![x.flow] = IF x.event = "DESTROY" THEN None ELSE x.bytes]
  /\ destroyed' = IF x.event = "DESTROY" THEN Append(destroyed, x) ELSE destroyed
  /\ UNCHANGED <<blurred, dropped>>

(* _record: "Bound memory under a flood".  Only the newest ends are kept;   *)
(* a table of live flows that grew too large is emptied.                    *)
RecordEntry(x) ==
  IF x.event = "DESTROY"
  THEN /\ active' = [active EXCEPT ![x.flow] = None]
       /\ LET all == Append(destroyed, x)
              old == IF Len(all) > MaxDestroyed THEN Len(all) - MaxDestroyed ELSE 0
          IN  /\ destroyed' = SubSeq(all, old + 1, Len(all))
              /\ Drop(SubSeq(all, 1, old))
       /\ UNCHANGED blurred
  ELSE LET grown == [active EXCEPT ![x.flow] = x.bytes]
       IN  /\ IF Cardinality(Held(grown)) > MaxActive
              THEN /\ active' = Nothing
                   /\ blurred' = blurred \cup (Held(grown) \ FlowsIn(Tail(queue)))
              ELSE active' = grown /\ UNCHANGED blurred
           /\ UNCHANGED <<destroyed, dropped>>

Receive ==
  /\ listener = "receiving"
  /\ queue # <<>>
  /\ queue' = Tail(queue)
  /\ RecordEntry(Head(queue))
  /\ UNCHANGED <<bytes, listener, loop, eventDriven, database, restarts, reported,
                 carried, captured>>

------------------------------------------------------------------------------
(* The collector's loop.                                                    *)

(* build_edges: the counters of live flows and of ended ones added up per   *)
(* edge.                                                                    *)
Fold(counters, ended) ==
  /\ held' = {EdgeOf[f] : f \in Held(counters) \cup FlowsIn(ended)}
  /\ sums' = [e \in Edges |-> [all  |-> LiveUnits(e, counters) + EndsOf(e, ended),
                              ends |-> EndsOf(e, ended)]]

(* drain, under the lock: all of the thread's table and the ended flows.    *)
Drain == Fold(active, destroyed) /\ destroyed' = <<>>

(* Mutants: the ended flows stay in the buffer; the open ones are left out. *)
StartWithoutActive ==
  /\ pc = "cycle"
  /\ eventDriven
  /\ Fold(Nothing, destroyed)
  /\ destroyed' = <<>>
  /\ pc' = "record"
  /\ UNCHANGED <<kernel, listener, active, eventDriven, database, history>>
StartKeepingEnds ==
  /\ pc = "cycle"
  /\ eventDriven
  /\ Fold(active, destroyed)
  /\ pc' = "record"
  /\ UNCHANGED <<kernel, listener, buffers, eventDriven, database, history>>

(* A cycle that records: drain the listener, or poll when there is none.    *)
StartRecording ==
  /\ pc = "cycle"
  /\ \/ eventDriven /\ Drain
     \/ ~eventDriven /\ Fold(bytes, <<>>) /\ UNCHANGED destroyed
  /\ pc' = "record"
  /\ UNCHANGED <<kernel, listener, active, eventDriven, database, history>>

(* A cycle below the floor of free space drains, too, "so timing/CPU        *)
(* accounting is realistic", and throws the entries away.                   *)
PausedCycle ==
  /\ pc = "cycle"
  /\ eventDriven
  /\ destroyed' = <<>>
  /\ Drop(destroyed)
  /\ UNCHANGED <<kernel, listener, active, loop, eventDriven, database, restarts,
                 reported, blurred, carried, captured>>

(* record_edge for one edge of the cycle; each is its own transaction.      *)
RecordEdge(e) ==
  /\ pc = "record"
  /\ e \in held
  /\ known' = known \cup {e}
  /\ row' = [row EXCEPT ![e] =
       [bytes |-> @.bytes + Delta(@.last_snapshot_bytes, sums[e].all),
        last_snapshot_bytes |-> sums[e].all]]
  /\ captured' = [captured EXCEPT ![e] = @ + sums[e].ends]
  /\ held' = held \ {e}
  /\ sums' = [sums EXCEPT ![e] = NoSums[e]]
  /\ UNCHANGED <<kernel, listener, buffers, pc, eventDriven, restarts, reported, blurred,
                 carried, dropped>>

EndCycle ==
  /\ pc = "record"
  /\ held = {}
  /\ pc' = "cycle"
  /\ UNCHANGED <<kernel, listener, buffers, held, sums, eventDriven, database, history>>

(* The process ends, whether killed or stopped (its finally block stops the *)
(* thread and drains nothing), and is started again.                        *)
Restart ==
  /\ restarts < MaxRestarts
  /\ restarts' = restarts + 1
  /\ bytes' = bytes
  /\ queue' = <<>>
  /\ listener' = "starting"
  /\ active' = Nothing
  /\ destroyed' = <<>>
  /\ pc' = "cycle"
  /\ eventDriven' \in BOOLEAN
  /\ held' = {}
  /\ sums' = NoSums
  /\ reported' = Nothing
  /\ blurred' = {}
  /\ dropped' = [e \in Edges |-> dropped[e] + EndsOf(e, queue) + EndsOf(e, destroyed)
                                  + sums[e].ends]
  /\ UNCHANGED <<database, carried, captured>>

------------------------------------------------------------------------------
Next ==
  \/ \E f \in Flows : KernelNew(f) \/ KernelCount(f) \/ KernelUpdate(f) \/ KernelDestroy(f)
  \/ OpenSocket
  \/ Receive
  \/ StartRecording
  \/ PausedCycle
  \/ \E e \in Edges : RecordEdge(e)
  \/ EndCycle
  \/ Restart

Thread == OpenSocket \/ Receive
Loop   == StartRecording \/ EndCycle \/ \E e \in Edges : RecordEdge(e)

(* The thread and the loop keep running.  Between two cycles the loop can   *)
(* always take one that records: the disk is not below its floor for ever.  *)
Fairness == WF_vars(Thread) /\ WF_vars(Loop)

Spec     == Init /\ [][Next]_vars
FairSpec == Spec /\ Fairness

------------------------------------------------------------------------------
(* Properties.                                                              *)

(* What an entry says of its flow, and whether it is the last in the buffer *)
(* to speak of it.                                                          *)
Says(x) == IF x.event = "DESTROY" THEN None ELSE x.bytes

LastWord(i) == \A j \in DOMAIN queue : j > i => queue[j].flow # queue[i].flow

(* "Keeps the latest counters for each active flow" (the class's docstring):*)
(* as long as nothing of a flow was thrown away, what the thread will       *)
(* believe of it once it has worked off the buffer - the last word in the   *)
(* buffer, or the thread's table when the buffer has none - is exactly what *)
(* the kernel last announced: no ghost of an ended flow, no flow missing,   *)
(* no older counter on top.                                                 *)
ListenerFollows ==
  \A f \in Flows \ blurred :
    /\ f \notin FlowsIn(queue) => active[f] = reported[f]
    /\ \A i \in DOMAIN queue :
         queue[i].flow = f /\ LastWord(i) => Says(queue[i]) = reported[f]

(* Whatever an edge carried is in one place only: on a connection still     *)
(* open, as an end in the socket's buffer, in _destroyed or in the loop's   *)
(* hands, recorded, or thrown away where the code throws away.              *)
TrafficConserved ==
  \A e \in Edges :
    carried[e] = LiveUnits(e, bytes) + EndsOf(e, queue) + EndsOf(e, destroyed)
                   + sums[e].ends + captured[e] + dropped[e]

(* A flow the kernel announced is in the database sooner or later, unless   *)
(* its end was announced or its entry thrown away first.                    *)
OpenFlowsRecorded ==
  \A f \in Flows :
    reported[f] # None ~> EdgeOf[f] \in known \/ f \in blurred \/ reported[f] = None

(* "for flows destroyed since the last drain, their final counters (so      *)
(* short-lived flows are captured)": an edge counts at least what the flows *)
(* recorded after their end carried.                                        *)
EndedFlowsCounted ==
  \A e \in Edges : row[e].bytes >= captured[e]
==============================================================================
