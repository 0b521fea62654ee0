-------------------------------- MODULE RunLoop --------------------------------
(***************************************************************************)
(* The life of a collector process (commatrix/collector.py, run_loop) with *)
(* its monitor threads (ctnetlink.py, dns.py, sni.py) and the run ledger   *)
(* it keeps (store.py, runs and run_stats): start, cycles, signals,        *)
(* exceptions, the finally block, the atexit handler, kills, next runs.    *)
(*                                                                         *)
(* What the sysctl guard does in detail, writes that fail included, is     *)
(* SysctlGuard; here it owes the host a restore or not.  What a cycle      *)
(* records is EdgeStore.  The three monitor classes share one shape: a     *)
(* thread that publishes its socket in self._sock, and a stop() called by  *)
(* the loop's thread.                                                      *)
(***************************************************************************)
EXTENDS Naturals, Sequences, SequencesExt

CONSTANTS
  Monitors,    \* the enabled monitors, in the order they are started and stopped
  Retrying,    \* those that connect again after an error (DnsMonitor)
  Iterations,  \* cycles of a run
  MaxSignals,  \* bound on SIGTERM / SIGHUP / SIGINT
  MaxRuns,     \* bound on runs
  MaxTime,     \* bound on the clock
  MaxCycle,    \* a cycle, or the shutdown after it, takes no longer
  Errors,      \* the database, the capture source or the report may raise
  None         \* SQL NULL

ASSUME RunLoopAssumption ==
  /\ Monitors \in Seq(ToSet(Monitors))
  /\ Retrying \subseteq ToSet(Monitors)
  /\ Iterations \in Nat \ {0} /\ MaxSignals \in Nat /\ MaxRuns \in Nat
  /\ MaxTime \in Nat /\ MaxCycle \in Nat
  /\ Errors \in BOOLEAN
  /\ None \notin Nat

VARIABLES
  pc,          \* where the main thread is
  todo,        \* monitors the current start or stop loop has not reached
  count,       \* cycles done
  start,       \* `start` of the cycle; the time of start_run before the first
  signals,     \* signals so far (bounded by MaxSignals)
  struck,      \* history: where the run's last signal found it
  thread,      \* what each monitor thread does
  sock,        \* monitors whose self._sock is not None
  stopping,    \* monitors whose _stop event is set
  owed,        \* accounting.changed is not empty
  clock,
  runs,        \* the ledger
  lives,       \* history: when each run's process really began and ended
  cause        \* history: why the loop ended

main    == <<pc, todo, count, start>>
threads == <<thread, sock, stopping>>
struckBy == <<signals, struck>>
vars    == <<pc, todo, count, start, signals, struck, thread, sock, stopping, owed, clock,
             runs, lives, cause>>

Names == ToSet(Monitors)

InTry     == {"cycle", "capture", "heartbeat", "sleep"}
InFinally == {"stop", "stop_check", "stop_close", "report", "restore"}
Ended     == {"none", "exited", "dead"}
PCs       == {"apply", "arm", "start", "atexit"} \cup InTry \cup InFinally \cup Ended

Time == 0..MaxTime

TypeOK ==
  /\ pc \in PCs
  /\ todo \in Seq(Names)
  /\ count \in 0..Iterations
  /\ start \in Time
  /\ signals \in 0..MaxSignals
  /\ struck \in PCs
  /\ thread \in [Names -> {"off", "opening", "receiving", "waiting", "over"}]
  /\ sock \subseteq Names
  /\ stopping \subseteq Names
  /\ owed \in BOOLEAN
  /\ clock \in Time
  /\ runs \in Seq([started : Time, last_seen : Time, stopped : Time \cup {None}])
  /\ lives \in Seq([born : Time, died : Time \cup {None}])
  /\ Len(runs) = Len(lives)
  /\ cause \in {"running", "finished", "signal", "error"}

Init ==
  /\ pc = "none"
  /\ todo = <<>>
  /\ count = 0
  /\ start = 0
  /\ signals = 0
  /\ struck = "none"
  /\ thread = [m \in Names |-> "off"]
  /\ sock = {}
  /\ stopping = {}
  /\ owed = FALSE
  /\ clock = 0
  /\ runs = <<>>
  /\ lives = <<>>
  /\ cause = "running"

------------------------------------------------------------------------------
(* Helpers.                                                                 *)

GoTo(label) == pc' = label /\ UNCHANGED <<todo, count, start>>

(* The rest of a block is skipped: out of the loop's body into finally, out *)
(* of finally to the interpreter's exit.                                    *)
ToFinally(why) ==
  /\ pc' = "stop"
  /\ todo' = Monitors
  /\ cause' = why
  /\ UNCHANGED <<count, start>>

ToExit == pc' = "atexit" /\ todo' = <<>> /\ UNCHANGED <<count, start>>

(* The process is gone and its threads with it.                             *)
ProcessEnds(how) ==
  /\ pc' = how
  /\ todo' = <<>>
  /\ thread' = [m \in Names |-> "off"]
  /\ sock' = {}
  /\ stopping' = {}
  /\ lives' = [lives EXCEPT ![Len(lives)].died = clock]
  /\ UNCHANGED <<count, start>>

------------------------------------------------------------------------------
(* Setting up.                                                              *)

(* start_run; the collector is a new process, nothing of an earlier one is  *)
(* left in memory.                                                          *)
StartRun ==
  /\ pc \in Ended
  /\ Len(runs) < MaxRuns
  /\ pc' = "apply"
  /\ todo' = <<>>
  /\ count' = 0
  /\ start' = clock
  /\ owed' = FALSE
  /\ runs' = Append(runs, [started |-> clock, last_seen |-> clock, stopped |-> None])
  /\ lives' = Append(lives, [born |-> clock, died |-> None])
  /\ cause' = "running"
  /\ struck' = "none"
  /\ UNCHANGED <<signals, threads, clock>>

(* SysctlGuard.apply switches accounting on, or has nothing to do.          *)
Apply ==
  /\ pc = "apply"
  /\ owed' \in BOOLEAN
  /\ GoTo("arm")
  /\ UNCHANGED <<struckBy, threads, clock, runs, lives, cause>>

InstallHandlers ==
  /\ pc = "arm"
  /\ pc' = "start"
  /\ todo' = Monitors
  /\ UNCHANGED <<count, start, struckBy, threads, owed, clock, runs, lives, cause>>

StartMonitor ==
  /\ pc = "start"
  /\ todo # <<>>
  /\ thread' = [thread EXCEPT ![Head(todo)] = "opening"]
  /\ todo' = Tail(todo)
  /\ UNCHANGED <<pc, count, start, struckBy, sock, stopping, owed, clock, runs, lives, cause>>

------------------------------------------------------------------------------
(* The loop.                                                                *)

(* The try block is entered, or the loop comes round.                       *)
StartCycle ==
  /\ \/ pc = "start" /\ todo = <<>>
     \/ pc = "cycle"
  /\ pc' = "capture"
  /\ start' = clock
  /\ UNCHANGED <<todo, count, struckBy, threads, owed, clock, runs, lives, cause>>

(* Retention, budget, capture, recording and the monitors' events; without  *)
(* permission for the capture source the loop breaks.                       *)
Capture ==
  /\ pc = "capture"
  /\ \/ GoTo("heartbeat") /\ UNCHANGED cause
     \/ Errors /\ ToFinally("error")
  /\ UNCHANGED <<struckBy, threads, owed, clock, runs, lives>>

(* Mutant: the heartbeat forgets which run it is for.                       *)
HeartbeatAll(now) ==
  runs' = [i \in DOMAIN runs |-> [runs[i] EXCEPT !.last_seen = now]]

(* heartbeat_run.                                                           *)
HeartbeatRun(now) ==
  runs' = [runs EXCEPT ![Len(runs)].last_seen = now]

(* Mutant: one cycle too many.                                              *)
PastLastCycle == count >= Iterations

(* The break out of the loop, after count was increased.                    *)
LastCycle == count + 1 >= Iterations

Heartbeat ==
  /\ pc = "heartbeat"
  /\ \/ /\ HeartbeatRun(start)
        /\ count' = count + 1
        /\ \/ /\ ~LastCycle
              /\ pc' = "sleep"
              /\ UNCHANGED <<todo, cause>>
           \/ /\ LastCycle
              /\ pc' = "stop"
              /\ todo' = Monitors
              /\ cause' = "finished"
        /\ UNCHANGED start
     \/ Errors /\ ToFinally("error") /\ UNCHANGED runs
  /\ UNCHANGED <<struckBy, threads, owed, clock, lives>>

Sleep ==
  /\ pc = "sleep"
  /\ GoTo("cycle")
  /\ UNCHANGED <<struckBy, threads, owed, clock, runs, lives, cause>>

------------------------------------------------------------------------------
(* The finally block.                                                       *)

(* stop(): set the event, look at self._sock, close it: three steps between *)
(* which the monitor's thread may move.                                     *)
StopSet ==
  /\ pc = "stop"
  /\ todo # <<>>
  /\ stopping' = stopping \cup {Head(todo)}
  /\ GoTo("stop_check")
  /\ UNCHANGED <<struckBy, thread, sock, owed, clock, runs, lives, cause>>

NextMonitor == pc' = "stop" /\ todo' = Tail(todo) /\ UNCHANGED <<count, start>>

(* Mutant: stop() joins the thread first.                                   *)
StopJoins ==
  /\ pc = "stop_check"
  /\ thread[Head(todo)] = "over"
  /\ NextMonitor
  /\ UNCHANGED <<struckBy, threads, owed, clock, runs, lives, cause>>

StopCheck ==
  /\ pc = "stop_check"
  /\ IF Head(todo) \in sock THEN GoTo("stop_close") ELSE NextMonitor
  /\ UNCHANGED <<struckBy, threads, owed, clock, runs, lives, cause>>

(* self._sock.close(): when the thread has set self._sock to None meanwhile *)
(* this is None.close(), an AttributeError nobody catches.                  *)
StopClose ==
  /\ pc = "stop_close"
  /\ IF Head(todo) \in sock THEN NextMonitor ELSE ToExit
  /\ UNCHANGED <<struckBy, threads, owed, clock, runs, lives, cause>>

(* Mutant: the session is closed with the time it was opened.               *)
FinishAtStart ==
  /\ pc = "stop"
  /\ todo = <<>>
  /\ runs' = [runs EXCEPT ![Len(runs)] =
                [started |-> @.started, last_seen |-> clock, stopped |-> @.started]]
  /\ GoTo("report")
  /\ UNCHANGED <<struckBy, threads, owed, clock, lives, cause>>

FinishRun ==
  /\ pc = "stop"
  /\ todo = <<>>
  /\ \/ /\ runs' = [runs EXCEPT ![Len(runs)] =
                      [started |-> @.started, last_seen |-> clock, stopped |-> clock]]
        /\ GoTo("report")
     \/ Errors /\ ToExit /\ UNCHANGED runs
  /\ UNCHANGED <<struckBy, threads, owed, clock, lives, cause>>

(* The HTML report is written, its OSErrors are logged; the store closes.   *)
Report ==
  /\ pc = "report"
  /\ GoTo("restore") \/ (Errors /\ ToExit)
  /\ UNCHANGED <<struckBy, threads, owed, clock, runs, lives, cause>>

Restore ==
  /\ pc = "restore"
  /\ owed' = FALSE
  /\ ToExit
  /\ UNCHANGED <<struckBy, threads, clock, runs, lives, cause>>

(* Mutant: nothing was registered with atexit.                              *)
ExitWithoutHandler ==
  /\ pc = "atexit"
  /\ ProcessEnds("exited")
  /\ UNCHANGED <<struckBy, owed, clock, runs, cause>>

(* atexit runs guard.restore once more.                                     *)
Exit ==
  /\ pc = "atexit"
  /\ owed' = FALSE
  /\ ProcessEnds("exited")
  /\ UNCHANGED <<struckBy, clock, runs, cause>>

------------------------------------------------------------------------------
(* Signals and kills.                                                       *)

(* The guard's `changed` when apply is left half way.                       *)
HalfApplied == owed' \in IF pc = "apply" THEN BOOLEAN ELSE {owed}

(* Before the handlers are armed SIGTERM and SIGHUP kill, SIGINT ends the   *)
(* process with nothing registered at atexit.  Afterwards a signal raises   *)
(* KeyboardInterrupt wherever the main thread is.  Only the loop's body is  *)
(* covered by the try statement; inside the atexit callback, guard.restore, *)
(* the exception is swallowed and the process exits.                        *)
Signal ==
  /\ signals < MaxSignals
  /\ signals' = signals + 1
  /\ struck' = pc
  /\ \/ /\ pc \in {"apply", "arm"}
        /\ HalfApplied
        /\ ProcessEnds("dead") \/ ProcessEnds("exited")
        /\ UNCHANGED cause
     \/ /\ pc = "start"
        /\ ToExit
        /\ cause' = "signal"
        /\ UNCHANGED <<owed, threads, lives>>
     \/ /\ pc \in InTry
        /\ ToFinally("signal")
        /\ UNCHANGED <<owed, threads, lives>>
     \/ /\ pc \in InFinally
        /\ ToExit
        /\ UNCHANGED <<owed, threads, lives, cause>>
     \/ /\ pc = "atexit"
        /\ ProcessEnds("exited")
        /\ UNCHANGED <<owed, cause>>
  /\ UNCHANGED <<clock, runs>>

(* SIGKILL, the OOM killer.                                                 *)
Kill ==
  /\ pc \notin Ended
  /\ HalfApplied
  /\ ProcessEnds("dead")
  /\ UNCHANGED <<struckBy, clock, runs, cause>>

------------------------------------------------------------------------------
(* The monitor threads.                                                     *)

(* A refused socket ends the thread; DnsMonitor looks at _stop first and    *)
(* connects until it succeeds.                                              *)
ThreadOpens(m) ==
  /\ thread[m] = "opening"
  /\ \/ thread' = [thread EXCEPT ![m] = "receiving"] /\ sock' = sock \cup {m}
     \/ /\ m \notin Retrying \/ m \in stopping
        /\ thread' = [thread EXCEPT ![m] = "over"]
        /\ UNCHANGED sock
  /\ UNCHANGED <<main, struckBy, stopping, owed, clock, runs, lives, cause>>

(* The inner loop ends: asked to stop, or (DnsMonitor) the connection broke *)
(* or the subscription was refused.  Its finally clears self._sock.         *)
ThreadLeaves(m) ==
  /\ thread[m] = "receiving"
  /\ m \in stopping \/ m \in Retrying
  /\ sock' = sock \ {m}
  /\ \/ thread' = [thread EXCEPT ![m] = "over"]
     \/ m \notin stopping /\ thread' = [thread EXCEPT ![m] = "waiting"]
  /\ UNCHANGED <<main, struckBy, stopping, owed, clock, runs, lives, cause>>

ThreadRetries(m) ==
  /\ thread[m] = "waiting"
  /\ thread' = [thread EXCEPT ![m] = IF m \in stopping THEN "over" ELSE "opening"]
  /\ UNCHANGED <<main, struckBy, sock, stopping, owed, clock, runs, lives, cause>>

(* Time passes; in a live process no cycle takes longer than MaxCycle.      *)
Tick ==
  /\ clock < MaxTime
  /\ pc \notin Ended => clock - start < MaxCycle
  /\ clock' = clock + 1
  /\ UNCHANGED <<main, struckBy, threads, owed, runs, lives, cause>>

------------------------------------------------------------------------------
Main ==
  \/ Apply
  \/ InstallHandlers
  \/ StartMonitor
  \/ StartCycle
  \/ Capture
  \/ Heartbeat
  \/ Sleep
  \/ StopSet
  \/ StopCheck
  \/ StopClose
  \/ FinishRun
  \/ Report
  \/ Restore
  \/ Exit

Next ==
  \/ StartRun
  \/ Main
  \/ Signal
  \/ Kill
  \/ \E m \in Names : ThreadOpens(m) \/ ThreadLeaves(m) \/ ThreadRetries(m)
  \/ Tick

(* The main thread is scheduled; the threads need not be.                   *)
Spec     == Init /\ [][Next]_vars
FairSpec == Spec /\ WF_vars(Main)

------------------------------------------------------------------------------
(* run_stats.                                                               *)

Least(a, b) == IF a <= b THEN a ELSE b

SessionEnd(r) == IF r.stopped # None THEN r.stopped ELSE r.last_seen

Span == clock - runs[1].started

ReportedRuntime ==
  Least(Span, SumFunction([i \in DOMAIN runs |-> SessionEnd(runs[i]) - runs[i].started]))

(* What run_stats cannot know.                                              *)
LifeEnd(l) == IF l.died # None THEN l.died ELSE clock

RealRuntime ==
  SumFunction([i \in DOMAIN lives |-> LifeEnd(lives[i]) - lives[i].born])

------------------------------------------------------------------------------
(* Properties.                                                              *)

(* "coverage-gap ('blind spot') statistics ... so an unclean exit still     *)
(* bounds the session length" (store.py): with one collector at a time and  *)
(* a clock that is not set back, the blind time that run_stats reports is   *)
(* never less than the time nobody collected, and exceeds it by at most two *)
(* cycles per run, however the runs ended.                                  *)
BlindSpotHonest ==
  runs # <<>> =>
    /\ ReportedRuntime <= RealRuntime
    /\ RealRuntime <= ReportedRuntime + 2 * MaxCycle * Len(runs)

(* A process that exits owes the host nothing: finally or atexit has called *)
(* SysctlGuard.restore after the last iteration, after signals in the loop  *)
(* or in finally, errors inside finally and a lost race in stop().  The     *)
(* exceptions are a signal before _install_restore_handlers is through,     *)
(* which ends the process at once, and one inside the atexit callback,      *)
(* which raises KeyboardInterrupt there and is swallowed, whatever the      *)
(* docstring ("Ensure sysctls are restored on SIGTERM/SIGHUP") says.        *)
NothingOwedAtExit ==
  pc = "exited" /\ owed => struck \in {"apply", "arm", "atexit"}

(* A session closed by finish_run is never reopened or moved.               *)
ClosedSessionsStay ==
  [][\A i \in DOMAIN runs : runs[i].stopped # None => runs'[i] = runs[i]]_vars

(* A collection of a given number of iterations comes to its end: no state  *)
(* of the threads keeps the loop or its finally block waiting.              *)
RunsEnd ==
  pc = "apply" ~> pc \in {"exited", "dead"}

(* "`stopped` is set on clean shutdown" (store.py): a run that ended after  *)
(* its last iteration, or on a signal, without any error, is closed in the  *)
(* ledger.                                                                  *)
CleanShutdownIsRecorded ==
  pc = "exited" /\ cause \in {"finished", "signal"} => runs[Len(runs)].stopped # None
==============================================================================
