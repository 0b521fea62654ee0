---------------------------- MODULE RunLoop_proofs ----------------------------
(***************************************************************************)
(* For any monitors, any number of runs, cycles, signals, kills and        *)
(* exceptions: what the ledger says of the runs, and what the host is owed *)
(* when a process has ended.                                               *)
(***************************************************************************)
EXTENDS RunLoop, SumTheorems, SequenceTheorems

(* The session of the present process is still open.                        *)
OpenPCs == {"apply", "arm", "start", "stop", "stop_check", "stop_close"} \cup InTry

(* `start` is the time of start_run or of the last heartbeat.               *)
SteadyPCs == {"apply", "arm", "start", "sleep", "cycle"}

(* stop() is called on a monitor; the loop goes on while count allows.      *)
LoopInv ==
  /\ pc \in {"stop_check", "stop_close"} => todo # <<>>
  /\ pc \in {"apply", "arm", "start"} \cup InTry => count < Iterations

(* A process has exactly one row, the last, and leaves it open till         *)
(* finish_run.                                                              *)
SessionInv ==
  /\ pc \notin Ended => runs # <<>> /\ lives[Len(runs)].died = None
  /\ pc \in Ended /\ runs # <<>> => lives[Len(runs)].died # None
  /\ pc \in OpenPCs => runs[Len(runs)].stopped = None

(* The present row is at most one cycle behind `start`, `start` at most one *)
(* behind the clock.                                                        *)
CycleInv ==
  pc \notin Ended =>
    /\ start <= clock /\ clock <= start + MaxCycle
    /\ start <= SessionEnd(runs[Len(runs)]) + MaxCycle
    /\ pc \in OpenPCs => runs[Len(runs)].last_seen <= start
    /\ pc \in SteadyPCs => runs[Len(runs)].last_seen = start

(* A row against the life of its process, and that against the next one's.  *)
RowInv(i) ==
  /\ lives[i].born = runs[i].started
  /\ runs[i].started <= SessionEnd(runs[i])
  /\ SessionEnd(runs[i]) <= LifeEnd(lives[i])
  /\ LifeEnd(lives[i]) <= clock
  /\ lives[i].died # None => lives[i].died <= SessionEnd(runs[i]) + 2 * MaxCycle
  /\ i < Len(runs) => lives[i].died # None /\ lives[i].died <= lives[i + 1].born

IInv ==
  /\ TypeOK
  /\ LoopInv
  /\ NothingOwedAtExit
  /\ SessionInv
  /\ CycleInv
  /\ \A i \in DOMAIN runs : RowInv(i)

------------------------------------------------------------------------------
(* Type correctness, and which steps touch what.                            *)

Session == [started : Time, last_seen : Time, stopped : Time \cup {None}]
Life    == [born : Time, died : Time \cup {None}]

(* The monitors' names are what the loops over Monitors visit.              *)
LEMMA VisitType ==
  ASSUME TypeOK
  PROVE  /\ Monitors \in Seq(Names)
         /\ <<>> \in Seq(Names)
         /\ todo # <<>> => Head(todo) \in Names /\ Tail(todo) \in Seq(Names)
BY RunLoopAssumption DEF TypeOK, Names

(* The ledger and the lives have the same, positive, length.                *)
LEMMA LastRow ==
  ASSUME TypeOK, runs # <<>>
  PROVE  /\ Len(runs) \in Nat \ {0} /\ Len(lives) = Len(runs)
         /\ DOMAIN runs = 1..Len(runs) /\ DOMAIN lives = 1..Len(runs)
         /\ runs[Len(runs)] \in Session /\ lives[Len(runs)] \in Life
<1>1. runs \in Seq(Session) /\ lives \in Seq(Life) /\ Len(lives) = Len(runs)
  BY DEF TypeOK, Session, Life
<1>2. Len(runs) \in Nat \ {0}
  BY <1>1, EmptySeq
<1>3. DOMAIN runs = 1..Len(runs) /\ DOMAIN lives = 1..Len(runs)
  BY <1>1, LenProperties
<1>4. Len(runs) \in 1..Len(runs)
  BY <1>2
<1>5. runs[Len(runs)] \in Session /\ lives[Len(runs)] \in Life
  BY <1>1, <1>4, ElementOfSeq
<1> QED BY <1>1, <1>2, <1>3, <1>5

(* The present process's row is rewritten, no other is.                     *)
LEMMA RowRewritten ==
  ASSUME TypeOK, runs # <<>>, NEW r \in Session, runs' = [runs EXCEPT ![Len(runs)] = r]
  PROVE  /\ runs' \in Seq(Session) /\ Len(runs') = Len(runs)
         /\ DOMAIN runs' = DOMAIN runs /\ runs' # <<>>
         /\ runs'[Len(runs)] = r
         /\ \A i \in DOMAIN runs : i # Len(runs) => runs'[i] = runs[i]
<1>1. runs \in Seq(Session) /\ Len(runs) \in 1..Len(runs)
  BY LastRow DEF TypeOK, Session
<1> QED BY <1>1, LastRow, ExceptSeq

LEMMA HeartbeatRewrites ==
  ASSUME TypeOK, runs # <<>>, HeartbeatRun(start)
  PROVE  \E r \in Session :
           /\ r = [started |-> runs[Len(runs)].started, last_seen |-> start,
                   stopped |-> runs[Len(runs)].stopped]
           /\ runs' = [runs EXCEPT ![Len(runs)] = r]
<1> DEFINE n == Len(runs)
           r == [started |-> runs[n].started, last_seen |-> start,
                 stopped |-> runs[n].stopped]
<1>1. runs[n] \in Session
  BY LastRow
<1>2. [runs[n] EXCEPT !.last_seen = start] = r
  BY <1>1 DEF Session
<1>3. runs' = [runs EXCEPT ![n] = r]
  BY <1>2 DEF HeartbeatRun
<1>4. r \in Session
  BY <1>1 DEF Session, TypeOK
<1> QED BY <1>3, <1>4

(* The present process ends, and no other entry of its history moves.       *)
LEMMA LifeEnds ==
  ASSUME TypeOK, runs # <<>>, lives' = [lives EXCEPT ![Len(lives)].died = clock]
  PROVE  /\ lives' \in Seq(Life) /\ Len(lives') = Len(lives)
         /\ DOMAIN lives' = DOMAIN lives
         /\ lives'[Len(runs)] = [born |-> lives[Len(runs)].born, died |-> clock]
         /\ \A i \in DOMAIN lives : i # Len(runs) => lives'[i] = lives[i]
<1> DEFINE n == Len(runs)
           l == [born |-> lives[n].born, died |-> clock]
<1>1. lives[n] \in Life
  BY LastRow
<1>2. [lives[n] EXCEPT !.died = clock] = l
  BY <1>1 DEF Life
<1>3. lives' = [lives EXCEPT ![n] = l]
  BY <1>2, LastRow
<1>4. l \in Life
  BY <1>1 DEF Life, TypeOK
<1>5. lives \in Seq(Life) /\ n \in 1..Len(lives)
  BY LastRow DEF TypeOK, Life
<1> QED BY <1>3, <1>4, <1>5, LastRow, ExceptSeq

(* start_run appends a row and, in the history, a life.                     *)
LEMMA RunStarts ==
  ASSUME TypeOK, StartRun
  PROVE  /\ runs' \in Seq(Session) /\ lives' \in Seq(Life)
         /\ Len(runs') = Len(runs) + 1 /\ Len(lives') = Len(runs')
         /\ DOMAIN runs' = 1..(Len(runs) + 1) /\ runs' # <<>>
         /\ \A i \in DOMAIN runs : runs'[i] = runs[i] /\ lives'[i] = lives[i]
         /\ runs'[Len(runs')] = [started |-> clock, last_seen |-> clock, stopped |-> None]
         /\ lives'[Len(runs')] = [born |-> clock, died |-> None]
<1> DEFINE r == [started |-> clock, last_seen |-> clock, stopped |-> None]
           l == [born |-> clock, died |-> None]
<1>1. r \in Session /\ l \in Life
  BY DEF Session, Life, TypeOK
<1>2. runs' = Append(runs, r) /\ lives' = Append(lives, l)
  BY DEF StartRun
<1>3. runs \in Seq(Session) /\ lives \in Seq(Life) /\ Len(lives) = Len(runs)
  BY DEF Session, Life, TypeOK
<1> HIDE DEF r, l
<1>4. /\ runs' \in Seq(Session) /\ Len(runs') = Len(runs) + 1
      /\ \A i \in 1..Len(runs) : runs'[i] = runs[i]
      /\ runs'[Len(runs) + 1] = r
  BY <1>1, <1>2, <1>3, AppendProperties
<1>5. /\ lives' \in Seq(Life) /\ Len(lives') = Len(runs) + 1
      /\ \A i \in 1..Len(runs) : lives'[i] = lives[i]
      /\ lives'[Len(runs) + 1] = l
  BY <1>1, <1>2, <1>3, AppendProperties
<1>6. Len(runs) \in Nat /\ DOMAIN runs = 1..Len(runs) /\ DOMAIN runs' = 1..Len(runs')
  BY <1>3, <1>4, LenProperties
<1>7. runs' # <<>>
  BY <1>4, <1>6
<1> QED BY <1>4, <1>5, <1>6, <1>7 DEF r, l

LEMMA ProcessEndsType ==
  ASSUME TypeOK, runs # <<>>, NEW how \in PCs, ProcessEnds(how)
  PROVE  /\ pc' \in PCs
         /\ todo' \in Seq(Names)
         /\ count' \in 0..Iterations /\ start' \in Time
         /\ thread' \in [Names -> {"off", "opening", "receiving", "waiting", "over"}]
         /\ sock' \subseteq Names /\ stopping' \subseteq Names
         /\ lives' \in Seq(Life) /\ Len(lives') = Len(lives)
BY LifeEnds, VisitType DEF TypeOK, ProcessEnds

LEMMA NextTypeOK ==
  ASSUME TypeOK, LoopInv, SessionInv, [Next]_vars
  PROVE  TypeOK'
<1>0. pc \notin Ended => runs # <<>>
  BY DEF SessionInv
<1> USE RunLoopAssumption
<1>00. /\ Monitors \in Seq(Names) /\ <<>> \in Seq(Names)
       /\ todo # <<>> => Head(todo) \in Names /\ Tail(todo) \in Seq(Names)
  BY VisitType
<1> USE <1>00
<1> USE DEF TypeOK, vars, main, threads, struckBy, PCs, InTry, InFinally, Ended, Time,
            GoTo, ToExit, ToFinally
<1>1. ASSUME StartRun PROVE TypeOK'
  <2>6. runs' \in Seq(Session) /\ lives' \in Seq(Life) /\ Len(runs') = Len(lives')
    BY <1>1, RunStarts
  <2>7. pc' \in PCs /\ todo' = <<>> /\ count' = 0 /\ start' = clock /\ owed' = FALSE
        /\ cause' = "running" /\ struck' = "none" /\ UNCHANGED <<signals, threads, clock>>
    BY <1>1 DEF StartRun
  <2> HIDE <1>00
  <2>8. todo' \in Seq(Names)
    BY <1>00, <2>7
  <2>9. clock' \in Time /\ start' \in Time /\ owed' \in BOOLEAN
    BY <2>7
  <2>10. count' \in 0..Iterations
    <3>1. 0 \in 0..Iterations
      BY RunLoopAssumption
    <3> QED BY <2>7, <3>1
  <2>11. /\ thread' \in [Names -> {"off", "opening", "receiving", "waiting", "over"}]
         /\ sock' \subseteq Names /\ stopping' \subseteq Names
         /\ signals' \in 0..MaxSignals /\ struck' \in PCs
    BY <2>7
  <2> QED BY <2>6, <2>7, <2>8, <2>9, <2>10, <2>11 DEF Session, Life
<1>2. ASSUME Apply PROVE TypeOK'
  BY <1>2 DEF Apply
<1>3. ASSUME InstallHandlers PROVE TypeOK'
  BY <1>3 DEF InstallHandlers
<1>4. ASSUME StartMonitor PROVE TypeOK'
  BY <1>4 DEF StartMonitor
<1>5. ASSUME StartCycle PROVE TypeOK'
  BY <1>5 DEF StartCycle
<1>6. ASSUME Capture PROVE TypeOK'
  BY <1>6 DEF Capture
<1>7. ASSUME Heartbeat PROVE TypeOK'
  <2>1. count + 1 \in 0..Iterations
    BY <1>7 DEF Heartbeat, LoopInv
  <2>2. CASE HeartbeatRun(start)
    <3>1. runs' \in Seq(Session) /\ Len(runs') = Len(runs)
      BY <1>0, <1>7, <2>2, HeartbeatRewrites, RowRewritten DEF Heartbeat
    <3> QED BY <1>7, <2>1, <3>1 DEF Heartbeat, Session
  <2>3. CASE UNCHANGED runs
    BY <1>7, <2>1, <2>3 DEF Heartbeat
  <2> QED BY <1>7, <2>2, <2>3 DEF Heartbeat
<1>8. ASSUME Sleep PROVE TypeOK'
  BY <1>8 DEF Sleep
<1>9. ASSUME StopSet PROVE TypeOK'
  BY <1>9 DEF StopSet
<1>10. ASSUME StopCheck PROVE TypeOK'
  BY <1>10 DEF StopCheck, NextMonitor, LoopInv
<1>11. ASSUME StopClose PROVE TypeOK'
  BY <1>11 DEF StopClose, NextMonitor, LoopInv
<1>12. ASSUME FinishRun PROVE TypeOK'
  <2>1. runs' \in Seq(Session) /\ Len(runs') = Len(runs)
    <3> DEFINE r == [started |-> runs[Len(runs)].started, last_seen |-> clock,
                     stopped |-> clock]
    <3>1. CASE UNCHANGED runs
      BY <3>1 DEF Session
    <3>2. CASE runs' = [runs EXCEPT ![Len(runs)] = r]
      <4>1. runs # <<>> /\ r \in Session
        BY <1>0, <1>12, LastRow DEF FinishRun, Session
      <4> HIDE DEF r
      <4> QED BY <3>2, <4>1, RowRewritten
    <3> QED BY <1>12, <3>1, <3>2 DEF FinishRun
  <2> QED BY <1>12, <2>1 DEF FinishRun, Session
<1>13. ASSUME Report PROVE TypeOK'
  BY <1>13 DEF Report
<1>14. ASSUME Restore PROVE TypeOK'
  BY <1>14 DEF Restore
<1>15. ASSUME Exit PROVE TypeOK'
  BY <1>0, <1>15, ProcessEndsType DEF Exit, Life
<1>16. ASSUME Signal PROVE TypeOK'
  <2>1. signals' \in 0..MaxSignals /\ struck' \in PCs /\ UNCHANGED <<clock, runs>>
    BY <1>16 DEF Signal
  <2>2. owed' \in BOOLEAN
    BY <1>16 DEF Signal, HalfApplied
  <2>3. ASSUME pc \notin Ended, NEW how \in PCs, ProcessEnds(how), UNCHANGED cause
        PROVE  TypeOK'
    BY <1>0, <2>1, <2>2, <2>3, ProcessEndsType DEF Life
  <2>4. CASE ToExit /\ cause' \in {cause, "signal"} /\ UNCHANGED <<threads, lives>>
    BY <2>1, <2>2, <2>4
  <2>5. CASE ToFinally("signal") /\ UNCHANGED <<threads, lives>>
    BY <2>1, <2>2, <2>5
  <2>6. \/ pc \notin Ended /\ (ProcessEnds("dead") \/ ProcessEnds("exited")) /\ UNCHANGED cause
        \/ ToExit /\ cause' \in {cause, "signal"} /\ UNCHANGED <<threads, lives>>
        \/ ToFinally("signal") /\ UNCHANGED <<threads, lives>>
    <3> HIDE <1>00 DEF GoTo, ToExit, ToFinally
    <3> QED BY <1>16 DEF Signal
  <2>7. "dead" \in PCs /\ "exited" \in PCs
    OBVIOUS
  <2> QED BY <2>3, <2>4, <2>5, <2>6, <2>7
<1>17. ASSUME Kill PROVE TypeOK'
  <2>1. owed' \in BOOLEAN
    BY <1>17 DEF Kill, HalfApplied
  <2> QED BY <1>0, <1>17, <2>1, ProcessEndsType DEF Kill, Life
<1>18. ASSUME NEW m \in Names, ThreadOpens(m) \/ ThreadLeaves(m) \/ ThreadRetries(m)
       PROVE  TypeOK'
  <2>1. UNCHANGED <<main, struckBy, owed, clock, runs, lives, cause>>
    BY <1>18 DEF ThreadOpens, ThreadLeaves, ThreadRetries
  <2>2. /\ thread' \in [Names -> {"off", "opening", "receiving", "waiting", "over"}]
        /\ sock' \subseteq Names /\ stopping' = stopping
    BY <1>18 DEF ThreadOpens, ThreadLeaves, ThreadRetries
  <2>3. UNCHANGED <<pc, todo, count, start, signals, struck, owed, clock, runs, lives, cause>>
    BY <2>1
  <2> QED BY <2>2, <2>3
<1>19. ASSUME Tick PROVE TypeOK'
  BY <1>19 DEF Tick
<1>20. ASSUME UNCHANGED vars PROVE TypeOK'
  BY <1>20
<1> QED
  BY <1>1, <1>2, <1>3, <1>4, <1>5, <1>6, <1>7, <1>8, <1>9, <1>10, <1>11, <1>12, <1>13,
     <1>14, <1>15, <1>16, <1>17, <1>18, <1>19, <1>20 DEF Next, Main
(* A step that leaves the ledger, the clock and `start` alone.              *)
QuietStep ==
  /\ UNCHANGED <<runs, lives, clock, start>>
  /\ \/ pc' = pc
     \/ /\ pc \notin Ended /\ pc' \notin Ended
        /\ pc' \in OpenPCs => pc \in OpenPCs
        /\ pc' \in SteadyPCs => pc \in SteadyPCs

(* heartbeat_run has written `start` into the process's row.                *)
BeatStep ==
  /\ pc = "heartbeat" /\ pc' \in {"sleep", "stop"}
  /\ HeartbeatRun(start)
  /\ UNCHANGED <<lives, clock, start>>

(* finish_run has closed the process's row.                                 *)
CloseStep ==
  /\ pc = "stop" /\ pc' = "report"
  /\ runs' = [runs EXCEPT ![Len(runs)] =
                [started |-> @.started, last_seen |-> clock, stopped |-> clock]]
  /\ UNCHANGED <<lives, clock, start>>

(* The process is gone.                                                     *)
EndStep ==
  /\ pc \notin Ended /\ pc' \in {"exited", "dead"}
  /\ lives' = [lives EXCEPT ![Len(lives)].died = clock]
  /\ UNCHANGED <<runs, clock, start>>

(* Every step is one of these for the ledger.                               *)
LEMMA StepKinds ==
  ASSUME [Next]_vars
  PROVE  StartRun \/ StartCycle \/ Tick \/ BeatStep \/ CloseStep \/ EndStep \/ QuietStep
<1> USE DEF Ended, InTry, InFinally, OpenPCs, SteadyPCs, GoTo, ToExit, ToFinally, QuietStep
<1>1. CASE Apply
  BY <1>1 DEF Apply
<1>2. CASE InstallHandlers
  BY <1>2 DEF InstallHandlers
<1>3. CASE StartMonitor
  BY <1>3 DEF StartMonitor
<1>4. CASE Capture
  BY <1>4 DEF Capture
<1>5. CASE Heartbeat
  BY <1>5 DEF Heartbeat, BeatStep
<1>6. CASE Sleep
  BY <1>6 DEF Sleep
<1>7. CASE StopSet \/ StopCheck \/ StopClose
  BY <1>7 DEF StopSet, StopCheck, StopClose, NextMonitor
<1>8. CASE FinishRun
  BY <1>8 DEF FinishRun, CloseStep
<1>9. CASE Report \/ Restore
  BY <1>9 DEF Report, Restore
<1>10. CASE Exit \/ Kill
  BY <1>10 DEF Exit, Kill, ProcessEnds, EndStep
<1>11. CASE Signal
  BY <1>11 DEF Signal, ProcessEnds, EndStep
<1>12. CASE \E m \in Names : ThreadOpens(m) \/ ThreadLeaves(m) \/ ThreadRetries(m)
  BY <1>12 DEF ThreadOpens, ThreadLeaves, ThreadRetries, main
<1>13. CASE UNCHANGED vars
  BY <1>13 DEF vars
<1> QED
  BY <1>1, <1>2, <1>3, <1>4, <1>5, <1>6, <1>7, <1>8, <1>9, <1>10, <1>11, <1>12, <1>13
  DEF Next, Main

------------------------------------------------------------------------------
(* The loop, the debt, the sessions.                                        *)

LEMMA NextLoopInv ==
  ASSUME TypeOK, LoopInv, [Next]_vars
  PROVE  LoopInv'
<1> USE RunLoopAssumption
<1> USE DEF LoopInv, Ended, InTry, InFinally, GoTo, ToExit, ToFinally
<1>1. CASE StartRun
  <2>1. 0 < Iterations
    OBVIOUS
  <2> QED BY <1>1, <2>1 DEF StartRun
<1>2. CASE Apply \/ InstallHandlers \/ StartMonitor \/ StartCycle \/ Capture \/ Sleep
  BY <1>2 DEF Apply, InstallHandlers, StartMonitor, StartCycle, Capture, Sleep
<1>3. CASE Heartbeat
  BY <1>3 DEF Heartbeat, LastCycle, TypeOK
<1>4. CASE StopSet \/ StopCheck \/ StopClose
  BY <1>4 DEF StopSet, StopCheck, StopClose, NextMonitor
<1>5. CASE FinishRun \/ Report \/ Restore
  BY <1>5 DEF FinishRun, Report, Restore
<1>6. CASE Exit \/ Kill
  BY <1>6 DEF Exit, Kill, ProcessEnds
<1>7. CASE Signal
  BY <1>7 DEF Signal, ProcessEnds
<1>8. CASE \E m \in Names : ThreadOpens(m) \/ ThreadLeaves(m) \/ ThreadRetries(m)
  BY <1>8 DEF ThreadOpens, ThreadLeaves, ThreadRetries, main
<1>9. CASE Tick \/ UNCHANGED vars
  BY <1>9 DEF Tick, vars, main
<1> QED
  BY <1>1, <1>2, <1>3, <1>4, <1>5, <1>6, <1>7, <1>8, <1>9 DEF Next, Main

LEMMA NextNothingOwed ==
  ASSUME NothingOwedAtExit, [Next]_vars
  PROVE  NothingOwedAtExit'
<1> USE DEF NothingOwedAtExit, struckBy, Ended, InTry, InFinally, GoTo, ToExit, ToFinally
<1>1. CASE StartRun \/ Apply \/ InstallHandlers \/ StartMonitor \/ StartCycle \/ Capture
            \/ Heartbeat \/ Sleep
  BY <1>1 DEF StartRun, Apply, InstallHandlers, StartMonitor, StartCycle, Capture,
              Heartbeat, Sleep
<1>2. CASE StopSet \/ StopCheck \/ StopClose \/ FinishRun \/ Report \/ Restore
  BY <1>2 DEF StopSet, StopCheck, StopClose, NextMonitor, FinishRun, Report, Restore
<1>3. CASE Exit
  BY <1>3 DEF Exit
<1>4. CASE Kill \/ Signal
  BY <1>4 DEF Kill, Signal, ProcessEnds
<1>5. CASE \E m \in Names : ThreadOpens(m) \/ ThreadLeaves(m) \/ ThreadRetries(m)
  BY <1>5 DEF ThreadOpens, ThreadLeaves, ThreadRetries, main
<1>6. CASE Tick \/ UNCHANGED vars
  BY <1>6 DEF Tick, vars, main
<1> QED BY <1>1, <1>2, <1>3, <1>4, <1>5, <1>6 DEF Next, Main
(* Sessions: what a step does to the rows, seen from a row's number.        *)
LEMMA NextSessionInv ==
  ASSUME TypeOK, SessionInv, [Next]_vars
  PROVE  SessionInv'
<1> USE DEF SessionInv, Ended, InTry, InFinally, OpenPCs
<1>1. CASE StartRun
  <2>1. runs' # <<>> /\ lives'[Len(runs')].died = None /\ runs'[Len(runs')].stopped = None
    BY <1>1, RunStarts
  <2>2. pc' = "apply"
    BY <1>1 DEF StartRun
  <2> QED BY <2>1, <2>2
<1>2. CASE StartCycle
  BY <1>2 DEF StartCycle
<1>3. CASE Tick
  BY <1>3 DEF Tick, main
<1>4. CASE BeatStep
  <2>1. runs # <<>>
    BY <1>4 DEF BeatStep
  <2>2. /\ runs' # <<>> /\ Len(runs') = Len(runs)
        /\ runs'[Len(runs)].stopped = runs[Len(runs)].stopped
    BY <1>4, <2>1, HeartbeatRewrites, RowRewritten DEF BeatStep
  <2> QED BY <1>4, <2>2 DEF BeatStep
<1>5. CASE CloseStep
  <2> DEFINE r == [started |-> runs[Len(runs)].started, last_seen |-> clock, stopped |-> clock]
  <2>1. runs # <<>> /\ r \in Session
    BY <1>5, LastRow DEF CloseStep, Session, TypeOK
  <2>2. runs' = [runs EXCEPT ![Len(runs)] = r]
    BY <1>5 DEF CloseStep
  <2>3. runs' # <<>> /\ Len(runs') = Len(runs)
    <3> HIDE DEF r
    <3> QED BY <2>1, <2>2, RowRewritten
  <2> QED BY <1>5, <2>3 DEF CloseStep
<1>6. CASE EndStep
  <2>1. runs # <<>>
    BY <1>6 DEF EndStep
  <2>2. lives'[Len(runs)].died = clock
    BY <1>6, <2>1, LifeEnds DEF EndStep
  <2>3. clock # None
    BY RunLoopAssumption DEF TypeOK, Time
  <2> QED BY <1>6, <2>2, <2>3 DEF EndStep
<1>7. CASE QuietStep
  BY <1>7 DEF QuietStep
<1> QED BY <1>1, <1>2, <1>3, <1>4, <1>5, <1>6, <1>7, StepKinds

(* A closed row is not written again.                                       *)
LEMMA NextClosedStay ==
  ASSUME TypeOK, SessionInv, [Next]_vars,
         NEW i \in DOMAIN runs, runs[i].stopped # None
  PROVE  runs'[i] = runs[i]
<1> USE DEF SessionInv, Ended, InTry, InFinally, OpenPCs
<1>1. CASE StartRun
  BY <1>1, RunStarts
<1>2. CASE BeatStep
  <2>1. runs # <<>> /\ i # Len(runs)
    BY <1>2 DEF BeatStep
  <2> QED BY <1>2, <2>1, HeartbeatRewrites, RowRewritten DEF BeatStep
<1>3. CASE CloseStep
  <2> DEFINE r == [started |-> runs[Len(runs)].started, last_seen |-> clock, stopped |-> clock]
  <2>1. runs # <<>> /\ i # Len(runs) /\ r \in Session
    BY <1>3, LastRow DEF CloseStep, Session, TypeOK
  <2>2. runs' = [runs EXCEPT ![Len(runs)] = r]
    BY <1>3 DEF CloseStep
  <2> HIDE DEF r
  <2> QED BY <2>1, <2>2, RowRewritten
<1>4. CASE UNCHANGED runs
  BY <1>4
<1> QED
  BY <1>1, <1>2, <1>3, <1>4, StepKinds DEF StartCycle, Tick, EndStep, QuietStep
------------------------------------------------------------------------------
(* The ledger against the history.                                          *)

Rows == \A i \in DOMAIN runs : RowInv(i)

(* Numbers are compared as numbers.                                         *)
LEMMA RowTypes ==
  ASSUME TypeOK
  PROVE  /\ Time \subseteq Nat /\ None \notin Time /\ clock \in Time /\ start \in Time
         /\ MaxCycle \in Nat /\ Len(runs) \in Nat /\ DOMAIN runs = 1..Len(runs)
         /\ \A i \in DOMAIN runs : runs[i] \in Session /\ lives[i] \in Life
<1>1. runs \in Seq(Session) /\ lives \in Seq(Life) /\ Len(lives) = Len(runs)
  BY DEF TypeOK, Session, Life
<1>2. Len(runs) \in Nat /\ DOMAIN runs = 1..Len(runs)
  BY <1>1, LenProperties
<1>3. \A i \in 1..Len(runs) : runs[i] \in Session /\ lives[i] \in Life
  BY <1>1, ElementOfSeq
<1>4. Time \subseteq Nat /\ None \notin Time /\ MaxCycle \in Nat
  BY RunLoopAssumption DEF Time
<1> QED BY <1>2, <1>3, <1>4 DEF TypeOK

LEMMA NextCycleInv ==
  ASSUME TypeOK, TypeOK', SessionInv, CycleInv, Rows, [Next]_vars
  PROVE  CycleInv'
<1> USE RowTypes DEF CycleInv, Ended, InTry, InFinally, OpenPCs, SteadyPCs, SessionEnd
<1>0. pc \notin Ended => /\ runs # <<>> /\ Len(runs) \in DOMAIN runs
                        /\ runs[Len(runs)] \in Session /\ lives[Len(runs)] \in Life
                        /\ lives[Len(runs)].died = None
  BY LastRow DEF SessionInv
<1>1. CASE StartRun
  <2>1. start' = clock /\ clock' = clock /\ pc' = "apply"
    BY <1>1 DEF StartRun
  <2>2. runs'[Len(runs')].last_seen = clock /\ runs'[Len(runs')].stopped = None
    BY <1>1, RunStarts
  <2> QED BY <2>1, <2>2
<1>2. CASE StartCycle
  <2>1. /\ pc \in {"start", "cycle"} /\ pc' = "capture" /\ start' = clock
        /\ UNCHANGED <<clock, runs>>
    BY <1>2 DEF StartCycle
  <2>2. runs[Len(runs)].last_seen = start /\ runs[Len(runs)].stopped = None
    BY <2>1 DEF SessionInv
  <2> QED BY <2>1, <2>2
<1>3. CASE Tick
  <2>1. /\ clock' = clock + 1 /\ UNCHANGED <<pc, start, runs>>
        /\ pc \notin Ended => clock - start < MaxCycle
    BY <1>3 DEF Tick, main
  <2> QED BY <2>1
<1>4. CASE BeatStep
  <2>1. PICK r \in Session :
          /\ r.last_seen = start /\ r.stopped = runs[Len(runs)].stopped
          /\ runs' = [runs EXCEPT ![Len(runs)] = r]
    BY <1>0, <1>4, HeartbeatRewrites DEF BeatStep
  <2>2. Len(runs') = Len(runs) /\ runs'[Len(runs)] = r
    BY <1>0, <1>4, <2>1, RowRewritten DEF BeatStep
  <2>3. r.stopped = None
    BY <1>4, <2>1 DEF BeatStep, SessionInv
  <2>4. pc \notin Ended /\ UNCHANGED <<clock, start>>
    BY <1>4 DEF BeatStep
  <2> QED BY <2>1, <2>2, <2>3, <2>4
<1>5. CASE CloseStep
  <2> DEFINE r == [started |-> runs[Len(runs)].started, last_seen |-> clock, stopped |-> clock]
  <2>1. runs # <<>> /\ r \in Session /\ runs' = [runs EXCEPT ![Len(runs)] = r]
    BY <1>0, <1>5 DEF CloseStep, Session
  <2>2. r.stopped = clock
    OBVIOUS
  <2>3. Len(runs') = Len(runs) /\ runs'[Len(runs)] = r
    <3> HIDE DEF r
    <3> QED BY <2>1, RowRewritten
  <2>4. pc \notin Ended /\ pc' = "report" /\ UNCHANGED <<clock, start>>
    BY <1>5 DEF CloseStep
  <2> HIDE DEF r
  <2> QED BY <2>2, <2>3, <2>4
<1>6. CASE EndStep
  BY <1>6 DEF EndStep
<1>7. CASE QuietStep
  BY <1>7 DEF QuietStep
<1> QED BY <1>1, <1>2, <1>3, <1>4, <1>5, <1>6, <1>7, StepKinds
LEMMA NextRows ==
  ASSUME TypeOK, SessionInv, CycleInv, Rows, [Next]_vars
  PROVE  Rows'
<1> USE RowTypes DEF Rows, RowInv, SessionEnd, LifeEnd
<1>0. pc \notin Ended => /\ runs # <<>> /\ Len(runs) \in DOMAIN runs
                        /\ lives[Len(runs)].died = None /\ DOMAIN lives = DOMAIN runs
  BY LastRow DEF SessionInv
<1>1. CASE StartRun
  <2>1. ASSUME NEW i \in DOMAIN runs PROVE RowInv(i)'
    <3>1. UNCHANGED clock /\ pc \in Ended
      BY <1>1 DEF StartRun
    <3>2. Len(runs') = Len(runs) + 1 /\ runs'[i] = runs[i] /\ lives'[i] = lives[i]
          /\ lives'[Len(runs) + 1].born = clock
      BY <1>1, RunStarts
    <3>3. lives[i].died # None
      <4>1. runs # <<>>
        BY LastRow
      <4>2. CASE i = Len(runs)
        BY <3>1, <4>1, <4>2 DEF SessionInv
      <4>3. CASE i < Len(runs)
        BY <4>3
      <4> QED BY <4>2, <4>3
    <3>4. i < Len(runs) => lives'[i + 1] = lives[i + 1]
      BY <1>1, RunStarts
    <3>5. i \in 1..Len(runs) /\ lives[i].died <= clock
      BY <3>3
    <3>6. i = Len(runs) => lives'[i + 1].born = clock
      BY <3>2
    <3> QED BY <3>1, <3>2, <3>3, <3>4, <3>5, <3>6
  <2>2. ASSUME NEW i, i = Len(runs) + 1 PROVE RowInv(i)'
    <3>1. Len(runs') = i /\ UNCHANGED clock
      BY <1>1, <2>2, RunStarts DEF StartRun
    <3>2. runs'[i] = [started |-> clock, last_seen |-> clock, stopped |-> None]
          /\ lives'[i] = [born |-> clock, died |-> None]
      BY <1>1, <2>2, RunStarts
    <3> QED BY <3>1, <3>2
  <2>3. DOMAIN runs' = 1..(Len(runs) + 1)
    BY <1>1, RunStarts
  <2>4. \A i \in DOMAIN runs' : i \in DOMAIN runs \/ i = Len(runs) + 1
    BY <2>3
  <2> QED BY <2>1, <2>2, <2>4
<1>2. CASE StartCycle
  BY <1>2 DEF StartCycle
<1>3. CASE Tick
  <2>1. clock' = clock + 1 /\ UNCHANGED <<runs, lives>>
    BY <1>3 DEF Tick
  <2>2. ASSUME NEW i \in DOMAIN runs PROVE RowInv(i)'
    <3>1. RowInv(i)
      OBVIOUS
    <3>2. clock \in Nat /\ LifeEnd(lives[i]) \in Nat
      BY DEF Life
    <3>3. lives[i].died = None => LifeEnd(lives[i]) = clock /\ LifeEnd(lives[i])' = clock + 1
      BY <2>1
    <3>4. lives[i].died # None => LifeEnd(lives[i])' = LifeEnd(lives[i])
      BY <2>1
    <3>5. PICK e \in Nat : e = SessionEnd(runs[i]) /\ e = SessionEnd(runs[i])'
      BY <2>1 DEF Session
    <3> HIDE DEF Rows, SessionEnd, LifeEnd
    <3> QED BY <2>1, <3>1, <3>2, <3>3, <3>4, <3>5
  <2> HIDE DEF RowInv
  <2> QED BY <2>1, <2>2
<1>4. CASE BeatStep
  <2>0. PICK n \in Nat : n = Len(runs)
    OBVIOUS
  <2>1. pc \notin Ended /\ pc \in OpenPCs /\ UNCHANGED <<lives, clock, start>>
    BY <2>0, <1>4 DEF BeatStep, Ended, OpenPCs, InTry
  <2>2. PICK r \in Session :
          /\ r = [started |-> runs[n].started, last_seen |-> start, stopped |-> runs[n].stopped]
          /\ runs' = [runs EXCEPT ![n] = r]
    BY <2>0, <1>0, <1>4, <2>1, HeartbeatRewrites DEF BeatStep
  <2>3. /\ Len(runs') = n /\ DOMAIN runs' = DOMAIN runs /\ runs'[n] = r
        /\ \A i \in DOMAIN runs : i # n => runs'[i] = runs[i]
    BY <2>0, <1>0, <2>1, <2>2, RowRewritten
  <2>4. /\ runs[n].stopped = None /\ runs[n].last_seen <= start
        /\ start <= clock /\ lives[n].died = None
    BY <2>0, <1>0, <2>1 DEF SessionInv, CycleInv
  <2>5. RowInv(n)'
    <3>1. /\ lives[n].born = runs[n].started /\ runs[n].started <= start
          /\ runs[n].started \in Nat /\ clock \in Nat /\ start \in Nat
      BY <2>0, <1>0, <2>1, <2>4 DEF Session
    <3> HIDE DEF Rows
    <3> QED BY <2>0, <2>1, <2>2, <2>3, <2>4, <3>1
  <2>6. \A i \in DOMAIN runs : i # n => RowInv(i)'
    BY <2>0, <2>1, <2>3
  <2> HIDE DEF RowInv
  <2> QED BY <2>0, <2>3, <2>5, <2>6
<1>5. CASE CloseStep
  <2>0. PICK n \in Nat : n = Len(runs)
    OBVIOUS
  <2> DEFINE r == [started |-> runs[n].started, last_seen |-> clock, stopped |-> clock]
  <2>1. pc \notin Ended /\ UNCHANGED <<lives, clock>> /\ lives[n].died = None
    BY <2>0, <1>0, <1>5 DEF CloseStep, Ended
  <2>2. r \in Session /\ runs' = [runs EXCEPT ![n] = r]
    BY <2>0, <1>0, <1>5, <2>1 DEF CloseStep, Session
  <2>3. r.started = runs[n].started /\ r.stopped = clock /\ clock # None
    OBVIOUS
  <2> HIDE DEF r
  <2>4. /\ Len(runs') = n /\ DOMAIN runs' = DOMAIN runs /\ runs'[n] = r
        /\ \A i \in DOMAIN runs : i # n => runs'[i] = runs[i]
    BY <2>0, <1>0, <2>1, <2>2, RowRewritten
  <2>5. RowInv(n)'
    <3>1. /\ lives[n].born = runs[n].started /\ runs[n].started <= clock
          /\ runs[n].started \in Nat /\ clock \in Nat
      BY <2>0, <1>0, <2>1 DEF Session
    <3> HIDE DEF Rows
    <3> QED BY <2>0, <2>1, <2>3, <2>4, <3>1
  <2>6. \A i \in DOMAIN runs : i # n => RowInv(i)'
    BY <2>0, <2>1, <2>4
  <2> HIDE DEF RowInv
  <2> QED BY <2>0, <2>4, <2>5, <2>6
<1>6. CASE EndStep
  <2>0. PICK n \in Nat : n = Len(runs)
    OBVIOUS
  <2>1. pc \notin Ended /\ UNCHANGED <<runs, clock, start>> /\ lives[n].died = None
    BY <2>0, <1>0, <1>6 DEF EndStep
  <2>2. /\ lives'[n] = [born |-> lives[n].born, died |-> clock]
        /\ \A i \in DOMAIN runs : i # n => lives'[i] = lives[i]
    BY <2>0, <1>0, <1>6, <2>1, LifeEnds DEF EndStep
  <2>3. clock <= SessionEnd(runs[n]) + 2 * MaxCycle
    BY <2>0, <1>0, <2>1 DEF CycleInv, Session
  <2>4. RowInv(n)'
    <3>1. /\ lives[n].born = runs[n].started /\ runs[n].started <= SessionEnd(runs[n])
          /\ SessionEnd(runs[n]) <= clock /\ clock # None
      BY <2>0, <1>0, <2>1
    <3> HIDE DEF Rows, SessionEnd
    <3> QED BY <2>0, <2>1, <2>2, <2>3, <3>1
  <2>5. ASSUME NEW i \in DOMAIN runs, i # n PROVE RowInv(i)'
    <3>1. lives'[i + 1].born = lives[i + 1].born
      <4>1. i \in 1..n /\ i < n /\ i + 1 \in DOMAIN runs
        BY <2>0, <2>5
      <4> QED BY <2>0, <2>2, <4>1
    <3> QED BY <2>0, <2>1, <2>2, <2>5, <3>1
  <2> HIDE DEF RowInv
  <2> QED BY <2>0, <2>1, <2>4, <2>5
<1>7. CASE QuietStep
  BY <1>7 DEF QuietStep
<1> QED BY <1>1, <1>2, <1>3, <1>4, <1>5, <1>6, <1>7, StepKinds
LEMMA LedgerHonest ==
  ASSUME TypeOK, SessionInv, CycleInv, Rows
  PROVE  BlindSpotHonest
<1> SUFFICES ASSUME runs # <<>>
             PROVE  /\ ReportedRuntime <= RealRuntime
                    /\ RealRuntime <= ReportedRuntime + 2 * MaxCycle * Len(runs)
  BY DEF BlindSpotHonest
<1> DEFINE n == Len(runs)
           D == DOMAIN runs
           L == [i \in D |-> LifeEnd(lives[i]) - lives[i].born]
           S == [i \in D |-> SessionEnd(runs[i]) - runs[i].started]
<1>1. /\ n \in Nat \ {0} /\ D = 1..n /\ DOMAIN lives = D
      /\ n \in D /\ 1 \in D /\ MaxCycle \in Nat /\ clock \in Nat
  BY LastRow, RowTypes
<1>2. IsFiniteSet(D) /\ Cardinality(D) = n
  BY <1>1, FS_Interval
<1>3. \A i \in D : /\ L[i] \in Int /\ S[i] \in Int
                  /\ S[i] <= L[i] + 0 /\ L[i] <= S[i] + 2 * MaxCycle
  <2> SUFFICES ASSUME NEW i \in D
               PROVE  /\ L[i] \in Int /\ S[i] \in Int
                      /\ S[i] <= L[i] + 0 /\ L[i] <= S[i] + 2 * MaxCycle
    OBVIOUS
  <2>1. PICK e \in Nat, s \in Nat, b \in Nat :
          /\ e = LifeEnd(lives[i]) /\ s = SessionEnd(runs[i])
          /\ b = runs[i].started /\ b = lives[i].born
    BY RowTypes DEF Rows, RowInv, LifeEnd, SessionEnd, Session, Life
  <2>2. b <= s /\ s <= e
    BY <2>1 DEF Rows, RowInv
  <2>3. e <= s + 2 * MaxCycle
    <3>1. CASE lives[i].died # None
      BY <2>1, <3>1 DEF Rows, RowInv, LifeEnd
    <3>2. CASE lives[i].died = None
      <4>1. i = n /\ pc \notin Ended /\ e = clock
        <5>1. i = n \/ i < n
          BY <1>1
        <5>2. i = n
          BY <3>2, <5>1 DEF Rows, RowInv
        <5> QED BY <2>1, <3>2, <5>2 DEF SessionInv, LifeEnd
      <4>2. clock <= start + MaxCycle /\ start <= s + MaxCycle
        BY <2>1, <4>1 DEF CycleInv
      <4> QED BY <1>1, <4>1, <4>2, RowTypes
    <3> QED BY <3>1, <3>2
  <2>4. L[i] = e - b /\ S[i] = s - b
    BY <2>1
  <2> HIDE DEF L, S
  <2> QED BY <1>1, <2>2, <2>3, <2>4
<1>4. PICK r \in Int, t \in Int : r = SumFunctionOnSet(L, D) /\ t = SumFunctionOnSet(S, D)
  <2> HIDE DEF L, S, D
  <2> QED BY <1>2, <1>3, SumInt
<1>5. t <= r + 0 * n /\ r <= t + (2 * MaxCycle) * n
  <2> HIDE DEF L, S, D, n
  <2>1. t <= r + 0 * Cardinality(D)
    BY <1>2, <1>3, <1>4, SumBound
  <2>2. 2 * MaxCycle \in Int
    BY <1>1
  <2>3. r <= t + (2 * MaxCycle) * Cardinality(D)
    BY <1>2, <1>3, <1>4, <2>2, SumBound
  <2> QED BY <1>2, <2>1, <2>3
<1>6. RealRuntime = r /\ ReportedRuntime = Least(Span, t)
  <2>1. DOMAIN L = D /\ DOMAIN S = D
    OBVIOUS
  <2>2. RealRuntime = SumFunctionOnSet(L, DOMAIN L)
    BY <1>1 DEF RealRuntime, SumFunction
  <2>3. ReportedRuntime = Least(Span, SumFunctionOnSet(S, DOMAIN S))
    BY DEF ReportedRuntime, SumFunction
  <2> QED BY <1>4, <2>1, <2>2, <2>3
<1>7. r <= Span /\ Span \in Int
  <2> DEFINE e == [i \in D |-> LifeEnd(lives[i])]
             b == [i \in D |-> lives[i].born]
  <2>1. SumFunctionOnSet(L, 1..n) <= LifeEnd(lives[n]) - runs[1].started
    <3>1. \A i \in D : LifeEnd(lives[i]) \in Nat /\ lives[i].born \in Nat
      BY <1>1, RowTypes DEF LifeEnd, Life
    <3>2. e \in [1..n -> Nat] /\ b \in [1..n -> Nat]
      BY <1>1, <3>1
    <3>3. \A i \in 1..n : i + 1 \in 1..n => e[i] <= b[i + 1]
      BY <1>1 DEF Rows, RowInv, LifeEnd
    <3>4. \A i \in 1..n : L[i] = e[i] - b[i]
      BY <1>1
    <3>5. e[n] = LifeEnd(lives[n]) /\ b[1] = runs[1].started
      BY <1>1 DEF Rows, RowInv
    <3> HIDE DEF e, b, L, D, n
    <3>6. n \in 1..n /\ n \in Nat
      BY <1>1
    <3>7. SumFunctionOnSet(L, 1..n) <= e[n] - b[1]
      BY <3>2, <3>3, <3>4, <3>6, SumTelescopes
    <3> QED BY <3>5, <3>7
  <2>2. LifeEnd(lives[n]) <= clock /\ LifeEnd(lives[n]) \in Nat /\ runs[1].started \in Nat
    BY <1>1, RowTypes DEF Rows, RowInv, LifeEnd, Session, Life
  <2> HIDE DEF L
  <2> QED BY <1>1, <1>4, <2>1, <2>2 DEF Span
<1>8. PICK p \in Nat : p = (2 * MaxCycle) * n
  BY <1>1
<1> HIDE DEF n, D, L, S
<1>9. t <= r /\ r <= t + p
  <2>1. 0 * n = 0
    BY <1>1
  <2> QED BY <1>4, <1>5, <1>8, <2>1
<1>10. Least(Span, t) <= r /\ r <= Least(Span, t) + p
  BY <1>4, <1>7, <1>8, <1>9 DEF Least
<1> QED BY <1>6, <1>8, <1>10 DEF n

------------------------------------------------------------------------------
(* The theorems.                                                            *)

LEMMA Start == Init => IInv
<1> SUFFICES ASSUME Init PROVE IInv
  OBVIOUS
<1> USE RunLoopAssumption DEF Init
<1>1. runs \in Seq(Session) /\ lives \in Seq(Life) /\ Len(runs) = Len(lives) /\ DOMAIN runs = {}
  BY EmptySeq
<1>2. TypeOK
  <2>1. 0 \in 0..Iterations /\ 0 \in Time /\ 0 \in 0..MaxSignals
    BY DEF Time
  <2>2. todo \in Seq(Names)
    BY EmptySeq
  <2> QED BY <1>1, <2>1, <2>2 DEF TypeOK, PCs, Ended, Session, Life
<1>3. LoopInv /\ NothingOwedAtExit /\ SessionInv /\ CycleInv
  BY DEF LoopInv, NothingOwedAtExit, SessionInv, CycleInv, Ended, InTry, OpenPCs
<1> QED BY <1>1, <1>2, <1>3 DEF IInv

LEMMA Step == IInv /\ [Next]_vars => IInv'
<1> SUFFICES ASSUME IInv, [Next]_vars PROVE IInv'
  OBVIOUS
<1>1. TypeOK'
  BY NextTypeOK DEF IInv
<1>2. LoopInv' /\ NothingOwedAtExit' /\ SessionInv'
  BY NextLoopInv, NextNothingOwed, NextSessionInv DEF IInv
<1>3. CycleInv' /\ Rows'
  BY <1>1, NextCycleInv, NextRows DEF IInv, Rows
<1> QED BY <1>1, <1>2, <1>3 DEF IInv, Rows

LEMMA Invariant == Spec => []IInv
BY Start, Step, PTL DEF Spec

(* Every variable keeps its type.                                           *)
THEOREM TypeCorrect == Spec => []TypeOK
<1>1. IInv => TypeOK
  BY DEF IInv
<1> QED BY <1>1, Invariant, PTL

(* A process that reached its interpreter's exit, by whatever way, owes the *)
(* host no restore (guard.restore in finally and again with atexit), unless *)
(* a signal ended it at once: while apply or the installation of the        *)
(* handlers ran, or inside the atexit callback.                             *)
THEOREM ExitOwesNothing == Spec => []NothingOwedAtExit
<1>1. IInv => NothingOwedAtExit
  BY DEF IInv
<1> QED BY <1>1, Invariant, PTL

(* heartbeat_run and finish_run write only the present process's row, and   *)
(* none after finish_run has set `stopped`.                                 *)
THEOREM ClosedStay == Spec => ClosedSessionsStay
<1>1. IInv /\ [Next]_vars
        => [\A i \in DOMAIN runs : runs[i].stopped # None => runs'[i] = runs[i]]_vars
  BY NextClosedStay DEF IInv
<1> QED BY <1>1, Invariant, PTL DEF Spec, ClosedSessionsStay

(* run_stats: the runtime it reports never exceeds the real one, and falls  *)
(* short of it by at most two cycles a run, however the runs ended.         *)
THEOREM LedgerIsHonest == Spec => []BlindSpotHonest
<1>1. IInv => BlindSpotHonest
  BY LedgerHonest DEF IInv, Rows
<1> QED BY <1>1, Invariant, PTL
===============================================================================
