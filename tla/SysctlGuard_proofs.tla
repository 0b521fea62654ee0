-------------------------- MODULE SysctlGuard_proofs --------------------------
(***************************************************************************)
(* For any set of sysctls and any number of kills and power losses: while  *)
(* one process at a time uses the state file, the writes to the state file *)
(* and those of restore_from_file succeed, and the file outlives a killed  *)
(* ExecStopPost, the administrator's values are never lost.                *)
(***************************************************************************)
EXTENDS SysctlGuard, TLAPS

(* One process at a time: a collector, or the ExecStopPost that follows it. *)
SingleProcess == \A p, q \in Procs : p = q

(* Only apply's and restore's own sysctl writes may fail.                   *)
ReliableRecovery == Faults \subseteq {"enable", "restore"}

(* Sysctls the host still owes the administrator.                           *)
Dirty == {x \in Sysctls : sysctl[x] # baseline[x]}

Available == \A x \in Sysctls : sysctl[x] = "absent" <=> baseline[x] = "absent"

FileInv ==
  /\ file = "valid" => saved = baseline
  /\ Dirty # {} => file = "valid"

(* Before apply reads anything.                                             *)
RecoveryInv(p) ==
  /\ pc[p] \in {"idle", "recover", "load", "undo"} => originals[p] = Unread
  /\ pc[p] = "undo" =>
       /\ file = "valid"
       /\ payload[p] = baseline
       /\ Dirty \subseteq todo[p]

(* From the first read to the first write of a sysctl.                      *)
CaptureInv(p) ==
  /\ pc[p] \in {"read", "persist", "fill"} => file # "valid"
  /\ pc[p] = "read" =>
       \A x \in Sysctls : originals[p][x] = IF x \in todo[p] THEN "absent" ELSE baseline[x]
  /\ pc[p] \in {"persist", "fill", "enable"} => originals[p] = baseline
  /\ pc[p] = "fill" => p \in opened

(* From the first write of a sysctl to the end.                             *)
OwedInv(p) ==
  /\ pc[p] \notin {"enable", "running", "finally", "atexit"} => changed[p] = {}
  /\ pc[p] = "enable" =>
       /\ todo[p] \subseteq {x \in Sysctls : baseline[x] = "off"}
       /\ todo[p] # {} => file = "valid"
  /\ pc[p] \in {"enable", "running", "finally", "atexit"} =>
       /\ Dirty \subseteq changed[p]
       /\ changed[p] \subseteq {x \in Sysctls : baseline[x] = "off"}
  /\ pc[p] \in {"finally", "atexit"} => todo[p] \subseteq changed[p]

IInv ==
  /\ TypeOK
  /\ Available
  /\ FileInv
  /\ CapturedIsBaseline
  /\ \A p \in Procs : RecoveryInv(p) /\ CaptureInv(p) /\ OwedInv(p)

------------------------------------------------------------------------------
(* Type correctness.                                                        *)

(* What the shared pieces of the actions preserve.                          *)

LEMMA GoToType ==
  ASSUME TypeOK, NEW p \in Procs, NEW label \in PCs, NEW work \in SUBSET Sysctls,
         GoTo(p, label, work)
  PROVE  pc' \in [Procs -> PCs] /\ todo' \in [Procs -> SUBSET Sysctls]
BY DEF TypeOK, GoTo

LEMMA VisitType ==
  ASSUME TypeOK, NEW p \in Procs, NEW x \in Sysctls, Visit(p, x)
  PROVE  pc' \in [Procs -> PCs] /\ todo' \in [Procs -> SUBSET Sysctls]
<1>1. todo[p] \ {x} \in SUBSET Sysctls
  BY DEF TypeOK
<1> QED
  BY <1>1 DEF TypeOK, Visit

LEMMA ProcessEndsType ==
  ASSUME TypeOK, NEW p \in Procs, NEW failed \in BOOLEAN, ProcessEnds(p, failed)
  PROVE  /\ pc' \in [Procs -> PCs]
         /\ todo' \in [Procs -> SUBSET Sysctls]
         /\ originals' \in [Procs -> [Sysctls -> Reading]]
         /\ changed' \in [Procs -> SUBSET Sysctls]
         /\ payload' \in [Procs -> [Sysctls -> Reading]]
         /\ unit' \in [Procs -> UnitStates]
<1>1. Unread \in [Sysctls -> Reading]
  BY DEF Unread, Reading
<1>2. {} \in SUBSET Sysctls
  OBVIOUS
<1>3. UnitAfter(p, failed) \in UnitStates
  BY DEF UnitAfter, UnitStates
<1> QED
  BY <1>1, <1>2, <1>3 DEF TypeOK, ProcessEnds, PCs

LEMMA NextTypeOK ==
  ASSUME TypeOK, [Next]_vars
  PROVE  TypeOK'
<1> USE SysctlGuardAssumption
<1> USE DEF TypeOK, vars, host, disk, local, Unread, Reading, Flag, PCs, UnitStates
<1>1. ASSUME NEW p \in Procs, StartCollector(p) PROVE TypeOK'
  BY <1>1 DEF StartCollector, GoTo
<1>2. ASSUME NEW p \in Procs, StartRestoreCommand(p) PROVE TypeOK'
  BY <1>2 DEF StartRestoreCommand, GoTo
<1>3. ASSUME NEW p \in Procs, CheckStateFile(p) PROVE TypeOK'
  BY <1>3 DEF CheckStateFile, GoTo
<1>4. ASSUME NEW p \in Procs, LoadStateFile(p) PROVE TypeOK'
  <2>1. {x \in Sysctls : saved[x] # "absent"} \in SUBSET Sysctls /\ Sysctls \in SUBSET Sysctls
    OBVIOUS
  <2>2. CASE file = "valid"
    <3>1. payload' \in [Procs -> [Sysctls -> Reading]]
      BY <1>4, <2>2 DEF LoadStateFile
    <3>2. UNCHANGED <<host, disk, crashes, originals, changed, unit>>
      BY <1>4, <2>2 DEF LoadStateFile
    <3>3. pc' \in [Procs -> PCs] /\ todo' \in [Procs -> SUBSET Sysctls]
      BY <1>4, <2>1, <2>2, GoToType DEF LoadStateFile
    <3> QED
      BY <3>1, <3>2, <3>3
  <2>3. CASE file # "valid" /\ ~IsHook(p)
    BY <1>4, <2>1, <2>3, GoToType
       DEF LoadStateFile, AfterRecovery, RuntimeDirectoryRemoved
  <2>4. CASE file # "valid" /\ IsHook(p)
    BY <1>4, <2>4, ProcessEndsType
       DEF LoadStateFile, AfterRecovery, RuntimeDirectoryRemoved, RemoveStateFile
  <2> QED
    BY <2>2, <2>3, <2>4
<1>5. ASSUME NEW p \in Procs, NEW x \in Sysctls, Undo(p, x) PROVE TypeOK'
  BY <1>5 DEF Undo, Visit, WriteSucceeds, WriteFails
<1>6. ASSUME NEW p \in Procs, UndoDone(p) PROVE TypeOK'
  <2>1. Sysctls \in SUBSET Sysctls
    OBVIOUS
  <2>2. CASE IsHook(p)
    BY <1>6, <2>2, ProcessEndsType DEF UndoDone, AfterRecovery, RemoveStateFile
  <2>3. CASE ~IsHook(p)
    BY <1>6, <2>1, <2>3, GoToType DEF UndoDone, AfterRecovery, RemoveStateFile
  <2> QED
    BY <2>2, <2>3
<1>7. ASSUME NEW p \in Procs, NEW x \in Sysctls, ReadOriginal(p, x) PROVE TypeOK'
  BY <1>7 DEF ReadOriginal, Visit
<1>8. ASSUME NEW p \in Procs, ReadDone(p) PROVE TypeOK'
  <2>1. {} \in SUBSET Sysctls
    OBVIOUS
  <2> QED
    BY <1>8, <2>1, GoToType DEF ReadDone
<1>9. ASSUME NEW p \in Procs, PersistOpen(p) PROVE TypeOK'
  <2>1. {} \in SUBSET Sysctls /\ ToEnable(p) \in SUBSET Sysctls
    BY DEF ToEnable
  <2> QED
    BY <1>9, <2>1, GoToType DEF PersistOpen
<1>10. ASSUME NEW p \in Procs, PersistFill(p) PROVE TypeOK'
  BY <1>10 DEF PersistFill, GoTo, ToEnable
<1>11. ASSUME NEW p \in Procs, NEW x \in Sysctls, Enable(p, x) PROVE TypeOK'
  <2>1. changed[p] \cup {x} \in SUBSET Sysctls
    OBVIOUS
  <2>2. changed' \in [Procs -> SUBSET Sysctls]
    <3>1. CASE changed' = [changed EXCEPT ![p] = @ \cup {x}]
      BY <2>1, <3>1
    <3>2. CASE UNCHANGED changed
      BY <3>2
    <3> QED
      BY <1>11, <3>1, <3>2 DEF Enable
  <2>3. sysctl' \in [Sysctls -> Reading]
    BY <1>11 DEF Enable, WriteSucceeds, WriteFails
  <2>4. pc' \in [Procs -> PCs] /\ todo' \in [Procs -> SUBSET Sysctls]
    BY <1>11, VisitType DEF Enable
  <2> QED
    BY <1>11, <2>2, <2>3, <2>4 DEF Enable
<1>12. ASSUME NEW p \in Procs, InstallHandlers(p) PROVE TypeOK'
  BY <1>12 DEF InstallHandlers, GoTo
<1>13. ASSUME NEW p \in Procs, Stop(p) PROVE TypeOK'
  <2>1. changed[p] \in SUBSET Sysctls
    OBVIOUS
  <2> QED
    BY <1>13, <2>1, GoToType DEF Stop
<1>14. ASSUME NEW p \in Procs, InterruptFinally(p) PROVE TypeOK'
  BY <1>14 DEF InterruptFinally, GoTo
<1>15. ASSUME NEW p \in Procs, NEW x \in Sysctls, RestoreOne(p, x) PROVE TypeOK'
  <2>1. changed[p] \ {x} \in SUBSET Sysctls
    OBVIOUS
  <2>2. changed' \in [Procs -> SUBSET Sysctls]
    <3>1. CASE changed' = [changed EXCEPT ![p] = @ \ {x}]
      BY <2>1, <3>1
    <3>2. CASE UNCHANGED changed
      BY <3>2
    <3> QED
      BY <1>15, <3>1, <3>2 DEF RestoreOne
  <2>3. sysctl' \in [Sysctls -> Reading]
    BY <1>15 DEF RestoreOne, WriteSucceeds, WriteFails
  <2>4. pc' \in [Procs -> PCs] /\ todo' \in [Procs -> SUBSET Sysctls]
    BY <1>15, VisitType DEF RestoreOne
  <2> QED
    BY <1>15, <2>2, <2>3, <2>4 DEF RestoreOne
<1>16. ASSUME NEW p \in Procs, RestoreDone(p) PROVE TypeOK'
  <2>1. changed[p] \in SUBSET Sysctls
    OBVIOUS
  <2>2. CASE pc[p] = "finally"
    BY <1>16, <2>1, <2>2, GoToType DEF RestoreDone, AfterRestore, RemoveStateFile
  <2>3. CASE pc[p] = "atexit"
    BY <1>16, <2>3, ProcessEndsType DEF RestoreDone, AfterRestore, RemoveStateFile
  <2> QED
    BY <1>16, <2>2, <2>3 DEF RestoreDone
<1>17. ASSUME NEW p \in Procs, Crash(p) PROVE TypeOK'
  BY <1>17 DEF Crash, ProcessEnds, UnitAfter, RuntimeDirectoryRemoved, RemoveStateFile
<1>18. CASE PowerLoss
  BY <1>18 DEF PowerLoss
<1>19. CASE AdminSet
  BY <1>19 DEF AdminSet
<1>20. CASE UNCHANGED vars
  BY <1>20
<1> QED
  BY <1>1, <1>2, <1>3, <1>4, <1>5, <1>6, <1>7, <1>8, <1>9, <1>10,
     <1>11, <1>12, <1>13, <1>14, <1>15, <1>16, <1>17, <1>18, <1>19, <1>20
     DEF Next, Progress

(* Type correctness holds for any number of processes and any faults.       *)
THEOREM TypeCorrect == Spec => []TypeOK
<1>1. Init => TypeOK
  BY SysctlGuardAssumption DEF Init, TypeOK, Unread, Reading, Flag, PCs, UnitStates
<1>2. TypeOK /\ [Next]_vars => TypeOK'
  BY NextTypeOK
<1> QED
  BY <1>1, <1>2, PTL DEF Spec

------------------------------------------------------------------------------
(* The inductive invariant.                                                 *)

LEMMA InitIInv == Init => IInv
BY SysctlGuardAssumption
   DEF Init, IInv, TypeOK, Available, FileInv, CapturedIsBaseline, Dirty, RecoveryInv,
       CaptureInv, OwedInv, Unread, Reading, Flag, PCs, UnitStates

LEMMA NextIInv ==
  ASSUME SingleProcess, ReliableRecovery, IInv, [Next]_vars
  PROVE  IInv'
<1> DEFINE Core == Available /\ FileInv /\ CapturedIsBaseline
                   /\ \A p \in Procs : RecoveryInv(p) /\ CaptureInv(p) /\ OwedInv(p)
<1>a. TypeOK'
  BY NextTypeOK DEF IInv
<1> SUFFICES Core'
  BY <1>a DEF IInv
<1> USE DEF IInv, TypeOK, Available, FileInv, CapturedIsBaseline, Dirty, RecoveryInv,
            CaptureInv, OwedInv, SingleProcess, ReliableRecovery, vars, host, disk, local,
            Unread, Reading, Flag
<1>1. ASSUME NEW p \in Procs, StartCollector(p) PROVE Core'
  BY <1>1 DEF StartCollector, GoTo
<1>2. ASSUME NEW p \in Procs, StartRestoreCommand(p) PROVE Core'
  BY <1>2 DEF StartRestoreCommand, GoTo
<1>3. ASSUME NEW p \in Procs, CheckStateFile(p) PROVE Core'
  BY <1>3 DEF CheckStateFile, GoTo
<1>4. ASSUME NEW p \in Procs, LoadStateFile(p) PROVE Core'
  BY <1>4 DEF LoadStateFile, AfterRecovery, GoTo, IsHook, ProcessEnds, UnitAfter,
              RuntimeDirectoryRemoved, RemoveStateFile
<1>5. ASSUME NEW p \in Procs, NEW x \in Sysctls, Undo(p, x) PROVE Core'
  BY <1>5 DEF Undo, Visit, WriteSucceeds, WriteFails
<1>6. ASSUME NEW p \in Procs, UndoDone(p) PROVE Core'
  BY <1>6 DEF UndoDone, AfterRecovery, GoTo, IsHook, RemoveStateFile, ProcessEnds, UnitAfter
<1>7. ASSUME NEW p \in Procs, NEW x \in Sysctls, ReadOriginal(p, x) PROVE Core'
  BY <1>7 DEF ReadOriginal, Visit
<1>8. ASSUME NEW p \in Procs, ReadDone(p) PROVE Core'
  <2>1. originals[p] = baseline
    BY <1>8 DEF ReadDone
  <2>2. Dirty = {}
    BY <1>8 DEF ReadDone
  <2>3. Available' /\ FileInv' /\ CapturedIsBaseline'
    BY <1>8 DEF ReadDone
  <2>4. ASSUME NEW q \in Procs PROVE (RecoveryInv(q) /\ CaptureInv(q) /\ OwedInv(q))'
    BY <1>8, <2>1, <2>2 DEF ReadDone, GoTo
  <2> QED
    BY <2>3, <2>4
<1>9. ASSUME NEW p \in Procs, PersistOpen(p) PROVE Core'
  BY <1>9 DEF PersistOpen, GoTo, ToEnable
<1>10. ASSUME NEW p \in Procs, PersistFill(p) PROVE Core'
  <2>1. file' = "valid" /\ saved' = baseline /\ originals' = originals /\ originals[p] = baseline
    BY <1>10 DEF PersistFill
  <2>2. Dirty = {} /\ Dirty' = {}
    BY <1>10 DEF PersistFill
  <2>3. Available' /\ FileInv' /\ CapturedIsBaseline'
    BY <1>10, <2>1, <2>2 DEF PersistFill
  <2>4. pc'[p] = "enable" /\ todo'[p] = {x \in Sysctls : baseline[x] = "off"}
    BY <1>10, <2>1 DEF PersistFill, GoTo, ToEnable
  <2>5. ASSUME NEW q \in Procs PROVE (RecoveryInv(q) /\ CaptureInv(q) /\ OwedInv(q))'
    <3>1. q = p /\ baseline' = baseline /\ changed' = changed
      BY <1>10 DEF PersistFill
    <3>2. changed[p] = {} /\ changed'[p] = {}
      BY <1>10 DEF PersistFill
    <3> QED
      BY <2>1, <2>2, <2>4, <3>1, <3>2
  <2> QED
    BY <2>3, <2>5
<1>11. ASSUME NEW p \in Procs, NEW x \in Sysctls, Enable(p, x) PROVE Core'
  BY <1>11 DEF Enable, Visit, WriteSucceeds, WriteFails
<1>12. ASSUME NEW p \in Procs, InstallHandlers(p) PROVE Core'
  BY <1>12 DEF InstallHandlers, GoTo
<1>13. ASSUME NEW p \in Procs, Stop(p) PROVE Core'
  BY <1>13 DEF Stop, GoTo
<1>14. ASSUME NEW p \in Procs, InterruptFinally(p) PROVE Core'
  BY <1>14 DEF InterruptFinally, GoTo
<1>15. ASSUME NEW p \in Procs, NEW x \in Sysctls, RestoreOne(p, x) PROVE Core'
  <2>1. x \in changed[p] /\ baseline[x] = "off" /\ baseline' = baseline
    BY <1>15 DEF RestoreOne, Visit
  <2>2. Dirty' \subseteq changed'[p] /\ Dirty' \subseteq Dirty
    <3>1. CASE WriteSucceeds(x, "off") /\ changed' = [changed EXCEPT ![p] = @ \ {x}]
      BY <1>15, <2>1, <3>1 DEF RestoreOne, WriteSucceeds
    <3>2. CASE UNCHANGED <<sysctl, changed>>
      BY <1>15, <2>1, <3>2 DEF RestoreOne
    <3> QED
      BY <1>15, <3>1, <3>2 DEF RestoreOne, WriteFails
  <2>3. Available' /\ FileInv' /\ CapturedIsBaseline'
    BY <1>15, <2>1, <2>2 DEF RestoreOne, WriteSucceeds, WriteFails
  <2>4. todo'[p] \subseteq changed'[p] /\ changed'[p] \subseteq changed[p]
    BY <1>15 DEF RestoreOne, Visit
  <2>5. ASSUME NEW q \in Procs PROVE (RecoveryInv(q) /\ CaptureInv(q) /\ OwedInv(q))'
    BY <1>15, <2>1, <2>2, <2>4 DEF RestoreOne, Visit
  <2> QED
    BY <2>3, <2>5
<1>16. ASSUME NEW p \in Procs, RestoreDone(p) PROVE Core'
  BY <1>16 DEF RestoreDone, AfterRestore, GoTo, RemoveStateFile, ProcessEnds, UnitAfter
<1>17. ASSUME NEW p \in Procs, Crash(p) PROVE Core'
  BY <1>17 DEF Crash, ProcessEnds, UnitAfter
<1>18. CASE PowerLoss
  BY <1>18 DEF PowerLoss
<1>19. CASE AdminSet
  BY <1>19 DEF AdminSet
<1>20. CASE UNCHANGED vars
  BY <1>20
<1> QED
  BY <1>1, <1>2, <1>3, <1>4, <1>5, <1>6, <1>7, <1>8, <1>9, <1>10,
     <1>11, <1>12, <1>13, <1>14, <1>15, <1>16, <1>17, <1>18, <1>19, <1>20
     DEF Next, Progress

(* The administrator's values can be recovered at every moment, whatever    *)
(* step the collector, the restore command or systemd is killed in          *)
(* (conntrack.py, SysctlGuard: "the host can be returned to its original    *)
(* state even if this process is SIGKILLed").                               *)
THEOREM Recoverable ==
  ASSUME SingleProcess, ReliableRecovery
  PROVE  Spec => []BaselineRecoverable
<1>1. Init => IInv
  BY InitIInv
<1>2. IInv /\ [Next]_vars => IInv'
  BY NextIInv
<1>3. IInv => BaselineRecoverable
  BY DEF IInv, FileInv, Dirty, BaselineRecoverable
<1> QED
  BY <1>1, <1>2, <1>3, PTL DEF Spec

(* No run takes a left-over "on" for the host's own setting (apply: "the    *)
(* 'original' we capture below is the true pre-commatrix baseline").        *)
THEOREM CapturesBaseline ==
  ASSUME SingleProcess, ReliableRecovery
  PROVE  Spec => []CapturedIsBaseline
<1>1. Init => IInv
  BY InitIInv
<1>2. IInv /\ [Next]_vars => IInv'
  BY NextIInv
<1>3. IInv => CapturedIsBaseline
  BY DEF IInv
<1> QED
  BY <1>1, <1>2, <1>3, PTL DEF Spec

(* A collector that ends by itself with nothing left to restore leaves the  *)
(* administrator's values and no state file (restore, run from finally or   *)
(* from atexit).                                                            *)
THEOREM ExitsClean ==
  ASSUME SingleProcess, ReliableRecovery
  PROVE  Spec => CleanExit
<1>1. Init => IInv
  BY InitIInv
<1>2. IInv /\ [Next]_vars => IInv'
  BY NextIInv
<1>3. IInv /\ [Next]_vars
        => [\A p \in Procs :
              pc[p] = "atexit" /\ pc'[p] = "idle" /\ crashes' = crashes /\ changed[p] = {}
                => sysctl' = baseline /\ file' = "missing"]_vars
  <2> SUFFICES ASSUME IInv, Next, NEW p \in Procs,
                      pc[p] = "atexit", pc'[p] = "idle", crashes' = crashes, changed[p] = {}
               PROVE  sysctl' = baseline /\ file' = "missing"
    OBVIOUS
  <2> USE DEF IInv, TypeOK
  <2>1. sysctl = baseline
    BY DEF OwedInv, Dirty
  <2>2. ASSUME NEW q \in Procs PROVE q = p
    BY DEF SingleProcess
  <2>3. ~\E x \in Sysctls : Undo(p, x) \/ ReadOriginal(p, x) \/ Enable(p, x) \/ RestoreOne(p, x)
    BY DEF Undo, ReadOriginal, Enable, RestoreOne, Visit
  <2>4. ~(CheckStateFile(p) \/ LoadStateFile(p) \/ UndoDone(p) \/ ReadDone(p))
    BY DEF CheckStateFile, LoadStateFile, UndoDone, ReadDone
  <2>5. ~(PersistOpen(p) \/ PersistFill(p) \/ InstallHandlers(p))
    BY DEF PersistOpen, PersistFill, InstallHandlers
  <2>6. ~(StartCollector(p) \/ StartRestoreCommand(p) \/ Stop(p) \/ InterruptFinally(p))
    BY DEF StartCollector, StartRestoreCommand, Stop, InterruptFinally
  <2>7. ~(Crash(p) \/ PowerLoss \/ AdminSet)
    <3>1. crashes \in Nat /\ crashes' = crashes
      BY SysctlGuardAssumption
    <3>2. crashes + 1 # crashes
      BY <3>1
    <3>3. ~Crash(p) /\ ~PowerLoss
      BY <3>1, <3>2 DEF Crash, PowerLoss
    <3>4. ~AdminSet
      BY DEF AdminSet
    <3> QED
      BY <3>3, <3>4
  <2>8. RestoreDone(p)
    <3>1. Next => \/ PowerLoss \/ AdminSet \/ Progress(p)
                  \/ StartCollector(p) \/ StartRestoreCommand(p)
                  \/ Stop(p) \/ InterruptFinally(p) \/ Crash(p)
      BY <2>2 DEF Next
    <3> QED
      BY <2>3, <2>4, <2>5, <2>6, <2>7, <3>1 DEF Progress
  <2> QED
    BY <2>1, <2>8 DEF RestoreDone, RemoveStateFile, host
<1> QED
  BY <1>1, <1>2, <1>3, PTL DEF Spec, CleanExit
==============================================================================
