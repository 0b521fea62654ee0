---------------------------- MODULE Elevate_proofs ---------------------------
(***************************************************************************)
(* Apply and revoke, repeated and killed at any step.  On Linux every call *)
(* may fail.  On Windows for any set of calls that may fail, but the       *)
(* queries the theorems name.                                              *)
(***************************************************************************)
EXTENDS Elevate, TLAPS

(* Linux.  Whatever state there is is what the last apply found, and apply  *)
(* is past saving it before it writes.                                      *)
StateInv ==
  /\ saved \in {Absent, found}
  /\ pc \in {"write_dropin", "write_polkit", "reload"} => saved = found /\ ~ blind

(* What revoke has done so far.                                             *)
RevokeInv ==
  /\ pc \in {"restore_dropin", "restore_polkit", "forget"} => saved # Absent
  /\ pc \in {"restore_polkit", "forget"} => dropin = saved.dropin
  /\ pc = "forget" => polkit = saved.polkit
  /\ pc \in {"remove_dropin", "remove_polkit"} => blind
  /\ pc = "remove_polkit" => dropin = Absent

LinuxInv ==
  /\ TypeOK
  /\ StateInv
  /\ RevokeInv
  /\ PreviousRecoverable
  /\ RevokeUndoesApply

(* Windows.  Revoke goes by a state file.                                   *)
StepInv == wpc \in {"restore", "delete_user", "forget"} => wstate # NoState

(* Who is whose account.                                                    *)
AccountInv ==
  /\ wpc = "user" => (wbefore.user_created <=> waccount = "none")
  /\ wpc \in {"save", "grant", "rebind"} /\ wbefore.user_created => waccount # "admins"
  /\ wstate # NoState /\ wstate.user_created => waccount # "admins"

(* What the task runs, as it was read and as it is saved.                   *)
Command(state) == IF state.command = NoTask THEN "default" ELSE state.command

CommandInv ==
  /\ wpc \in {"existed", "user", "save", "grant", "rebind"} =>
       IF wtask = NoTask THEN wbefore.command = NoTask ELSE wbefore.command = wtask.command
  /\ wpc \in {"grant", "rebind"} => wstate = wbefore
  /\ ~ outdated /\ wstate # NoState /\ wtask # NoTask => wtask.command = Command(wstate)

WindowsInv == WindowsTypeOK /\ StepInv

------------------------------------------------------------------------------
(* Linux.                                                                   *)

LEMMA LinuxInit == Init => LinuxInv
<1> SUFFICES ASSUME Init PROVE LinuxInv
  OBVIOUS
<1> USE DEF Init, files, Nothing
<1>1. TypeOK
  <2>1. original \in [dropin : {Absent, "admins"}, polkit : {Absent, "admins"}]
    OBVIOUS
  <2>2. before \in Files
    BY DEF Files, Content
  <2>3. found \in Files
    BY DEF Files, Content
  <2>4. blind \in BOOLEAN
    OBVIOUS
  <2> QED
    BY <2>1, <2>2, <2>3, <2>4 DEF TypeOK, Content
<1>2. StateInv /\ RevokeInv
  BY DEF StateInv, RevokeInv
<1>3. PreviousRecoverable /\ RevokeUndoesApply
  BY DEF PreviousRecoverable, RevokeUndoesApply
<1> QED
  BY <1>1, <1>2, <1>3 DEF LinuxInv

LEMMA LinuxType ==
  ASSUME TypeOK, RevokeInv, [Next]_vars
  PROVE  TypeOK'
<1> USE DEF TypeOK, Content, Files, Nothing, history, End, Goto
<1>1. CASE StartApply
  BY <1>1 DEF StartApply, files
<1>2. CASE SaveState
  <2>1. account' \in BOOLEAN
    BY <1>2, Zenon DEF SaveState, EnsureServiceUser
  <2>2. blind' \in BOOLEAN
    BY <1>2, Zenon DEF SaveState
  <2>3. saved' \in Files \cup {Absent} /\ found' \in Files /\ before' \in Files
    BY <1>2 DEF SaveState
  <2> QED
    BY <1>2, <2>1, <2>2, <2>3 DEF SaveState
<1>3. CASE WriteDropin
  BY <1>3 DEF WriteDropin, Botched
<1>4. CASE WritePolkit
  BY <1>4 DEF WritePolkit, Botched
<1>5. CASE Reload
  BY <1>5 DEF Reload
<1>6. CASE StartRevoke
  BY <1>6 DEF StartRevoke
<1>7. CASE RestoreDropin
  BY <1>7 DEF RestoreDropin, PutBack, Botched, RevokeInv
<1>8. CASE RestorePolkit
  BY <1>8 DEF RestorePolkit, PutBack, Botched, RevokeInv
<1>9. CASE RemoveState
  BY <1>9 DEF RemoveState
<1>10. CASE RemoveDropin
  BY <1>10 DEF RemoveDropin
<1>11. CASE RemovePolkit
  BY <1>11 DEF RemovePolkit
<1>12. CASE Kill
  BY <1>12 DEF Kill
<1>13. CASE UNCHANGED vars
  BY <1>13 DEF vars
<1> QED
  BY <1>1, <1>2, <1>3, <1>4, <1>5, <1>6, <1>7, <1>8, <1>9, <1>10, <1>11, <1>12, <1>13 DEF Next

LEMMA LinuxStep ==
  ASSUME LinuxInv, [Next]_vars
  PROVE  LinuxInv'
<1>1. TypeOK'
  BY LinuxType DEF LinuxInv
<1>2. StateInv' /\ RevokeInv' /\ PreviousRecoverable' /\ RevokeUndoesApply'
  <2> USE DEF LinuxInv, TypeOK, StateInv, RevokeInv, PreviousRecoverable, RevokeUndoesApply,
              files, Nothing, Files, history, End, Goto
  <2>1. CASE StartApply
    BY <2>1 DEF StartApply
  <2>2. CASE SaveState
    BY <2>2 DEF SaveState, EnsureServiceUser
  <2>3. CASE WriteDropin
    BY <2>3 DEF WriteDropin, Botched
  <2>4. CASE WritePolkit
    BY <2>4 DEF WritePolkit, Botched
  <2>5. CASE Reload
    BY <2>5 DEF Reload
  <2>6. CASE StartRevoke
    BY <2>6 DEF StartRevoke
  <2>7. CASE RestoreDropin
    BY <2>7 DEF RestoreDropin, PutBack, Botched
  <2>8. CASE RestorePolkit
    BY <2>8 DEF RestorePolkit, PutBack, Botched
  <2>9. CASE RemoveState
    BY <2>9 DEF RemoveState
  <2>10. CASE RemoveDropin
    BY <2>10 DEF RemoveDropin
  <2>11. CASE RemovePolkit
    BY <2>11 DEF RemovePolkit
  <2>12. CASE Kill
    BY <2>12 DEF Kill
  <2>13. CASE UNCHANGED vars
    BY <2>13 DEF vars
  <2> QED
    BY <2>1, <2>2, <2>3, <2>4, <2>5, <2>6, <2>7, <2>8, <2>9, <2>10, <2>11, <2>12, <2>13 DEF Next
<1> QED
  BY <1>1, <1>2 DEF LinuxInv

------------------------------------------------------------------------------
(* Windows.                                                                 *)

LEMMA WindowsStart == WindowsInit => WindowsInv /\ AccountInv /\ CommandInv
<1> SUFFICES ASSUME WindowsInit PROVE WindowsInv /\ AccountInv /\ CommandInv
  OBVIOUS
<1> USE DEF WindowsInit, Unsaved
<1>1. WindowsTypeOK
  BY DEF WindowsTypeOK, Task, State
<1>2. StepInv /\ AccountInv /\ CommandInv
  BY DEF StepInv, AccountInv, CommandInv
<1> QED
  BY <1>1, <1>2 DEF WindowsInv

(* The fields a step leaves alone or clears keep their types.               *)
LocalTypeOK ==
  /\ wbefore \in State
  /\ password \in BOOLEAN
  /\ leaving \in BOOLEAN /\ outdated \in BOOLEAN

LEMMA LocalType ==
  ASSUME LocalTypeOK, NEW step, WindowsEnd \/ WindowsGoto(step)
  PROVE  LocalTypeOK'
<1>1. CASE WindowsEnd
  <2>1. Unsaved \in State
    BY DEF Unsaved, State
  <2>2. wbefore' \in State
    BY <1>1, <2>1, Zenon DEF WindowsEnd
  <2>3. password' \in BOOLEAN /\ leaving' \in BOOLEAN /\ outdated' \in BOOLEAN
    BY <1>1, Zenon DEF LocalTypeOK, WindowsEnd
  <2> QED
    BY <2>2, <2>3 DEF LocalTypeOK
<1>2. CASE WindowsGoto(step)
  BY <1>2, Zenon DEF LocalTypeOK, WindowsGoto
<1> QED
  BY <1>1, <1>2

LEMMA WindowsType ==
  ASSUME WindowsTypeOK, StepInv, [WindowsNext]_wvars
  PROVE  WindowsTypeOK'
<1> USE DEF WindowsTypeOK
<1>1. ASSUME NEW command \in {"default", "packaged"}, Install(command) PROVE WindowsTypeOK'
  <2>1. outdated' \in BOOLEAN
    BY <1>1, Zenon DEF Install
  <2>2. wtask' \in Task
    BY <1>1 DEF Install, Task
  <2> QED
    BY <1>1, <2>1, <2>2 DEF Install
<1>2. CASE QueryTask
  <2>1. TaskAnswers \subseteq {"default", "packaged", NoTask}
    BY DEF TaskAnswers, Task
  <2>2. wbefore' \in State
    BY <1>2, <2>1 DEF QueryTask, State
  <2> QED
    BY <1>2, <2>2 DEF QueryTask
<1>14. CASE QueryUser
  <2>1. PICK there \in UserAnswers : wbefore' = [wbefore EXCEPT !.user_created = ~ there]
    BY <1>14, Zenon DEF QueryUser
  <2>2. (~ there) \in BOOLEAN
    BY Zenon
  <2>3. wbefore' \in State
    BY <2>1, <2>2 DEF State
  <2> QED
    BY <1>14, <2>3 DEF QueryUser
<1>15. CASE SkipRevoke
  <2>1. LocalTypeOK'
    BY <1>15, LocalType DEF LocalTypeOK, SkipRevoke
  <2> QED
    BY <1>15, <2>1 DEF SkipRevoke, WindowsGoto, LocalTypeOK
<1>3. CASE EnsureUser
  <2>1. password' \in BOOLEAN
    <3>1. CASE WindowsEnd
      BY <3>1, Zenon DEF WindowsEnd
    <3>2. CASE ~ WindowsEnd
      <4>1. password' \in {TRUE} \cup (IF May("rotate") THEN {FALSE} ELSE {}) \/ password' = TRUE
        BY <1>3, <3>2, Zenon DEF EnsureUser
      <4> QED
        BY <4>1, Zenon
    <3> QED
      BY <3>1, <3>2
  <2>2. waccount' \in {"none", "made", "admins"} /\ wpc' \in {"save", "idle"}
    BY <1>3 DEF EnsureUser, WindowsEnd
  <2>3. wbefore' \in State /\ leaving' \in BOOLEAN /\ outdated' \in BOOLEAN
    <3>1. CASE WindowsEnd
      BY <3>1, LocalType DEF LocalTypeOK
    <3>2. CASE ~ WindowsEnd
      BY <1>3, <3>2, Zenon DEF EnsureUser
    <3> QED
      BY <3>1, <3>2
  <2> QED
    BY <1>3, <2>1, <2>2, <2>3 DEF EnsureUser
<1>4. CASE SaveWindowsState
  <2>1. LocalTypeOK'
    BY <1>4, LocalType DEF LocalTypeOK, SaveWindowsState
  <2>2. wpc' \in {"grant", "idle"} /\ wstate' \in State \cup {NoState}
    BY <1>4 DEF SaveWindowsState, WindowsGoto, WindowsEnd
  <2> QED
    BY <1>4, <2>1, <2>2 DEF SaveWindowsState, LocalTypeOK
<1>5. CASE Grant
  <2>1. LocalTypeOK'
    BY <1>5, LocalType DEF LocalTypeOK, Grant
  <2>2. granted' \in BOOLEAN
    BY <1>5, Zenon DEF Grant
  <2> QED
    BY <1>5, <2>1, <2>2 DEF Grant, WindowsGoto, LocalTypeOK
<1>6. CASE Rebind
  <2>1. LocalTypeOK'
    BY <1>6, LocalType DEF LocalTypeOK, Rebind
  <2>2. wtask' \in Task \cup {NoTask}
    BY <1>6 DEF Rebind, Task, TaskAnswers
  <2> QED
    BY <1>6, <2>1, <2>2 DEF Rebind, WindowsEnd, LocalTypeOK
<1>7. ASSUME NEW uninstall \in BOOLEAN, Revoke(uninstall) PROVE WindowsTypeOK'
  <2>1. leaving' \in BOOLEAN
    BY <1>7, Zenon DEF Revoke
  <2> QED
    BY <1>7, <2>1 DEF Revoke
<1>8. CASE RestoreTask
  <2>1. LocalTypeOK'
    BY <1>8, LocalType DEF LocalTypeOK, RestoreTask
  <2>2. wtask' \in Task \cup {NoTask}
    BY <1>8 DEF RestoreTask, Task, State, StepInv
  <2> QED
    BY <1>8, <2>1, <2>2 DEF RestoreTask, WindowsGoto, LocalTypeOK
<1>9. CASE DeleteUser
  <2>1. LocalTypeOK'
    BY <1>9, LocalType DEF LocalTypeOK, DeleteUser
  <2>2. granted' \in BOOLEAN /\ waccount' \in {"none", "made", "admins"}
    BY <1>9, Zenon DEF DeleteUser
  <2> QED
    BY <1>9, <2>1, <2>2 DEF DeleteUser, WindowsGoto, LocalTypeOK
<1>10. CASE ForgetState
  <2>1. LocalTypeOK'
    BY <1>10, LocalType DEF LocalTypeOK, ForgetState
  <2>2. wpc' \in {"uninstall", "idle"} /\ wstate' \in State \cup {NoState}
    BY <1>10 DEF ForgetState, WindowsGoto, WindowsEnd
  <2> QED
    BY <1>10, <2>1, <2>2 DEF ForgetState, LocalTypeOK
<1>11. CASE Uninstall
  <2>1. LocalTypeOK'
    BY <1>11, LocalType DEF LocalTypeOK, Uninstall
  <2>2. wtask' \in Task \cup {NoTask}
    BY <1>11 DEF Uninstall
  <2> QED
    BY <1>11, <2>1, <2>2 DEF Uninstall, WindowsEnd, LocalTypeOK
<1>12. CASE WindowsKill
  <2>1. LocalTypeOK'
    BY <1>12, LocalType DEF LocalTypeOK, WindowsKill
  <2> QED
    BY <1>12, <2>1 DEF WindowsKill, WindowsEnd, LocalTypeOK
<1>13. CASE UNCHANGED wvars
  BY <1>13 DEF wvars
<1> QED
  BY <1>1, <1>2, <1>3, <1>4, <1>5, <1>6, <1>7, <1>8, <1>9, <1>10, <1>11, <1>12, <1>13,
     <1>14, <1>15
     DEF WindowsNext

LEMMA StepStep ==
  ASSUME StepInv, [WindowsNext]_wvars
  PROVE  StepInv'
<1> USE DEF StepInv, WindowsEnd, WindowsGoto
<1>1. ASSUME NEW command \in {"default", "packaged"}, Install(command) PROVE StepInv'
  BY <1>1 DEF Install
<1>2. CASE QueryTask
  BY <1>2 DEF QueryTask
<1>3. CASE QueryUser
  BY <1>3 DEF QueryUser
<1>4. CASE EnsureUser
  BY <1>4 DEF EnsureUser
<1>5. CASE SaveWindowsState
  BY <1>5 DEF SaveWindowsState
<1>6. CASE Grant
  BY <1>6 DEF Grant
<1>7. CASE Rebind
  BY <1>7 DEF Rebind
<1>8. ASSUME NEW uninstall \in BOOLEAN, Revoke(uninstall) PROVE StepInv'
  BY <1>8 DEF Revoke
<1>9. CASE RestoreTask
  BY <1>9 DEF RestoreTask
<1>10. CASE DeleteUser
  BY <1>10 DEF DeleteUser
<1>11. CASE ForgetState
  BY <1>11 DEF ForgetState
<1>12. CASE SkipRevoke
  BY <1>12 DEF SkipRevoke
<1>13. CASE Uninstall
  BY <1>13 DEF Uninstall
<1>14. CASE WindowsKill
  BY <1>14 DEF WindowsKill
<1>15. CASE UNCHANGED wvars
  BY <1>15 DEF wvars
<1> QED
  BY <1>1, <1>2, <1>3, <1>4, <1>5, <1>6, <1>7, <1>8, <1>9, <1>10, <1>11,
     <1>12, <1>13, <1>14, <1>15
     DEF WindowsNext

LEMMA WindowsStep ==
  ASSUME WindowsInv, [WindowsNext]_wvars
  PROVE  WindowsInv'
BY WindowsType, StepStep DEF WindowsInv

(* Where net user does not fail, both questions have the same answer.       *)
LEMMA AccountStep ==
  ASSUME "query_user" \notin Faults, WindowsInv, AccountInv, [WindowsNext]_wvars
  PROVE  AccountInv'
<1> USE DEF WindowsInv, WindowsTypeOK, StepInv, AccountInv, State, WindowsEnd, WindowsGoto
<1>1. ASSUME NEW command \in {"default", "packaged"}, Install(command) PROVE AccountInv'
  BY <1>1 DEF Install
<1>2. CASE QueryTask
  BY <1>2 DEF QueryTask
<1>3. CASE QueryUser
  BY <1>3 DEF QueryUser, UserAnswers, May
<1>4. CASE EnsureUser
  BY <1>4 DEF EnsureUser, UserAnswers, May
<1>5. CASE SaveWindowsState
  BY <1>5 DEF SaveWindowsState
<1>6. CASE Grant
  BY <1>6 DEF Grant
<1>7. CASE Rebind
  BY <1>7 DEF Rebind
<1>8. ASSUME NEW uninstall \in BOOLEAN, Revoke(uninstall) PROVE AccountInv'
  BY <1>8 DEF Revoke
<1>9. CASE RestoreTask
  BY <1>9 DEF RestoreTask
<1>10. CASE DeleteUser
  BY <1>10 DEF DeleteUser
<1>11. CASE ForgetState
  BY <1>11 DEF ForgetState
<1>12. CASE SkipRevoke
  BY <1>12 DEF SkipRevoke
<1>13. CASE Uninstall
  BY <1>13 DEF Uninstall
<1>14. CASE WindowsKill
  BY <1>14 DEF WindowsKill
<1>15. CASE UNCHANGED wvars
  BY <1>15 DEF wvars
<1> QED
  BY <1>1, <1>2, <1>3, <1>4, <1>5, <1>6, <1>7, <1>8, <1>9, <1>10, <1>11,
     <1>12, <1>13, <1>14, <1>15
     DEF WindowsNext

(* Where schtasks tells the action.  Every command the task may have is     *)
(* told apart from no command.                                              *)
LEMMA CommandStep ==
  ASSUME "query_task" \notin Faults, WindowsInv, CommandInv, [WindowsNext]_wvars
  PROVE  CommandInv'
<1> USE ElevateAssumption
<1> USE DEF WindowsInv, WindowsTypeOK, StepInv, CommandInv, Command, Task, State, WindowsEnd,
            WindowsGoto
<1>1. ASSUME NEW command \in {"default", "packaged"}, Install(command) PROVE CommandInv'
  BY <1>1 DEF Install
<1>2. CASE QueryTask
  BY <1>2 DEF QueryTask, TaskAnswers, May
<1>3. CASE QueryUser
  <2>1. PICK there \in UserAnswers : wbefore' = [wbefore EXCEPT !.user_created = ~ there]
    BY <1>3, Zenon DEF QueryUser
  <2>2. PICK absent : wbefore' = [wbefore EXCEPT !.user_created = absent]
    BY <2>1, Zenon
  <2>3. wbefore'.command = wbefore.command
    BY <2>2
  <2> QED
    BY <1>3, <2>3 DEF QueryUser
<1>4. CASE EnsureUser
  <2>1. UNCHANGED <<wtask, wstate>>
    BY <1>4, Zenon DEF EnsureUser
  <2>2. outdated' = outdated
    BY <1>4, Zenon DEF EnsureUser
  <2>3. \/ wpc' = "idle"
        \/ wpc = "user" /\ wpc' = "save" /\ wbefore' = wbefore
    BY <1>4, Zenon DEF EnsureUser
  <2>4. CommandInv
    OBVIOUS
  <2> HIDE DEF WindowsInv, WindowsEnd, WindowsTypeOK
  <2> QED
    BY <2>1, <2>2, <2>3, <2>4
<1>5. CASE SaveWindowsState
  BY <1>5 DEF SaveWindowsState
<1>6. CASE Grant
  BY <1>6 DEF Grant
<1>7. CASE Rebind
  BY <1>7 DEF Rebind, TaskAnswers, May
<1>8. ASSUME NEW uninstall \in BOOLEAN, Revoke(uninstall) PROVE CommandInv'
  BY <1>8 DEF Revoke
<1>9. CASE RestoreTask
  BY <1>9 DEF RestoreTask
<1>10. CASE DeleteUser
  BY <1>10 DEF DeleteUser
<1>11. CASE ForgetState
  BY <1>11 DEF ForgetState
<1>12. CASE SkipRevoke
  BY <1>12 DEF SkipRevoke
<1>13. CASE Uninstall
  BY <1>13 DEF Uninstall
<1>14. CASE WindowsKill
  BY <1>14 DEF WindowsKill
<1>15. CASE UNCHANGED wvars
  BY <1>15 DEF wvars
<1> QED
  BY <1>1, <1>2, <1>3, <1>4, <1>5, <1>6, <1>7, <1>8, <1>9, <1>10, <1>11,
     <1>12, <1>13, <1>14, <1>15
     DEF WindowsNext

------------------------------------------------------------------------------
(* One host.                                                                *)

HInv == LinuxInv /\ WindowsInv

LEMMA HostInvariant == HostSpec => []HInv
<1>1. HostInit => HInv
  BY LinuxInit, WindowsStart DEF HostInit, HInv
<1>2. HInv /\ [HostNext]_allVars => HInv'
  <2> SUFFICES ASSUME HInv, [HostNext]_allVars PROVE HInv'
    OBVIOUS
  <2>1. [Next]_vars /\ [WindowsNext]_wvars
    BY DEF HostNext, allVars, vars, wvars
  <2> QED
    BY <2>1, LinuxStep, WindowsStep DEF HInv
<1> QED
  BY <1>1, <1>2, PTL DEF HostSpec

(* HostTypeOK for any set of calls that may fail.                           *)
THEOREM HostTypeCorrect == HostSpec => []HostTypeOK
<1>1. HInv => HostTypeOK
  BY DEF HInv, LinuxInv, WindowsInv, HostTypeOK
<1> QED
  BY <1>1, HostInvariant, PTL

(* However often elevate-linux is applied, revoked, killed or fails: what   *)
(* the last apply found is in the state file, or in place and the state     *)
(* file gone; but for a revoke that had none.                               *)
THEOREM NothingIsLost == HostSpec => []PreviousRecoverable
<1>1. HInv => PreviousRecoverable
  BY DEF HInv, LinuxInv
<1> QED
  BY <1>1, HostInvariant, PTL

(* A revoke that got through has put back what the last apply found.        *)
THEOREM RevokeRestores == HostSpec => []RevokeUndoesApply
<1>1. HInv => RevokeUndoesApply
  BY DEF HInv, LinuxInv
<1> QED
  BY <1>1, HostInvariant, PTL

(* As long as net user itself does not fail, elevate-windows --revoke never *)
(* deletes an account it did not make, whatever else fails.                 *)
THEOREM AccountSafe ==
  ASSUME "query_user" \notin Faults
  PROVE  HostSpec => AdminAccountKept
<1>1. HostInit => AccountInv
  BY WindowsStart DEF HostInit
<1>2. HInv /\ AccountInv /\ [HostNext]_allVars => AccountInv'
  <2> SUFFICES ASSUME HInv, AccountInv, [HostNext]_allVars PROVE AccountInv'
    OBVIOUS
  <2>1. [WindowsNext]_wvars
    BY DEF HostNext, allVars, wvars
  <2> QED
    BY <2>1, AccountStep DEF HInv
<1>3. ASSUME HInv, AccountInv, [HostNext]_allVars
      PROVE  [waccount = "admins" => waccount' = "admins"]_wvars
  <2>1. [WindowsNext]_wvars
    BY <1>3 DEF HostNext, allVars, wvars
  <2>2. CASE DeleteUser
    BY <1>3, <2>2 DEF DeleteUser, HInv, WindowsInv, StepInv, AccountInv, WindowsGoto
  <2>3. CASE EnsureUser
    BY <1>3, <2>3 DEF EnsureUser, WindowsEnd
  <2>4. CASE ~ DeleteUser /\ ~ EnsureUser
    BY <2>1, <2>4 DEF WindowsNext, wvars, Install, QueryTask, QueryUser, SaveWindowsState, Grant,
       Rebind, Revoke, RestoreTask, ForgetState, SkipRevoke, Uninstall, WindowsKill
  <2> QED
    BY <2>2, <2>3, <2>4
<1> QED
  BY <1>1, <1>2, <1>3, HostInvariant, PTL DEF HostSpec, AdminAccountKept

(* As long as schtasks tells the task's action, neither apply nor revoke    *)
(* changes what the task runs, whatever else fails, unless it was installed *)
(* anew while a state file was kept.                                        *)
THEOREM ActionSurvives ==
  ASSUME "query_task" \notin Faults
  PROVE  HostSpec => TaskCommandKept
<1>1. HostInit => CommandInv
  BY WindowsStart DEF HostInit
<1>2. HInv /\ CommandInv /\ [HostNext]_allVars => CommandInv'
  <2> SUFFICES ASSUME HInv, CommandInv, [HostNext]_allVars PROVE CommandInv'
    OBVIOUS
  <2>1. [WindowsNext]_wvars
    BY DEF HostNext, allVars, wvars
  <2> QED
    BY <2>1, CommandStep DEF HInv
<1>3. ASSUME HInv, CommandInv, [HostNext]_allVars
      PROVE  [wpc # "idle" /\ ~ outdated /\ wtask # NoTask /\ wtask' # NoTask
                => wtask'.command = wtask.command]_wvars
  <2>1. [WindowsNext]_wvars
    BY <1>3 DEF HostNext, allVars, wvars
  <2>2. CASE RestoreTask
    BY <1>3, <2>2 DEF RestoreTask, HInv, WindowsInv, StepInv, CommandInv, Command
  <2>3. CASE Rebind
    BY <1>3, <2>3, ElevateAssumption DEF Rebind, TaskAnswers, May, HInv, WindowsInv,
       WindowsTypeOK, Task
  <2>4. CASE ~ RestoreTask /\ ~ Rebind
    BY <2>1, <2>4 DEF WindowsNext, wvars, Install, QueryTask, QueryUser, EnsureUser,
       SaveWindowsState, Grant, Revoke, DeleteUser, ForgetState, SkipRevoke, Uninstall, WindowsKill
  <2> QED
    BY <2>2, <2>3, <2>4
<1> QED
  BY <1>1, <1>2, <1>3, HostInvariant, PTL DEF HostSpec, TaskCommandKept
==============================================================================
