--------------------------- MODULE ElevateWindows ----------------------------
(***************************************************************************)
(* The collector's scheduled task on Windows: `install-windows` and        *)
(* `uninstall-windows` (platform/win/runtime.py) and `elevate-windows`     *)
(* with `--revoke` (platform/win/elevate.py), which rebinds the task from  *)
(* SYSTEM to a local account of its own and back.                          *)
(*                                                                         *)
(* One step is one call of schtasks or net user, or one write of the state *)
(* file.  Each may fail, most with a warning only, and the command may be  *)
(* killed between any two.  A failed query looks like a task or an account *)
(* that is not there.  Group membership, the debug privilege, the DNS      *)
(* channel and the directory's ACL are grants that nothing here reads      *)
(* back; they are one set, and no revoke takes them away.                  *)
(***************************************************************************)
CONSTANTS
  NoTask,     \* the task is not registered
  NoState,    \* no state file
  Faults      \* which calls may fail: "query_task", "query_user", "adduser", "restore", ...

ASSUME ElevateAssumption == NoTask \notin {"default", "packaged"}

VARIABLES
  wtask,      \* the scheduled task: the account it runs as, and its action
  waccount,   \* the local account: there is none, commatrix made it, or it was there
  granted,    \* the account has (some of) its grants
  wstate,     \* the state file
  wpc,        \* the step the command is at
  wbefore,    \* apply: what it will save
  password,   \* apply: it knows the account's password
  leaving,    \* the command is uninstall-windows
  outdated    \* history: the task was installed anew while a state file was kept

wvars == <<wtask, waccount, granted, wstate, wpc, wbefore, password, leaving, outdated>>

Task  == [as : {"SYSTEM", "commatrix"}, command : {"default", "packaged"}]
State == [command : {"default", "packaged", NoTask}, user_created : BOOLEAN]

Unsaved == [command |-> NoTask, user_created |-> FALSE]

WindowsTypeOK ==
  /\ wtask \in Task \cup {NoTask}
  /\ waccount \in {"none", "made", "admins"}
  /\ granted \in BOOLEAN
  /\ wstate \in State \cup {NoState}
  /\ wpc \in {"idle", "existed", "user", "save", "grant", "rebind", "restore", "delete_user",
              "forget", "uninstall"}
  /\ wbefore \in State
  /\ password \in BOOLEAN
  /\ leaving \in BOOLEAN /\ outdated \in BOOLEAN

(* The task may be registered by a package with an action of its own.       *)
WindowsInit ==
  /\ wtask \in [as : {"SYSTEM"}, command : {"default", "packaged"}] \cup {NoTask}
  /\ waccount \in {"none", "admins"}
  /\ granted = FALSE
  /\ wstate = NoState
  /\ wpc = "idle"
  /\ wbefore = Unsaved
  /\ password = FALSE
  /\ leaving = FALSE
  /\ outdated = FALSE

May(fault) == fault \in Faults

WindowsEnd ==
  /\ wpc' = "idle"
  /\ wbefore' = Unsaved
  /\ password' = FALSE
  /\ leaving' = FALSE
  /\ UNCHANGED outdated

WindowsGoto(step) == wpc' = step /\ UNCHANGED <<wbefore, password, leaving, outdated>>

WindowsKill ==
  /\ wpc # "idle"
  /\ WindowsEnd
  /\ UNCHANGED <<wtask, waccount, granted, wstate>>

------------------------------------------------------------------------------
(* install_service: schtasks /create /f.                                    *)
Install(command) ==
  /\ wpc = "idle"
  /\ wtask' = [as |-> "SYSTEM", command |-> command]
  /\ outdated' = (outdated \/ wstate # NoState)
  /\ UNCHANGED <<waccount, granted, wstate, wpc, wbefore, password, leaving>>

(* What schtasks says the task runs.  NoTask also when the call fails, or   *)
(* answers in another language than English, Czech and German.              *)
TaskAnswers ==
  {IF wtask = NoTask THEN NoTask ELSE wtask.command}
    \cup (IF May("query_task") THEN {NoTask} ELSE {})

(* Whether net says the account is there: any failure is taken for a no.    *)
UserAnswers == {waccount # "none"} \cup (IF May("query_user") THEN {FALSE} ELSE {})

(* apply_elevate.  Whom the task ran as is asked and saved too, but nothing *)
(* reads it back.                                                           *)
QueryTask ==
  /\ wpc = "idle"
  /\ \E command \in TaskAnswers : wbefore' = [command |-> command, user_created |-> FALSE]
  /\ wpc' = "existed"
  /\ UNCHANGED <<wtask, waccount, granted, wstate, password, leaving, outdated>>

(* Mutant: the account is taken for new whatever net said.                  *)
QueryAssumingNew ==
  /\ wpc = "existed"
  /\ wbefore' = [wbefore EXCEPT !.user_created = TRUE]
  /\ wpc' = "user"
  /\ UNCHANGED <<wtask, waccount, granted, wstate, password, leaving, outdated>>

QueryUser ==
  /\ wpc = "existed"
  /\ \E there \in UserAnswers : wbefore' = [wbefore EXCEPT !.user_created = ~ there]
  /\ wpc' = "user"
  /\ UNCHANGED <<wtask, waccount, granted, wstate, password, leaving, outdated>>

(* _ensure_user asks again, then sets a new password or adds the account,   *)
(* which fails where there is one.  Only a failed creation ends the command.*)
EnsureUser ==
  /\ wpc = "user"
  /\ \E there \in UserAnswers :
       \/ /\ there
          /\ password' \in {TRUE} \cup (IF May("rotate") THEN {FALSE} ELSE {})
          /\ wpc' = "save"
          /\ UNCHANGED <<waccount, wbefore, leaving, outdated>>
       \/ /\ ~ there /\ waccount = "none"
          /\ waccount' = "made" /\ password' = TRUE /\ wpc' = "save"
          /\ UNCHANGED <<wbefore, leaving, outdated>>
       \/ /\ ~ there /\ (waccount # "none" \/ May("adduser"))
          /\ WindowsEnd
          /\ UNCHANGED waccount
  /\ UNCHANGED <<wtask, granted, wstate>>

SaveWindowsState ==
  /\ wpc = "save"
  /\ \/ wstate' = wbefore /\ WindowsGoto("grant")
     \/ May("save") /\ UNCHANGED wstate /\ WindowsEnd
  /\ UNCHANGED <<wtask, waccount, granted>>

(* Event Log Readers, SeDebugPrivilege, DNS channel, ACL: best effort.      *)
Grant ==
  /\ wpc = "grant"
  /\ granted' \in {TRUE, granted}
  /\ WindowsGoto("rebind")
  /\ UNCHANGED <<wtask, waccount, wstate>>

(* Mutant: the rebound task gets the default action.                        *)
RebindDefault ==
  /\ wpc = "rebind"
  /\ \/ password /\ wtask' = [as |-> "commatrix", command |-> "default"]
     \/ (~ password \/ May("rebind")) /\ UNCHANGED wtask
  /\ WindowsEnd
  /\ UNCHANGED <<waccount, granted, wstate>>

(* Mutant: it gets the action that was saved, also where there was no task. *)
RebindSaved ==
  /\ wpc = "rebind"
  /\ \/ password /\ wtask' = [as |-> "commatrix", command |-> wbefore.command]
     \/ (~ password \/ May("rebind")) /\ UNCHANGED wtask
  /\ WindowsEnd
  /\ UNCHANGED <<waccount, granted, wstate>>

(* _rebind_task asks for the action again and takes the default if there is *)
(* none; without a password the task is left as it is.                      *)
Rebind ==
  /\ wpc = "rebind"
  /\ \/ /\ password
        /\ \E command \in TaskAnswers :
             wtask' = [as      |-> "commatrix",
                       command |-> IF command = NoTask THEN "default" ELSE command]
     \/ (~ password \/ May("rebind")) /\ UNCHANGED wtask
  /\ WindowsEnd
  /\ UNCHANGED <<waccount, granted, wstate>>

------------------------------------------------------------------------------
(* revoke_elevate, by itself or as the first half of uninstall-windows.     *)
(* Without a state file it only warns.                                      *)
Revoke(uninstall) ==
  /\ wpc = "idle"
  /\ wstate # NoState \/ uninstall
  /\ wpc' = IF wstate = NoState THEN "uninstall" ELSE "restore"
  /\ leaving' = uninstall
  /\ UNCHANGED <<wtask, waccount, granted, wstate, wbefore, password, outdated>>

RestoreTask ==
  /\ wpc = "restore"
  /\ \/ wtask' = [as      |-> "SYSTEM",
                  command |-> IF wstate.command = NoTask THEN "default" ELSE wstate.command]
     \/ May("restore") /\ UNCHANGED wtask
  /\ WindowsGoto("delete_user")
  /\ UNCHANGED <<waccount, granted, wstate>>

DeleteUser ==
  /\ wpc = "delete_user"
  /\ \/ wstate.user_created /\ waccount' = "none" /\ granted' = FALSE
     \/ (~ wstate.user_created \/ May("deluser")) /\ UNCHANGED <<waccount, granted>>
  /\ WindowsGoto("forget")
  /\ UNCHANGED <<wtask, wstate>>

ForgetState ==
  /\ wpc = "forget"
  /\ wstate' \in {NoState} \cup (IF May("forget") THEN {wstate} ELSE {})
  /\ IF leaving THEN WindowsGoto("uninstall") ELSE WindowsEnd
  /\ UNCHANGED <<wtask, waccount, granted>>

(* An exception ends revoke; uninstall-windows goes on.                     *)
SkipRevoke ==
  /\ leaving /\ wpc \in {"restore", "delete_user", "forget"}
  /\ WindowsGoto("uninstall")
  /\ UNCHANGED <<wtask, waccount, granted, wstate>>

(* uninstall_service: schtasks /delete.                                     *)
Uninstall ==
  /\ wpc = "uninstall"
  /\ wtask' \in {NoTask} \cup (IF May("uninstall") THEN {wtask} ELSE {})
  /\ WindowsEnd
  /\ UNCHANGED <<waccount, granted, wstate>>

------------------------------------------------------------------------------
WindowsNext ==
  \/ \E command \in {"default", "packaged"} : Install(command)
  \/ QueryTask
  \/ QueryUser
  \/ EnsureUser
  \/ SaveWindowsState
  \/ Grant
  \/ Rebind
  \/ \E uninstall \in BOOLEAN : Revoke(uninstall)
  \/ RestoreTask
  \/ DeleteUser
  \/ ForgetState
  \/ SkipRevoke
  \/ Uninstall
  \/ WindowsKill

WindowsSpec == WindowsInit /\ [][WindowsNext]_wvars

------------------------------------------------------------------------------
(* Properties.                                                              *)

(* An account that was there before commatrix is never deleted, however     *)
(* apply and revoke are repeated, fail or are killed.  Holds as long as net *)
(* user itself does not fail: the two questions are then one, and apply     *)
(* never claims an account that another one made.                           *)
AdminAccountKept ==
  [][waccount = "admins" => waccount' = "admins"]_wvars

(* Elevating and revoking change whom the task runs as, never what it runs, *)
(* unless the task was installed anew while elevated: revoke goes by its    *)
(* state file.  Holds as long as apply can read the task's action; whatever *)
(* else fails on the way, a package's own action survives.                  *)
TaskCommandKept ==
  [][wpc # "idle" /\ ~ outdated /\ wtask # NoTask /\ wtask' # NoTask
       => wtask'.command = wtask.command]_wvars
==============================================================================
