---------------------------- MODULE ElevateLinux -----------------------------
(***************************************************************************)
(* `commatrix elevate-linux` and `--revoke` (commatrix/elevate_linux.py):  *)
(* apply remembers the files it is about to replace in a state file, then  *)
(* writes a systemd drop-in and a polkit rule; revoke puts back what the   *)
(* state file remembers.                                                   *)
(*                                                                         *)
(* One step is one file written or removed, or one call of systemctl.  A   *)
(* file is written in place, so a failed or killed write leaves part of    *)
(* it; the state file is replaced at once.  The command may be killed      *)
(* between any two steps and be run again, in either direction.  Dry runs  *)
(* and calls without root change nothing and are left out.                 *)
(***************************************************************************)
CONSTANT Absent   \* no such file

VARIABLES
  dropin,     \* the drop-in of the collector's unit
  polkit,     \* the polkit rule
  saved,      \* the state file
  account,    \* the service account exists
  unit,       \* the drop-in the running service was started with
  pc,         \* the step the command is at
  before,     \* apply: the files as it found them
  original,   \* history: the administrator's files
  found,      \* history: the files as the last apply that saved its state found them
  blind       \* history: since then a revoke had no state file to go by

files == [dropin |-> dropin, polkit |-> polkit]
vars  == <<dropin, polkit, saved, account, unit, pc, before, original, found, blind>>

Content == {Absent, "admins", "ours", "partial"}
Files   == [dropin : Content, polkit : Content]
Nothing == [dropin |-> Absent, polkit |-> Absent]

TypeOK ==
  /\ dropin \in Content /\ polkit \in Content
  /\ saved \in Files \cup {Absent}
  /\ account \in BOOLEAN
  /\ unit \in Content
  /\ pc \in {"idle", "save", "write_dropin", "write_polkit", "reload", "restore_dropin",
             "restore_polkit", "forget", "remove_dropin", "remove_polkit", "reload_revoked"}
  /\ before \in Files
  /\ original \in [dropin : {Absent, "admins"}, polkit : {Absent, "admins"}]
  /\ found \in Files
  /\ blind \in BOOLEAN

Init ==
  /\ dropin \in {Absent, "admins"} /\ polkit \in {Absent, "admins"}
  /\ original = files
  /\ saved = Absent
  /\ account \in BOOLEAN
  /\ unit = dropin
  /\ pc = "idle"
  /\ before = Nothing
  /\ found = files
  /\ blind = FALSE

history == <<original, found, blind>>

------------------------------------------------------------------------------
(* The command ends: done, an exception, or killed.                         *)
End == pc' = "idle" /\ before' = Nothing
Goto(step) == pc' = step /\ UNCHANGED before

Kill ==
  /\ pc # "idle"
  /\ End
  /\ UNCHANGED <<dropin, polkit, saved, account, unit, history>>

(* _write_file truncates, then writes; what goes wrong is an OSError.       *)
Botched(old, content) == content \in {old, "partial"}

------------------------------------------------------------------------------
(* apply_elevate                                                            *)

StartApply ==
  /\ pc = "idle"
  /\ before' = files
  /\ pc' = "save"
  /\ UNCHANGED <<dropin, polkit, saved, account, unit, history>>

(* _ensure_service_user only warns when useradd fails.                      *)
EnsureServiceUser == account' \in {account, TRUE}

(* Mutant: the state is saved with the last step, after the files.          *)
SaveLater ==
  /\ pc = "save"
  /\ EnsureServiceUser
  /\ UNCHANGED saved
  /\ Goto("write_dropin")
  /\ UNCHANGED <<dropin, polkit, unit, history>>

SaveState ==
  /\ pc = "save"
  /\ EnsureServiceUser
  /\ \/ /\ saved' = before /\ found' = before /\ blind' = FALSE
        /\ Goto("write_dropin")
     \/ UNCHANGED <<saved, found, blind>> /\ End
  /\ UNCHANGED <<dropin, polkit, unit, original>>

WriteDropin ==
  /\ pc = "write_dropin"
  /\ \/ dropin' = "ours" /\ Goto("write_polkit")
     \/ Botched(dropin, dropin') /\ End
  /\ UNCHANGED <<polkit, saved, account, unit, history>>

(* Here an OSError is a warning.                                            *)
WritePolkit ==
  /\ pc = "write_polkit"
  /\ \/ polkit' = "ours"
     \/ Botched(polkit, polkit')
  /\ Goto("reload")
  /\ UNCHANGED <<dropin, saved, account, unit, history>>

(* daemon-reload and try-restart; either may fail, which is a warning.      *)
Reload ==
  /\ pc \in {"reload", "reload_revoked"}
  /\ unit' \in {unit, dropin}
  /\ End
  /\ UNCHANGED <<dropin, polkit, saved, account, history>>

------------------------------------------------------------------------------
(* revoke_elevate                                                           *)

StartRevoke ==
  /\ pc = "idle"
  /\ Goto(IF saved = Absent THEN "remove_dropin" ELSE "restore_dropin")
  /\ blind' = (blind \/ saved = Absent)
  /\ UNCHANGED <<dropin, polkit, saved, account, unit, original, found>>

(* A file that was there is written back, one that was not is removed.      *)
PutBack(remembered, old, content, next) ==
  \/ content = remembered /\ Goto(next)
  \/ /\ IF remembered = Absent THEN content = old ELSE Botched(old, content)
     /\ End

RestoreDropin ==
  /\ pc = "restore_dropin"
  /\ PutBack(saved.dropin, dropin, dropin', "restore_polkit")
  /\ UNCHANGED <<polkit, saved, account, unit, history>>

(* Mutant: a rule that was not there before is left alone.                  *)
RestoreRuleOnly ==
  /\ pc = "restore_polkit"
  /\ PutBack(IF saved.polkit = Absent THEN polkit ELSE saved.polkit, polkit, polkit', "forget")
  /\ UNCHANGED <<dropin, saved, account, unit, history>>

RestorePolkit ==
  /\ pc = "restore_polkit"
  /\ PutBack(saved.polkit, polkit, polkit', "forget")
  /\ UNCHANGED <<dropin, saved, account, unit, history>>

RemoveState ==
  /\ pc = "forget"
  /\ saved' \in {saved, Absent}
  /\ Goto("reload_revoked")
  /\ UNCHANGED <<dropin, polkit, account, unit, history>>

(* Without a state file both files go, whosever they are.                   *)
RemoveDropin ==
  /\ pc = "remove_dropin"
  /\ \/ dropin' = Absent /\ Goto("remove_polkit")
     \/ UNCHANGED dropin /\ End
  /\ UNCHANGED <<polkit, saved, account, unit, history>>

RemovePolkit ==
  /\ pc = "remove_polkit"
  /\ \/ polkit' = Absent /\ Goto("reload_revoked")
     \/ UNCHANGED polkit /\ End
  /\ UNCHANGED <<dropin, saved, account, unit, history>>

------------------------------------------------------------------------------
Next ==
  \/ StartApply
  \/ SaveState
  \/ WriteDropin
  \/ WritePolkit
  \/ Reload
  \/ StartRevoke
  \/ RestoreDropin
  \/ RestorePolkit
  \/ RemoveState
  \/ RemoveDropin
  \/ RemovePolkit
  \/ Kill

Spec == Init /\ [][Next]_vars

------------------------------------------------------------------------------
(* Properties.                                                              *)

(* However often apply and revoke fail, are killed and are run again: what  *)
(* the last apply found is in the state file, or in place again and the     *)
(* state file gone.  Apply saves before it writes, and revoke forgets last. *)
(* Only a revoke without a state file, which removes both files, ends this. *)
PreviousRecoverable ==
  blind \/ saved = found \/ (saved = Absent /\ files = found)

(* A revoke that got through left what the last apply found, and where      *)
(* there was no state nothing at all.                                       *)
RevokeUndoesApply ==
  pc = "reload_revoked" => files = found \/ (blind /\ files = Nothing)
==============================================================================
