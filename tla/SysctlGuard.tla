----------------------------- MODULE SysctlGuard -----------------------------
(***************************************************************************)
(* Crash recovery of the host's nf_conntrack sysctls                       *)
(* (commatrix/conntrack.py, class SysctlGuard; commatrix/collector.py,     *)
(* run_loop; `commatrix restore-sysctls`, which systemd runs as the unit's *)
(* ExecStopPost).                                                          *)
(*                                                                         *)
(* A collector process reads the sysctls, writes what it read to a state   *)
(* file, switches accounting on, runs, and puts the originals back.  One   *)
(* step of the model is one file-system call of one process, so processes  *)
(* interleave, and a process may be killed, between any two calls.         *)
(*                                                                         *)
(* Abstractions.  A loop over the sysctls visits them in any order.  The   *)
(* JSON payload is the function it encodes.  While the state file is being *)
(* written it is "truncated": open("w") empties it, the buffered payload   *)
(* reaches it when it is closed.                                           *)
(***************************************************************************)
EXTENDS Naturals, FiniteSets

CONSTANTS
  Sysctls,     \* the managed sysctl files
  Procs,       \* processes that may run a collector or restore-sysctls
  Units,       \* those of Procs that systemd supervises
  Faults,      \* what may go wrong, see FaultKinds
  MaxCrashes   \* bound on kills and power losses

(* Writes that can fail: creating or filling the state file; a sysctl while *)
(* apply switches it on; while restore puts it back; while                  *)
(* restore_from_file puts it back.  "runtime": a unit whose ExecStopPost    *)
(* was killed ends, and systemd removes its RuntimeDirectory, with the      *)
(* state file in it.                                                        *)
FaultKinds == {"persist", "enable", "restore", "undo", "runtime"}

ASSUME SysctlGuardAssumption ==
  /\ Units \subseteq Procs
  /\ Faults \subseteq FaultKinds
  /\ MaxCrashes \in Nat

VARIABLES
  sysctl,      \* the host: value of every managed sysctl
  file,        \* state file: "missing", "truncated" or "valid"
  saved,       \* content of a valid state file
  opened,      \* processes whose open state file is still the one at the path
  pc,          \* where each process is
  todo,        \* sysctls the process's current loop has not visited yet
  originals,   \* SysctlGuard.originals ("absent": not read)
  changed,     \* SysctlGuard.changed: sysctls switched on, restore still owed
  payload,     \* what restore_from_file loaded
  unit,        \* systemd's view of the process
  crashes,     \* kills so far (bounded by MaxCrashes)
  baseline     \* history: what the administrator last set

host  == <<sysctl, baseline>>
disk  == <<file, saved, opened>>
local == <<todo, originals, changed, payload>>
vars  == <<sysctl, file, saved, opened, pc, todo, originals, changed, payload,
           unit, crashes, baseline>>

(* A readable flag, and what read_sysctl_flag returns (None is "absent").   *)
Flag    == {"on", "off"}
Reading == Flag \cup {"absent"}

PCs == {"idle", "recover", "load", "undo", "read", "persist", "fill", "enable",
        "running", "finally", "atexit"}

UnitStates == {"stopped", "active", "post", "post_failed", "restart"}

TypeOK ==
  /\ sysctl \in [Sysctls -> Reading]
  /\ baseline \in [Sysctls -> Reading]
  /\ file \in {"missing", "truncated", "valid"}
  /\ saved \in [Sysctls -> Reading]
  /\ opened \subseteq Procs
  /\ pc \in [Procs -> PCs]
  /\ todo \in [Procs -> SUBSET Sysctls]
  /\ originals \in [Procs -> [Sysctls -> Reading]]
  /\ changed \in [Procs -> SUBSET Sysctls]
  /\ payload \in [Procs -> [Sysctls -> Reading]]
  /\ unit \in [Procs -> UnitStates]
  /\ crashes \in 0..MaxCrashes

Unread == [x \in Sysctls |-> "absent"]

(* A host no collector has touched: any values, any of them unavailable.    *)
Init ==
  /\ sysctl \in [Sysctls -> Reading]
  /\ baseline = sysctl
  /\ file = "missing"
  /\ saved = Unread
  /\ opened = {}
  /\ pc = [p \in Procs |-> "idle"]
  /\ todo = [p \in Procs |-> {}]
  /\ originals = [p \in Procs |-> Unread]
  /\ changed = [p \in Procs |-> {}]
  /\ payload = [p \in Procs |-> Unread]
  /\ unit = [p \in Procs |-> "stopped"]
  /\ crashes = 0

------------------------------------------------------------------------------
(* Helpers.                                                                 *)

(* A process whose unit is past its main process runs restore-sysctls.      *)
IsHook(p) == unit[p] \in {"post", "post_failed"}

GoTo(p, label, work) ==
  /\ pc' = [pc EXCEPT ![p] = label]
  /\ todo' = [todo EXCEPT ![p] = work]

Visit(p, x) ==
  /\ x \in todo[p]
  /\ todo' = [todo EXCEPT ![p] = @ \ {x}]
  /\ UNCHANGED pc

(* write_sysctl_flag: the value is written, or (an OSError, allowed while   *)
(* `fault` is one of Faults) nothing happens.                               *)
WriteSucceeds(x, value) == sysctl' = [sysctl EXCEPT ![x] = value]
WriteFails(fault)       == fault \in Faults /\ UNCHANGED sysctl

(* _remove_file(state_file): absence is not an error.                       *)
RemoveStateFile ==
  /\ file' = "missing"
  /\ saved' = Unread
  /\ opened' = {}

(* systemd removes the unit's RuntimeDirectory after ExecStopPost, and with *)
(* it a state file that is where the default puts it.                       *)
RuntimeDirectoryRemoved(p) == p \in Units /\ IsHook(p) /\ RemoveStateFile

(* The end of a process.  systemd runs ExecStopPost after the main process  *)
(* however it ended, and restarts the unit only after a failure.            *)
UnitAfter(p, failed) ==
  CASE p \notin Units \/ unit[p] = "stopped" -> "stopped"
    [] unit[p] = "active" -> IF failed THEN "post_failed" ELSE "post"
    [] OTHER -> IF failed \/ unit[p] = "post_failed" THEN "restart" ELSE "stopped"

ProcessEnds(p, failed) ==
  /\ pc' = [pc EXCEPT ![p] = "idle"]
  /\ todo' = [todo EXCEPT ![p] = {}]
  /\ originals' = [originals EXCEPT ![p] = Unread]
  /\ changed' = [changed EXCEPT ![p] = {}]
  /\ payload' = [payload EXCEPT ![p] = Unread]
  /\ unit' = [unit EXCEPT ![p] = UnitAfter(p, failed)]

------------------------------------------------------------------------------
(* Starting.                                                                *)

(* run_loop reaches SysctlGuard(...).apply(): started by hand or by systemd *)
(* at boot ("stopped"), or restarted after a failure ("restart").           *)
StartCollector(p) ==
  /\ pc[p] = "idle"
  /\ unit[p] \in {"stopped", "restart"}
  /\ unit' = [unit EXCEPT ![p] = "active"]
  /\ GoTo(p, "recover", {})
  /\ UNCHANGED <<host, disk, originals, changed, payload, crashes>>

(* restore-sysctls: as the unit's ExecStopPost, or typed by an operator.    *)
StartRestoreCommand(p) ==
  /\ pc[p] = "idle"
  /\ unit[p] \in {"stopped", "post", "post_failed"}
  /\ unit' = [unit EXCEPT ![p] = IF @ = "stopped" THEN "post" ELSE @]
  /\ GoTo(p, "load", {})
  /\ UNCHANGED <<host, disk, originals, changed, payload, crashes>>

------------------------------------------------------------------------------
(* apply, first part: recover what an earlier run left.                     *)

(* Mutant: start from the current values and ignore a left-over state file. *)
SkipRecovery(p) ==
  /\ pc[p] = "recover"
  /\ GoTo(p, "read", Sysctls)
  /\ UNCHANGED <<host, disk, originals, changed, payload, unit, crashes>>

CheckStateFile(p) ==
  /\ pc[p] = "recover"
  /\ IF file # "missing" THEN GoTo(p, "load", {}) ELSE GoTo(p, "read", Sysctls)
  /\ UNCHANGED <<host, disk, originals, changed, payload, unit, crashes>>

(* restore_from_file returns: to apply, or from the restore command.        *)
AfterRecovery(p) ==
  \/ IsHook(p) /\ ProcessEnds(p, FALSE)
  \/ /\ ~IsHook(p)
     /\ GoTo(p, "read", Sysctls)
     /\ UNCHANGED <<originals, changed, payload, unit>>

(* Mutant: the payload is never understood, as if its format had changed.   *)
LoadNothing(p) ==
  /\ pc[p] = "load"
  /\ AfterRecovery(p)
  /\ UNCHANGED <<host, disk, crashes>>

(* restore_from_file: open and decode.  A file that is gone or does not     *)
(* decode is left alone and nothing is restored.                            *)
LoadStateFile(p) ==
  /\ pc[p] = "load"
  /\ \/ /\ file = "valid"
        /\ payload' = [payload EXCEPT ![p] = saved]
        /\ GoTo(p, "undo", {x \in Sysctls : saved[x] # "absent"})
        /\ UNCHANGED <<originals, changed, unit>>
        /\ UNCHANGED disk
     \/ /\ file # "valid"
        /\ AfterRecovery(p)
        /\ UNCHANGED disk \/ RuntimeDirectoryRemoved(p)
  /\ UNCHANGED <<host, crashes>>

(* One path of restore_from_file: skip it when it is unreadable or already  *)
(* as desired; a failed write is not remembered.                            *)
Undo(p, x) ==
  /\ pc[p] = "undo"
  /\ Visit(p, x)
  /\ \/ sysctl[x] \in {"absent", payload[p][x]} /\ UNCHANGED sysctl
     \/ /\ sysctl[x] \notin {"absent", payload[p][x]}
        /\ WriteSucceeds(x, payload[p][x]) \/ WriteFails("undo")
  /\ UNCHANGED <<baseline, disk, originals, changed, payload, unit, crashes>>

(* Mutant: the file is removed before the paths are written back.           *)
UnlinkBeforeUndo(p) ==
  /\ pc[p] = "undo"
  /\ RemoveStateFile
  /\ AfterRecovery(p)
  /\ UNCHANGED <<host, crashes>>

(* The file goes once every path was visited, whatever the writes returned. *)
UndoDone(p) ==
  /\ pc[p] = "undo"
  /\ todo[p] = {}
  /\ RemoveStateFile
  /\ AfterRecovery(p)
  /\ UNCHANGED <<host, crashes>>

------------------------------------------------------------------------------
(* apply, second part: read, persist, switch on.                            *)

(* Mutant: the raw content of the sysctl file is kept.                      *)
ReadRaw(p, x) ==
  /\ pc[p] = "read"
  /\ Visit(p, x)
  /\ originals' = [originals EXCEPT ![p][x] = IF sysctl[x] = "on" THEN "1" ELSE sysctl[x]]
  /\ UNCHANGED <<host, disk, changed, payload, unit, crashes>>

ReadOriginal(p, x) ==
  /\ pc[p] = "read"
  /\ Visit(p, x)
  /\ originals' = [originals EXCEPT ![p][x] = sysctl[x]]
  /\ UNCHANGED <<host, disk, changed, payload, unit, crashes>>

(* Sysctls that were off and will be switched on.                           *)
ToEnable(p) == {x \in Sysctls : originals[p][x] = "off"}

ReadDone(p) ==
  /\ pc[p] = "read"
  /\ todo[p] = {}
  /\ IF originals[p] # Unread THEN GoTo(p, "persist", {}) ELSE GoTo(p, "enable", {})
  /\ UNCHANGED <<host, disk, originals, changed, payload, unit, crashes>>

(* _write_state: makedirs and open("w").  An OSError is logged at debug     *)
(* level and apply goes on.                                                 *)
PersistOpen(p) ==
  /\ pc[p] = "persist"
  /\ \/ /\ file' = "truncated"
        /\ saved' = Unread
        /\ opened' = opened \cup {p}
        /\ GoTo(p, "fill", {})
     \/ /\ "persist" \in Faults
        /\ GoTo(p, "enable", ToEnable(p))
        /\ UNCHANGED disk
  /\ UNCHANGED <<host, originals, changed, payload, unit, crashes>>

(* The payload reaches the file on close; if another process removed the    *)
(* file meanwhile, it reaches an unlinked one.                              *)
PersistFill(p) ==
  /\ pc[p] = "fill"
  /\ \/ /\ p \in opened
        /\ file' = "valid"
        /\ saved' = originals[p]
     \/ /\ p \notin opened \/ "persist" \in Faults
        /\ UNCHANGED <<file, saved>>
  /\ opened' = opened \ {p}
  /\ GoTo(p, "enable", ToEnable(p))
  /\ UNCHANGED <<host, originals, changed, payload, unit, crashes>>

Enable(p, x) ==
  /\ pc[p] = "enable"
  /\ Visit(p, x)
  /\ \/ /\ WriteSucceeds(x, "on")
        /\ changed' = [changed EXCEPT ![p] = @ \cup {x}]
     \/ /\ WriteFails("enable")
        /\ UNCHANGED changed
  /\ UNCHANGED <<baseline, disk, originals, payload, unit, crashes>>

(* apply returns and _install_restore_handlers arms SIGTERM, SIGHUP and     *)
(* atexit.  A signal up to here takes its default action: see Crash.        *)
InstallHandlers(p) ==
  /\ pc[p] = "enable"
  /\ todo[p] = {}
  /\ GoTo(p, "running", {})
  /\ UNCHANGED <<host, disk, originals, changed, payload, unit, crashes>>

------------------------------------------------------------------------------
(* Leaving run_loop.                                                        *)

(* The loop ends (iterations done, a signal, an error).  Its finally block  *)
(* restores when something was changed; an exception raised earlier in that *)
(* block skips it and leaves only the atexit handler.                       *)
Stop(p) ==
  /\ pc[p] = "running"
  /\ \/ changed[p] # {} /\ GoTo(p, "finally", changed[p])
     \/ GoTo(p, "atexit", changed[p])
  /\ UNCHANGED <<host, disk, originals, changed, payload, unit, crashes>>

(* SIGTERM or SIGHUP raises KeyboardInterrupt inside finally.               *)
InterruptFinally(p) ==
  /\ pc[p] = "finally"
  /\ GoTo(p, "atexit", changed[p])
  /\ UNCHANGED <<host, disk, originals, changed, payload, unit, crashes>>

(* One path of restore: every value in `changed` is False.                  *)
RestoreOne(p, x) ==
  /\ pc[p] \in {"finally", "atexit"}
  /\ Visit(p, x)
  /\ \/ /\ WriteSucceeds(x, "off")
        /\ changed' = [changed EXCEPT ![p] = @ \ {x}]
     \/ /\ WriteFails("restore")
        /\ UNCHANGED changed
  /\ UNCHANGED <<baseline, disk, originals, payload, unit, crashes>>

(* restore returns: after the one in finally the interpreter still runs the *)
(* one in atexit, with whatever is still owed.                              *)
AfterRestore(p) ==
  \/ /\ pc[p] = "finally"
     /\ GoTo(p, "atexit", changed[p])
     /\ UNCHANGED <<originals, changed, payload, unit>>
  \/ /\ pc[p] = "atexit"
     /\ \E failed \in BOOLEAN : ProcessEnds(p, failed)

(* Mutant: restore keeps the state file.                                    *)
RestoreKeepsFile(p) ==
  /\ pc[p] \in {"finally", "atexit"}
  /\ todo[p] = {}
  /\ UNCHANGED disk
  /\ AfterRestore(p)
  /\ UNCHANGED <<host, crashes>>

(* The end of restore: with nothing left to put back the file goes.         *)
RestoreDone(p) ==
  /\ pc[p] \in {"finally", "atexit"}
  /\ todo[p] = {}
  /\ IF changed[p] = {} THEN RemoveStateFile ELSE UNCHANGED disk
  /\ AfterRestore(p)
  /\ UNCHANGED <<host, crashes>>

------------------------------------------------------------------------------
(* The environment.                                                         *)

(* SIGKILL or the OOM killer at any point; a signal before the handlers are *)
(* armed or inside the atexit handler.                                      *)
Crash(p) ==
  /\ pc[p] # "idle"
  /\ crashes < MaxCrashes
  /\ crashes' = crashes + 1
  /\ ProcessEnds(p, TRUE)
  /\ \/ opened' = opened \ {p} /\ UNCHANGED <<file, saved>>
     \/ "runtime" \in Faults /\ RuntimeDirectoryRemoved(p)
  /\ UNCHANGED host

(* Power loss: the sysctls come back with the administrator's values; the   *)
(* state file is gone when it lives on a tmpfs (the default, /run) and may  *)
(* survive elsewhere.                                                       *)
PowerLoss ==
  /\ crashes < MaxCrashes
  /\ crashes' = crashes + 1
  /\ sysctl' = baseline
  /\ \/ UNCHANGED <<file, saved>>
     \/ file' = "missing" /\ saved' = Unread
  /\ opened' = {}
  /\ pc' = [p \in Procs |-> "idle"]
  /\ todo' = [p \in Procs |-> {}]
  /\ originals' = [p \in Procs |-> Unread]
  /\ changed' = [p \in Procs |-> {}]
  /\ payload' = [p \in Procs |-> Unread]
  /\ unit' = [p \in Procs |-> "stopped"]
  /\ UNCHANGED baseline

(* The administrator changes the settings of a host on which no collector   *)
(* runs and no state file is left.                                          *)
AdminSet ==
  /\ \A p \in Procs : pc[p] = "idle" /\ unit[p] = "stopped"
  /\ file = "missing"
  /\ sysctl' \in {v \in [Sysctls -> Reading] :
                    \A x \in Sysctls : v[x] = "absent" <=> sysctl[x] = "absent"}
  /\ baseline' = sysctl'
  /\ UNCHANGED <<disk, pc, local, unit, crashes>>

------------------------------------------------------------------------------
(* A step of the process on its own initiative.                             *)
Progress(p) ==
  \/ CheckStateFile(p)
  \/ LoadStateFile(p)
  \/ UndoDone(p)
  \/ ReadDone(p)
  \/ PersistOpen(p)
  \/ PersistFill(p)
  \/ InstallHandlers(p)
  \/ RestoreDone(p)
  \/ \E x \in Sysctls :
       Undo(p, x) \/ ReadOriginal(p, x) \/ Enable(p, x) \/ RestoreOne(p, x)

Next ==
  \/ \E p \in Procs :
       \/ StartCollector(p)
       \/ StartRestoreCommand(p)
       \/ Progress(p)
       \/ Stop(p)
       \/ InterruptFinally(p)
       \/ Crash(p)
  \/ PowerLoss
  \/ AdminSet

(* systemd starts what it owes: ExecStopPost after the main process, the    *)
(* restart after a failure.  Operators and collectors owe nothing: a        *)
(* collector may run for ever.                                              *)
Supervise(p) ==
  \/ unit[p] \in {"post", "post_failed"} /\ StartRestoreCommand(p)
  \/ unit[p] = "restart" /\ StartCollector(p)

Fairness == \A p \in Procs : WF_vars(Progress(p)) /\ WF_vars(Supervise(p))

Spec     == Init /\ [][Next]_vars
FairSpec == Spec /\ Fairness

------------------------------------------------------------------------------
(* Properties.                                                              *)

(* "Because the originals are persisted to disk before anything is changed, *)
(* the host can be returned to its original state even if this process is   *)
(* SIGKILLed" (conntrack.py, SysctlGuard): whenever a sysctl differs from   *)
(* the administrator's value, a readable state file holds that value.       *)
BaselineRecoverable ==
  \A x \in Sysctls :
    sysctl[x] # baseline[x] => file = "valid" /\ saved[x] = baseline[x]

(* "so the 'original' we capture below is the true pre-commatrix baseline"  *)
(* (apply): no run ever takes a left-over "on" for the host's own setting.  *)
CapturedIsBaseline ==
  \A p \in Procs, x \in Sysctls : originals[p][x] \in {"absent", baseline[x]}

(* A collector that ends by itself, having restored everything it changed,  *)
(* leaves the administrator's values and no state file behind, whichever of *)
(* finally and atexit did the work.                                         *)
CleanExit ==
  [][\A p \in Procs :
       pc[p] = "atexit" /\ pc'[p] = "idle" /\ crashes' = crashes /\ changed[p] = {}
         => sysctl' = baseline /\ file' = "missing"]_vars

(* A supervised collector that ended, however it ended, gets its host back  *)
(* to the administrator's values, by ExecStopPost or by the recovery of the *)
(* restarted collector.                                                     *)
HostReturned ==
  \A p \in Procs : unit[p] \in {"post", "post_failed", "restart"} ~> sysctl = baseline
==============================================================================
