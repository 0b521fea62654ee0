------------------------------ MODULE Elevate -------------------------------
(***************************************************************************)
(* The elevation commands of one host (commatrix/__main__.py): those for   *)
(* the other platform refuse to run.                                       *)
(***************************************************************************)
EXTENDS ElevateLinux, ElevateWindows

VARIABLE platform   \* IS_LINUX or IS_WINDOWS

allVars == <<platform, vars, wvars>>

HostInit ==
  /\ platform \in {"linux", "windows"}
  /\ Init
  /\ WindowsInit

HostNext ==
  \/ platform = "linux" /\ Next /\ UNCHANGED <<platform, wvars>>
  \/ platform = "windows" /\ WindowsNext /\ UNCHANGED <<platform, vars>>

HostSpec == HostInit /\ [][HostNext]_allVars

HostTypeOK == TypeOK /\ WindowsTypeOK

(* "Revoke restores the previous drop-in/polkit (Linux) or SYSTEM task      *)
(* (Windows) from the state file" (docs/elevation-en.md): a revoke that had *)
(* a state file to go by leaves the files of the time before any elevation, *)
(* and no task that runs as an account that is gone.  Not so: an apply run  *)
(* again saves what the first one wrote, and the account is deleted also    *)
(* where the SYSTEM task could not be created.                              *)
RevokePutsBack ==
  /\ pc = "reload_revoked" /\ ~ blind => files = original
  /\ waccount = "none" => wtask = NoTask \/ wtask.as = "SYSTEM"
==============================================================================
