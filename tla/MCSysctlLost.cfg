\* The state file cannot be written; one kill.
CONSTANTS
  Sysctls = {acct}
  Procs = {service}
  Units = {service}
  Faults = {"persist"}
  MaxCrashes = 1
SPECIFICATION Spec
INVARIANTS CapturedIsBaseline
