\* Only binding the task to SYSTEM again may fail; on Linux any step.
CONSTANTS
  Absent = Absent
  NoTask = NoTask
  NoState = NoState
  Faults = {"restore"}
SPECIFICATION HostSpec
INVARIANTS RevokePutsBack
