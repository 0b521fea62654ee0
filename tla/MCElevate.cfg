\* Every call may fail but the two queries of apply, net user and schtasks /query.
CONSTANTS
  Absent = Absent
  NoTask = NoTask
  NoState = NoState
  Faults = {"adduser", "rotate", "save", "rebind", "restore", "deluser", "forget", "uninstall"}
SPECIFICATION HostSpec
INVARIANTS HostTypeOK PreviousRecoverable RevokeUndoesApply
PROPERTIES AdminAccountKept TaskCommandKept
