\* Every back-end at rest, some while connections change, and the monitors.
CONSTANTS
  Internal = {"cli"}
  NoProcess = NoProcess
  Unlabelled = Unlabelled
  Nothing = Nothing
  Names = {"a.example", "b.example"}
  Addresses = {"srv"}
  Ech = "<ech>"
  NoName = NoName
  TTL = 1
  MaxBuffer = 1
  MaxNames = 0
  Batch = 2
  Retention = 1
  MaxTime = 2
  MaxEvents = 2
  MaxLog = 2
  Connections <- MCConnections
  Listeners <- MCListeners
  Setups <- MCSetups
SPECIFICATION PollSpec
INVARIANTS PollTypeOK KeyedByListeningSide QualityHonest  LoggedOnce
PROPERTIES NamesFresh EventuallyLogged
