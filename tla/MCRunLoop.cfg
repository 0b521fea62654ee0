\* Two runs of two cycles, two monitors, one signal; anything may raise.
CONSTANTS
  events = events
  dns = dns
  Monitors <- EventsAndDns
  Retrying = {dns}
  Iterations = 2
  MaxSignals = 1
  MaxRuns = 2
  MaxTime = 3
  MaxCycle = 1
  Errors = TRUE
  None = None
SPECIFICATION FairSpec
INVARIANTS TypeOK BlindSpotHonest NothingOwedAtExit
PROPERTIES ClosedSessionsStay RunsEnd
CHECK_DEADLOCK FALSE
