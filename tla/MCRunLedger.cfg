\* One run, no signal, no error: it ends after its last iteration.
CONSTANTS
  events = events
  dns = dns
  Monitors <- DnsOnly
  Retrying = {dns}
  Iterations = 1
  MaxSignals = 0
  MaxRuns = 1
  MaxTime = 1
  MaxCycle = 1
  Errors = FALSE
  None = None
SPECIFICATION Spec
INVARIANTS CleanShutdownIsRecorded
CHECK_DEADLOCK FALSE
