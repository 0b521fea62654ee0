\* One supervised collector, two sysctls, two kills or power losses.  A write
\* that switches a sysctl on or puts it back may fail.
CONSTANTS
  Sysctls = {acct, timestamp}
  Procs = {service}
  Units = {service}
  Faults = {"enable", "restore"}
  MaxCrashes = 2
SPECIFICATION FairSpec
INVARIANTS TypeOK BaselineRecoverable CapturedIsBaseline
PROPERTIES CleanExit HostReturned
