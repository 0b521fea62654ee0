\* Two connections of one edge; room for two events, two live flows' entries
\* would be one too many, and so would two ends.
CONSTANTS
  theEdge = theEdge
  Flows = {f1, f2}
  Edges = {theEdge}
  EdgeOf <- OneEdge
  MaxTraffic = 1
  MaxQueue = 2
  MaxActive = 1
  MaxDestroyed = 1
  MaxRestarts = 1
  OpenMayFail = TRUE
  None = None
SPECIFICATION FairSpec
INVARIANTS TypeOK ListenerFollows TrafficConserved
PROPERTIES OpenFlowsRecorded
