\* Two short flows of one edge, one after the other, nothing lost.
CONSTANTS
  theEdge = theEdge
  Flows = {f1, f2}
  Edges = {theEdge}
  EdgeOf <- OneEdge
  MaxTraffic = 2
  MaxQueue = 2
  MaxActive = 2
  MaxDestroyed = 2
  MaxRestarts = 0
  OpenMayFail = FALSE
  None = None
SPECIFICATION Spec
INVARIANTS EndedFlowsCounted
