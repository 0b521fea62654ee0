\* One edge with one connection at a time, reopened at will.
CONSTANTS
  Edges = {web}
  MaxConns = 1
  MaxTraffic = 2
  MaxTime = 3
  MaxEvents = 2
  EventMinGap = 2
  Retention = 2
SPECIFICATION Spec
INVARIANTS TypeOK SnapshotCovered NeverOverestimates ExactWhileOpen GapsAccountedFor EventsMatchRow
PROPERTIES RowsOnlyGrow
