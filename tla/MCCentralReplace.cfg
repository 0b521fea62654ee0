\* One host with one edge, one importer at a time.
CONSTANTS
  Hosts = {alpha}
  Pushers = {}
  Edges = {web}
  Workers = {w1}
  NoRow = NoRow
  Nobody = Nobody
  MaxTime = 2
  MaxFaults = 1
SPECIFICATION Spec
INVARIANTS ReplacedWholesale
