\* One host with two edges that pushes and whose copies are aggregated as well, two
\* importers at a time.
CONSTANTS
  Hosts = {alpha}
  Pushers = {alpha}
  Edges = {web, dns}
  Workers = {w1, w2}
  NoRow = NoRow
  Nobody = Nobody
  MaxTime = 2
  MaxFaults = 1
SPECIFICATION Spec
INVARIANTS TypeOK AnsweredMeansMerged
PROPERTIES MergesLikeView PushesAreAtomic EveryPushAnswered EventuallyCurrent
