SPECIFICATION BothSpec
CONSTANTS
  Cap = 4
  Modulus = 8
  LateLoad = TRUE
  Total = 20
  t1 = t1
  t2 = t2
  t3 = t3
  Workers = {t1, t2, t3}
  PoolSize = 6
  CacheCap = 4
  Batch = 2
  Ops = 3
INVARIANTS
  PacketsConserved
  AllInOrder
  AlwaysRoom
  NothingLost
  NeverEmpty
PROPERTIES
  PipelineEnds
  PoolEnds
