SPECIFICATION Spec
CONSTANTS
  t1 = t1
  t2 = t2
  t3 = t3
  Threads = {t1, t2, t3}
  PoolSize = 5
  CacheCap = 3
  Batch = 2
  Ops = 4
  MaxHeld = 4
CHECK_DEADLOCK FALSE
SYMMETRY Symmetry
INVARIANTS
  PoolInv
  EveryObjectOnce
  CacheFits
  WaitersExact
