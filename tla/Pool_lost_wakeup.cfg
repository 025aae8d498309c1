SPECIFICATION FairSpec
CONSTANTS
  t1 = t1
  t2 = t2
  t3 = t3
  Threads = {t1, t2}
  PoolSize = 2
  CacheCap = 4
  Batch = 2
  Ops = 1
  MaxHeld = 1
CHECK_DEADLOCK FALSE
PROPERTIES
  AllJoined
