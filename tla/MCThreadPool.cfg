CONSTANTS
  NUM_SHARDS = 2
  Producers = {p1, p2}
  Tasks = {t1, t2, t3}
  NoTask = NoTask
SPECIFICATION FairPoolSpec
INVARIANTS
  PoolTypeOK
  PoolInv
  InOrderOnce
  JoinedIsOver
PROPERTIES
  EnqueuedStarts
  DestructorReturns
CHECK_DEADLOCK FALSE
