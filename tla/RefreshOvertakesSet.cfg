SPECIFICATION Spec
CONSTANTS
  s1 = s1
  t1 = t1  t2 = t2
  Secrets <- OneSecret
  Tasks <- TwoTasks
  Operations <- CachingOps
  Events <- NoEvents
  Interval = 1
  MaxTime = 1
  MaxVersion = 2
INVARIANT CacheNotOlderThanReported
CHECK_DEADLOCK FALSE
