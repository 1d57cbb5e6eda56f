SPECIFICATION Spec
CONSTANTS
  s1 = s1
  t1 = t1  t2 = t2
  Secrets <- OneSecret
  Tasks <- OneTask
  Operations <- UncachedOps
  Events <- NoEvents
  Interval = 1
  MaxTime = 2
  MaxVersion = 2
INVARIANT NotDueMeansFresh
CHECK_DEADLOCK FALSE
