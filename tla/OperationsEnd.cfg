SPECIFICATION FairSpec
CONSTANTS
  s1 = s1
  t1 = t1  t2 = t2
  Secrets <- OneSecret
  Tasks <- TwoTasks
  Operations <- EndOps
  Events <- EndEvents
  Interval = 1
  MaxTime = 1
  MaxVersion = 2
PROPERTIES OperationsEnd OperationsGoForward
CHECK_DEADLOCK FALSE
