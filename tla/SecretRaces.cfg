SPECIFICATION Spec
CONSTANTS
  s1 = s1
  t1 = t1  t2 = t2
  Secrets <- OneSecret
  Tasks <- TwoTasks
  Operations <- OperationKinds
  Events <- RaceEvents
  Interval = 1
  MaxTime = 2
  MaxVersion = 2
SYMMETRY TaskSymmetry
INVARIANTS TypeOK SyncedRowIsOneRefresh CoherentWhenQuiet CoherentCacheNotRolledBack OneChangeApart
PROPERTIES StampsMoveForward ImplementsCachedSecret
CHECK_DEADLOCK FALSE
