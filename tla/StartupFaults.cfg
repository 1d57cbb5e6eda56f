SPECIFICATION FairSpec
CONSTANTS
  p1 = p1  p2 = p2  p3 = p3
  NoOne = NoOne
  Processes <- TwoProcesses
  Secrets <- TwoSecrets
  Events <- AllEvents
  LockTTL = 1
  MarkerTTL = 2
INVARIANTS TypeOK ExclusionUntilLost NoWorkRepeated RunningLeaseExcludes MarkedMeansDone
PROPERTIES LockIsFreed WarmUpReachesAll LeaseOnlyRunsOut ImplementsWarmUp
