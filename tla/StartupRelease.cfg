SPECIFICATION Spec
CONSTANTS
  p1 = p1  p2 = p2  p3 = p3
  NoOne = NoOne
  Processes <- ThreeProcesses
  Secrets <- OneSecret
  Events <- NoEvents
  LockTTL = 2
  MarkerTTL = 2
INVARIANT LeaseExcludes
CHECK_DEADLOCK FALSE
