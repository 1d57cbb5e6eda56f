SPECIFICATION Spec
CONSTANTS
  s1 = s1  s2 = s2
  t1 = t1  t2 = t2
  p1 = p1
  Secrets <- OneSecret
  Processes <- OneProcess
  Threads <- TwoThreads
  Home <- SameProcess
  TTL = 1
  MaxSize = 1
  MaxCall = 1
  Events <- NoEvents
  MaxTime = 1
  MaxSeq = 2
INVARIANT OnlyProcessHoldsCurrent
CHECK_DEADLOCK FALSE
