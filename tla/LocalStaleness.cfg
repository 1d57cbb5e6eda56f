SPECIFICATION Spec
CONSTANTS
  s1 = s1  s2 = s2
  t1 = t1  t2 = t2
  p1 = p1
  Secrets <- TwoSecrets
  Processes <- OneProcess
  Threads <- TwoThreads
  Home <- SameProcess
  TTL = 1
  MaxSize = 1
  MaxCall = 1
  Events <- AllEvents
  MaxTime = 5
  MaxSeq = 2
SYMMETRY ThreadSymmetry
INVARIANTS TypeOK StalenessBounded OwnWritesSeen
PROPERTY ImplementsReadThrough
CHECK_DEADLOCK FALSE
