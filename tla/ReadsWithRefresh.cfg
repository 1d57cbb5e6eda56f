SPECIFICATION Spec
CONSTANTS
  s1 = s1
  t1 = t1  t2 = t2
  p1 = p1
  Secrets <- OneSecret
  Processes <- OneProcess
  Threads <- TwoThreads
  Home <- SameProcess
  MaxSeq = 3
INVARIANTS TypeOK OutageTolerated RefreshedReadIsFresh
PROPERTY ImplementsReadThrough
