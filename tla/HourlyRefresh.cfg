SPECIFICATION Spec
CONSTANTS
  s1 = s1  s2 = s2
  Secrets <- TwoSecrets
  Interval <- OneAndTwo
  Hour = 4
  MaxDelay = 1
  MaxCall = 1
  Events <- AllEvents
INVARIANTS TypeOK DueIsTried CacheComesBack
