SPECIFICATION Spec
CONSTANTS
  user = user  password = password  short = short  pinned = pinned
  prefixed = prefixed  bare = bare  plain = plain
  azure = azure  aws = aws  filed = filed
  p1 = p1  p2 = p2  n1 = n1  full = full  empty = empty
  Rows <- GoogleRows
  Address <- Paths
  Config <- Configs
  Projects <- TwoProjects
  Names <- OneName
  Keys <- TwoKeys
  DefaultProject = p1
  Values <- Texts
  Empty = empty
  NoValue = NoValue
  NoBlock = NoBlock
  Events <- NoEvents
  MaxVersions = 3
INVARIANT ReadableIsWritable
CHECK_DEADLOCK FALSE
