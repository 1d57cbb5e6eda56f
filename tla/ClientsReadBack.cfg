SPECIFICATION Spec
CONSTANTS
  user = user  password = password  short = short  pinned = pinned
  prefixed = prefixed  bare = bare  plain = plain
  azure = azure  aws = aws  filed = filed
  p1 = p1  p2 = p2  n1 = n1  full = full  empty = empty
  Rows <- AllRows
  Address <- Paths
  Config <- Configs
  Projects <- TwoProjects
  Names <- OneName
  Keys <- TwoKeys
  DefaultProject = p1
  Values <- Texts
  Empty = empty
  NoValue = NoValue
  NoBlock = NoBlock
  Events <- AllEvents
  MaxVersions = 3
INVARIANTS TypeOK ReadBack
PROPERTY PinnedStays
CHECK_DEADLOCK FALSE
