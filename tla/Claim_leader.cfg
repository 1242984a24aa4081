SPECIFICATION FairSpec
CONSTANTS
  s1 = s1
  s2 = s2
  s3 = s3
  x = x
  Server = {s1, s2, s3}
  Forced = {}
  None = None
  Variant = "redis"
  Commands = {}
  MaxTerm = 2
  MaxLog = 0
  MaxCalls = 1
  Overlaps = FALSE
CHECK_DEADLOCK FALSE
PROPERTIES NewLeader
