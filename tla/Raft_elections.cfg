SPECIFICATION Spec
CONSTANTS
  s1 = s1
  s2 = s2
  s3 = s3
  x = x
  Server = {s1, s2, s3}
  Forced = {s1}
  None = None
  Variant = "redis"
  Commands <- Changes
  MaxTerm = 1
  MaxLog = 1
  MaxCalls = 2
SYMMETRY Symmetry
CONSTRAINT NoClash
CHECK_DEADLOCK FALSE
INVARIANTS TypeOK OneWinner CommittedKept IndexInLog
PROPERTIES VotesAreFinal
CONSTANTS Overlaps = FALSE
