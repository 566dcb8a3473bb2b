CONSTANTS
  Id = {"u1"}
  Request = {"r1", "r2"}
  Chunk = {"a", "b"}
  MaxLen = 2
  Apart = FALSE
  MaxStops = 1
  None = None
SPECIFICATION FairSpec
CHECK_DEADLOCK FALSE
INVARIANT StoredMatches
