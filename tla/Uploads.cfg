CONSTANTS
  Id = {"u1"}
  Request = {"r1", "r2"}
  Chunk = {"a", "b"}
  MaxLen = 2
  Apart = TRUE
  MaxStops = 1
  None = None
SPECIFICATION FairSpec
CHECK_DEADLOCK FALSE
INVARIANT TypeOK
INVARIANT StoredMatches
INVARIANT FilesHaveSessions
INVARIANT StatusTruthful
INVARIANT RangesExact
PROPERTY FilesGo
