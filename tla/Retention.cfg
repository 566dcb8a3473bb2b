SPECIFICATION RetentionSpec
CONSTANTS
  Tag <- ThreeTags
  Modes <- FullOrLast
  MaxTime = 3
INVARIANTS SelectExact NoThrash SyncSettles
