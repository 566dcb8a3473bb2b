CONSTANTS
  Digest <- MCDigest
  Hash <- MCHash
  ShaOf <- MCShaOf
  GrowsTo <- MCGrowsTo
  Reference <- OneReference
  Release <- OneImage
  RefOf <- SmallRefOf
  Stamp <- SmallStamp
  BlobsOf <- SharedBlobsOf
  Own <- NoRelease
  FetchTask <- TwoFetches
  SweepTask <- OneSweep
  PushTask <- NoTask
  Cancellable <- NoTask
  Interruptible <- NoTask
  MayCrash = FALSE
  None = None
SPECIFICATION FairSpec
INVARIANT TypeOK
INVARIANT StoredPinned
PROPERTY ReplicaNeverRollsBack
PROPERTY InflightReleased
