CONSTANTS
  Digest <- SmallDigest
  Hash <- SmallHash
  ShaOf <- SmallShaOf
  GrowsTo <- SmallGrowsTo
  Reference <- OneReference
  Release <- OneImage
  RefOf <- SmallRefOf
  Stamp <- SmallStamp
  BlobsOf <- SmallBlobsOf
  Own <- NoRelease
  FetchTask <- TwoFetches
  SweepTask <- OneSweep
  PushTask <- NoTask
  Cancellable <- OneFetch
  Interruptible <- NoTask
  MayCrash = FALSE
  None = None
SPECIFICATION FairSpec
PROPERTY InflightReleased
