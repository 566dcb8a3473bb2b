CONSTANTS
  Digest <- MCDigest
  Hash <- MCHash
  ShaOf <- MCShaOf
  GrowsTo <- MCGrowsTo
  Reference <- MCReference
  Release <- PushRelease
  RefOf <- PushRefOf
  Stamp <- PushStamp
  BlobsOf <- PushBlobsOf
  Own <- OwnLib
  FetchTask <- OneFetch
  SweepTask <- OneSweep
  PushTask <- OnePush
  Cancellable <- OneFetch
  Interruptible <- OneSweep
  MayCrash = TRUE
  None = None
SPECIFICATION Spec
INVARIANT IndexTruthful
PROPERTY NoUnpinDuringFetch
