CONSTANTS
  Digest <- MCDigest
  Hash <- MCHash
  ShaOf <- MCShaOf
  GrowsTo <- MCGrowsTo
  Reference <- MCReference
  Release <- PushRelease
  RefOf <- PushRefOf
  Stamp <- PushStamp
  BlobsOf <- PushBlobsOf
  Own <- OwnLib
  FetchTask <- NoTask
  SweepTask <- OneSweep
  PushTask <- OnePush
  Cancellable <- NoTask
  Interruptible <- NoTask
  MayCrash = FALSE
  None = None
SPECIFICATION Spec
INVARIANT OwnPinned
