CONSTANTS
  Digest <- MCDigest
  Hash <- MCHash
  ShaOf <- MCShaOf
  GrowsTo <- MCGrowsTo
  Reference <- MCReference
  Release <- MCRelease
  RefOf <- MCRefOf
  Stamp <- MCStamp
  BlobsOf <- MCBlobsOf
  Own <- NoRelease
  FetchTask <- OneFetch
  SweepTask <- OneSweep
  PushTask <- NoTask
  Cancellable <- NoTask
  Interruptible <- OneSweep
  MayCrash = FALSE
  None = None
SPECIFICATION Spec
INVARIANT StoredPinned
