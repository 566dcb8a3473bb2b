------------------------- MODULE ContentStoreProofs -------------------------
(***************************************************************************)
(* Proofs about ContentStore, for every set of releases, digests and       *)
(* tasks.                                                                  *)
(***************************************************************************)
EXTENDS ContentStore, TLAPS

\* What the blobs of a release look like.
LEMMA BlobType ==
  ASSUME NEW r \in Release, NEW i \in Positions(r)
  PROVE  BlobsOf[r][i] \in BlobPair
  BY StoreAssumption DEF Positions

\* The manifest of a release is one of its blobs.
LEMMA ManifestType ==
  ASSUME NEW r \in Release
  PROVE  1 \in Positions(r) /\ BlobsOf[r][1] \in BlobPair
<1>1. BlobsOf[r] \in Seq(BlobPair) /\ Len(BlobsOf[r]) > 0
  BY StoreAssumption
<1>2. 1 \in Positions(r)
  BY <1>1 DEF Positions
<1>. QED  BY <1>2, BlobType

\* The release an idle task stands at is a release.
LEMMA AnyReleaseType == AnyRelease \in Release
  BY StoreAssumption DEF AnyRelease

Shape == TypeOK /\ PositionInv

\* The daemon starts in a state of the right shape.
LEMMA ShapeInit == Init => Shape
  BY AnyReleaseType DEF Init, Shape, TypeOK, PositionInv, FetchStep, Holding,
     SweepStep, Sweeping, PushStep

\* A step of a fetch keeps the shape of the state.
LEMMA ShapeFetch ==
  ASSUME Shape, NEW t \in FetchTask,
         \/ \E r \in Release \ Own : FetchStart(t, r)
         \/ FetchStepOf(t)
         \/ FetchCancel(t)
  PROVE  Shape'
<1>. USE DEF Shape, TypeOK, PositionInv, FetchStep, Holding, durable, locks,
     svars, pvars, FetchDone
<1>1. ASSUME NEW r \in Release \ Own, FetchStart(t, r) PROVE Shape'
  BY <1>1 DEF FetchStart
<1>2. CASE FetchClaim(t)
  <2>1. RefOf[frel[t]] \in Reference
    BY StoreAssumption
  <2>. QED  BY <1>2, <2>1 DEF FetchClaim
<1>3. CASE FetchLock(t)
  BY <1>3 DEF FetchLock
<1>4. CASE FetchCheck(t)
  <2>1. FBlob(t).hash \in Hash
    BY <1>4, BlobType DEF FetchCheck, FBlob, BlobPair
  <2>. QED  BY <1>4, <2>1 DEF FetchCheck
<1>5. CASE FetchDownload(t)
  <2>1. FBlob(t).hash \in Hash
    BY <1>5, BlobType DEF FetchDownload, FBlob, BlobPair
  <2>. QED  BY <1>5, <2>1 DEF FetchDownload
<1>6. CASE FetchVerify(t)
  BY <1>6 DEF FetchVerify
<1>7. CASE FetchPin(t)
  <2>1. FBlob(t).hash \in Hash
    BY <1>7, BlobType DEF FetchPin, FBlob, BlobPair
  <2>. QED  BY <1>7, <2>1 DEF FetchPin
<1>8. CASE FetchIndex(t)
  <2>1. [hash |-> FBlob(t).hash, typed |-> TRUE] \in IndexEntry
    BY <1>8, BlobType DEF FetchIndex, FBlob, BlobPair, IndexEntry
  <2>2. index' \in [Digest -> IndexEntry \cup {None}]
    BY <1>8, <2>1 DEF FetchIndex
  <2>. QED  BY <1>8, <2>2 DEF FetchIndex
<1>9. CASE FetchCompare(t)
  BY <1>9 DEF FetchCompare
<1>10. CASE FetchWrite(t)
  BY <1>10 DEF FetchWrite
<1>11. CASE FetchFail(t)
  BY <1>11 DEF FetchFail
<1>12. CASE FetchUnclaim(t)
  BY <1>12, AnyReleaseType DEF FetchUnclaim
<1>13. CASE FetchCancel(t)
  BY <1>13, AnyReleaseType DEF FetchCancel
<1>. QED
  BY <1>1, <1>2, <1>3, <1>4, <1>5, <1>6, <1>7, <1>8, <1>9, <1>10, <1>11,
     <1>12, <1>13 DEF FetchStepOf

\* A step of a sweep keeps the shape of the state.
LEMMA ShapeSweep ==
  ASSUME Shape, NEW s \in SweepTask,
         \/ RemoveRelease(s) \/ PruneStart(s)
         \/ SweepStepOf(s)
         \/ SweepInterrupt(s)
  PROVE  Shape'
<1>. USE DEF Shape, TypeOK, PositionInv, SweepStep, Sweeping, durable, locks,
     fvars, pvars, SweepDone
<1>1. CASE RemoveRelease(s)
  BY <1>1 DEF RemoveRelease
<1>2. CASE PruneStart(s)
  BY <1>2 DEF PruneStart
<1>3. CASE SweepLock(s)
  <2>1. releases' \in [Reference -> Release \cup {None}]
    BY <1>3 DEF SweepLock
  <2>2. LiveHashes(releases') \subseteq Hash
    BY <2>1, BlobType DEF LiveHashes, HashesOf, BlobPair
  <2>. QED  BY <1>3, <2>1, <2>2 DEF SweepLock
<1>4. CASE SweepList(s)
  BY <1>4 DEF SweepList
<1>5. CASE SweepUnpin(s)
  BY <1>5 DEF SweepUnpin
<1>6. CASE SweepDrop(s)
  BY <1>6 DEF SweepDrop
<1>7. CASE SweepRelist(s)
  BY <1>7 DEF SweepRelist, PinnedHashes
<1>8. CASE SweepMop(s)
  BY <1>8 DEF SweepMop
<1>9. CASE SweepInterrupt(s)
  BY <1>9 DEF SweepInterrupt
<1>. QED
  BY <1>1, <1>2, <1>3, <1>4, <1>5, <1>6, <1>7, <1>8, <1>9 DEF SweepStepOf

\* A step of a push keeps the shape of the state.
LEMMA ShapePush ==
  ASSUME Shape, NEW p \in PushTask,
         \/ PushHash(p)
         \/ \E r \in Own : PushStart(p, r)
         \/ PushStepOf(p)
         \/ PushAbort(p)
  PROVE  Shape'
<1>. USE DEF Shape, TypeOK, PositionInv, PushStep, durable, locks, fvars,
     svars, PushDone
<1>0. CASE PushHash(p)
  BY <1>0, StoreAssumption DEF PushHash
<1>1. CASE PushUpload(p)
  <2>1. PICK h \in {phash[p]} \cup GrowsTo[phash[p]] :
          /\ data' = data \cup {h}
          /\ pins' = [pins EXCEPT ![pdig[p]] = h]
          /\ phash' = [phash EXCEPT ![p] = h]
          /\ appended' = IF h = phash[p] THEN appended ELSE appended \cup {pdig[p]}
    BY <1>1 DEF PushUpload
  <2>2. phash[p] \in DOMAIN GrowsTo /\ pdig[p] \in Digest
    BY <1>1 DEF PushUpload
  <2>3. h \in Hash
    BY <2>2, StoreAssumption
  <2>. QED  BY <1>1, <2>1, <2>2, <2>3 DEF PushUpload
<1>2. ASSUME NEW r \in Own, PushStart(p, r) PROVE Shape'
  <2>1. r \in Release
    BY StoreAssumption
  <2>. QED  BY <1>2, <2>1 DEF PushStart
<1>3. CASE PushUploadIndex(p)
  <2>1. [hash |-> phash[p], typed |-> FALSE] \in IndexEntry /\ pdig[p] \in Digest
    BY <1>3 DEF PushUploadIndex, IndexEntry
  <2>2. index' \in [Digest -> IndexEntry \cup {None}]
    BY <1>3, <2>1 DEF PushUploadIndex
  <2>. QED  BY <1>3, <2>2, AnyReleaseType DEF PushUploadIndex
<1>4. CASE PushCollect(p)
  <2>1. PBlob(p).hash \in Hash
    BY <1>4, BlobType DEF PushCollect, PBlob, BlobPair
  <2>. QED  BY <1>4, <2>1, AnyReleaseType DEF PushCollect
<1>5. CASE PushRetag(p)
  <2>1. [hash |-> PBlob(p).hash, typed |-> TRUE] \in IndexEntry
    BY <1>5, BlobType DEF PushRetag, PBlob, BlobPair, IndexEntry
  <2>2. index' \in [Digest -> IndexEntry \cup {None}]
    BY <1>5, <2>1 DEF PushRetag
  <2>. QED  BY <1>5, <2>2 DEF PushRetag
<1>6. CASE PushManifest(p)
  <2>1. BlobsOf[prel[p]][1].hash \in Hash
    BY ManifestType DEF BlobPair
  <2>. QED  BY <1>6, <2>1 DEF PushManifest
<1>7. CASE PushRecord(p)
  <2>1. [hash |-> BlobsOf[prel[p]][1].hash, typed |-> TRUE] \in IndexEntry
    BY ManifestType DEF BlobPair, IndexEntry
  <2>. QED  BY <1>7, <2>1 DEF PushRecord
<1>8. CASE PushCompare(p)
  BY <1>8, AnyReleaseType DEF PushCompare
<1>9. CASE PushWrite(p)
  <2>1. releases' \in [Reference -> Release \cup {None}]
    BY <1>9 DEF PushWrite
  <2>. QED  BY <1>9, <2>1, AnyReleaseType DEF PushWrite
<1>10. CASE PushAbort(p)
  BY <1>10, AnyReleaseType DEF PushAbort
<1>. QED
  BY <1>0, <1>1, <1>2, <1>3, <1>4, <1>5, <1>6, <1>7, <1>8, <1>9, <1>10 DEF PushStepOf

\* No step leaves the shape of the state.
LEMMA ShapeStep == Shape /\ [Next]_vars => Shape'
<1>. SUFFICES ASSUME Shape, [Next]_vars PROVE Shape'
  OBVIOUS
<1>1. CASE BlobGC
  BY <1>1 DEF BlobGC, Shape, TypeOK, PositionInv, locks, fvars, svars, pvars
<1>2. CASE Crash
  BY <1>2, AnyReleaseType DEF Crash, Shape, TypeOK, PositionInv, durable,
     FetchStep, SweepStep, PushStep
<1>3. CASE UNCHANGED vars
  BY <1>3 DEF vars, Shape, TypeOK, PositionInv, durable, locks, fvars, svars, pvars
<1>. QED
  BY <1>1, <1>2, <1>3, ShapeFetch, ShapeSweep, ShapePush DEF Next

\* Whatever the releases claim and whenever tasks are cancelled or the daemon
\* dies, the state keeps its type: every entry holds a hash, every pin too.
THEOREM TypeCorrect == Spec => []TypeOK
<1>1. Shape => TypeOK
  BY DEF Shape
<1>. QED  BY <1>1, ShapeInit, ShapeStep, PTL DEF Spec

-----------------------------------------------------------------------------
(* gc_lock. *)

Locked == Shape /\ LockInv

\* Nobody holds gc_lock at the start.
LEMMA LockedInit == Init => Locked
  BY ShapeInit, StoreAssumption DEF Init, Locked, LockInv, Holding, Sweeping

\* A fetch enters the lock only when no sweep holds it, and leaves it on
\* every way out of fetch_release_inner.
LEMMA LockFetch ==
  ASSUME Locked, NEW t \in FetchTask,
         \/ \E r \in Release \ Own : FetchStart(t, r)
         \/ FetchStepOf(t)
         \/ FetchCancel(t)
  PROVE  LockInv'
<1>. USE DEF Locked, Shape, TypeOK, LockInv, Holding, locks, svars, FetchDone
<1>1. ASSUME NEW r \in Release \ Own, FetchStart(t, r) PROVE LockInv'
  BY <1>1 DEF FetchStart
<1>2. CASE FetchClaim(t)
  BY <1>2 DEF FetchClaim
<1>3. CASE FetchLock(t)
  BY <1>3 DEF FetchLock
<1>4. CASE FetchCheck(t)
  BY <1>4 DEF FetchCheck
<1>5. CASE FetchDownload(t)
  BY <1>5 DEF FetchDownload
<1>6. CASE FetchVerify(t)
  BY <1>6 DEF FetchVerify
<1>7. CASE FetchPin(t)
  BY <1>7 DEF FetchPin
<1>8. CASE FetchIndex(t)
  BY <1>8 DEF FetchIndex
<1>9. CASE FetchCompare(t)
  BY <1>9 DEF FetchCompare
<1>10. CASE FetchWrite(t)
  BY <1>10 DEF FetchWrite
<1>11. CASE FetchFail(t)
  BY <1>11 DEF FetchFail
<1>12. CASE FetchUnclaim(t)
  BY <1>12 DEF FetchUnclaim
<1>13. CASE FetchCancel(t)
  BY <1>13 DEF FetchCancel
<1>. QED
  BY <1>1, <1>2, <1>3, <1>4, <1>5, <1>6, <1>7, <1>8, <1>9, <1>10, <1>11,
     <1>12, <1>13 DEF FetchStepOf

\* A sweep enters the lock only when nobody holds it, and leaves it on every
\* way out of sweep_blobs_locked.
LEMMA LockSweep ==
  ASSUME Locked, NEW s \in SweepTask,
         \/ RemoveRelease(s) \/ PruneStart(s)
         \/ SweepStepOf(s)
         \/ SweepInterrupt(s)
  PROVE  LockInv'
<1>. USE StoreAssumption DEF Locked, Shape, TypeOK, LockInv, Sweeping, locks, fvars,
     SweepDone
<1>1. CASE RemoveRelease(s)
  BY <1>1 DEF RemoveRelease
<1>2. CASE PruneStart(s)
  BY <1>2 DEF PruneStart
<1>3. CASE SweepLock(s)
  BY <1>3 DEF SweepLock
<1>4. CASE SweepList(s)
  BY <1>4 DEF SweepList
<1>5. CASE SweepUnpin(s)
  BY <1>5 DEF SweepUnpin
<1>6. CASE SweepDrop(s)
  BY <1>6 DEF SweepDrop
<1>7. CASE SweepRelist(s)
  BY <1>7 DEF SweepRelist
<1>8. CASE SweepMop(s)
  BY <1>8 DEF SweepMop
<1>9. CASE SweepInterrupt(s)
  BY <1>9 DEF SweepInterrupt
<1>. QED
  BY <1>1, <1>2, <1>3, <1>4, <1>5, <1>6, <1>7, <1>8, <1>9 DEF SweepStepOf

\* A push changes neither a lock nor a task that uses one.
LEMMA PushFrame ==
  ASSUME NEW p \in PushTask,
         \/ PushHash(p)
         \/ \E r \in Own : PushStart(p, r)
         \/ PushStepOf(p)
         \/ PushAbort(p)
  PROVE  UNCHANGED <<locks, fvars, svars>>
  BY DEF PushHash, PushUpload, PushStart, PushStepOf, PushAbort, PushUploadIndex,
     PushCollect, PushRetag, PushManifest, PushRecord, PushCompare, PushWrite, PushDone

\* No step gives gc_lock a reader and a writer at once.
LEMMA LockedStep == Locked /\ [Next]_vars => Locked'
<1>. SUFFICES ASSUME Locked, [Next]_vars PROVE LockInv'
  BY ShapeStep DEF Locked
<1>1. CASE UNCHANGED <<locks, fvars, svars>>
  BY <1>1 DEF Locked, LockInv, locks, fvars, svars
<1>2. CASE BlobGC
  BY <1>1, <1>2 DEF BlobGC
<1>3. CASE Crash
  BY <1>3, StoreAssumption DEF Crash, LockInv, Holding, Sweeping
<1>4. CASE UNCHANGED vars
  BY <1>1, <1>4 DEF vars
<1>. QED
  BY <1>1, <1>2, <1>3, <1>4, PushFrame, LockFetch, LockSweep DEF Next

\* gc_lock agrees with the steps of its holders in every reachable state.
LEMMA LockedAlways == Spec => []Locked
  BY LockedInit, LockedStep, PTL DEF Spec

\* No step drops a pin while a fetch holds gc_lock: the one step that drops a
\* pin belongs to a sweep, which holds the lock for writing.
LEMMA UnpinStep ==
  ASSUME Locked, Next, readers # {}, NEW d \in Digest, pins[d] # None
  PROVE  pins'[d] # None
<1>. USE DEF Locked, Shape, TypeOK
<1>1. ASSUME NEW t \in FetchTask,
             \/ \E r \in Release \ Own : FetchStart(t, r)
             \/ FetchStepOf(t)
             \/ FetchCancel(t)
      PROVE  pins'[d] # None
  <2>1. CASE FetchPin(t)
    <3>1. FBlob(t).hash \in Hash
      BY <2>1, BlobType DEF FetchPin, FBlob, PositionInv, BlobPair
    <3>. QED  BY <2>1, <3>1, StoreAssumption DEF FetchPin
  <2>2. CASE UNCHANGED pins
    BY <2>2
  <2>. QED
    BY <1>1, <2>1, <2>2 DEF FetchStart, FetchStepOf, FetchCancel, FetchClaim, FetchLock,
       FetchCheck, FetchDownload, FetchVerify, FetchIndex, FetchCompare, FetchWrite,
       FetchFail, FetchUnclaim, durable
<1>2. ASSUME NEW s \in SweepTask,
             \/ RemoveRelease(s) \/ PruneStart(s)
             \/ SweepStepOf(s)
             \/ SweepInterrupt(s)
      PROVE  pins'[d] # None
  <2>1. CASE SweepUnpin(s)
    BY <2>1, StoreAssumption DEF SweepUnpin, LockInv, Sweeping
  <2>2. CASE UNCHANGED pins
    BY <2>2
  <2>. QED
    BY <1>2, <2>1, <2>2 DEF RemoveRelease, PruneStart, SweepStepOf, SweepInterrupt,
       SweepLock, SweepList, SweepDrop, SweepRelist, SweepMop, durable
<1>3. ASSUME NEW p \in PushTask,
             \/ PushHash(p)
             \/ \E r \in Own : PushStart(p, r)
             \/ PushStepOf(p)
             \/ PushAbort(p)
      PROVE  pins'[d] # None
  <2>1. CASE PushUpload(p)
    <3>1. \A h \in {phash[p]} \cup GrowsTo[phash[p]] : h # None
      BY <2>1, StoreAssumption DEF PushUpload, PositionInv
    <3>. QED  BY <2>1, <3>1 DEF PushUpload
  <2>2. CASE PushCollect(p)
    <3>1. PBlob(p).hash \in Hash
      BY <2>2, BlobType DEF PushCollect, PBlob, BlobPair
    <3>. QED  BY <2>2, <3>1, StoreAssumption DEF PushCollect
  <2>3. CASE PushManifest(p)
    <3>1. BlobsOf[prel[p]][1].hash \in Hash
      BY ManifestType DEF BlobPair
    <3>. QED  BY <2>3, <3>1, StoreAssumption DEF PushManifest
  <2>4. CASE UNCHANGED pins
    BY <2>4
  <2>. QED
    BY <1>3, <2>1, <2>2, <2>3, <2>4 DEF PushHash, PushStart, PushStepOf, PushAbort,
       PushUploadIndex, PushRetag, PushRecord, PushCompare, PushWrite, durable
<1>4. CASE BlobGC
  BY <1>4 DEF BlobGC
<1>5. CASE Crash
  BY <1>5 DEF Crash, durable
<1>. QED
  BY <1>1, <1>2, <1>3, <1>4, <1>5 DEF Next

\* The promise of Node.gc_lock, with pushes, cancelled tasks and restarts.
THEOREM GcLockHolds == Spec => NoUnpinDuringFetch
<1>1. Locked /\ [Next]_vars =>
        [readers # {} => \A d \in Digest : pins[d] # None => pins'[d] # None]_vars
  BY UnpinStep
<1>. QED  BY <1>1, LockedAlways, PTL DEF Spec, NoUnpinDuringFetch

-----------------------------------------------------------------------------
(* The index. *)

Truthful == Shape /\ VerifiedInv /\ UploadInv /\ IndexTruthful

\* An empty index tells nothing false.
LEMMA TruthfulInit == Init => Truthful
  BY ShapeInit DEF Init, Truthful, VerifiedInv, UploadInv, IndexTruthful

\* Fetches and sweeps change nothing of a push.
LEMMA TaskFrame ==
  ASSUME \/ \E t \in FetchTask :
              \/ \E r \in Release \ Own : FetchStart(t, r)
              \/ FetchStepOf(t)
              \/ FetchCancel(t)
         \/ \E s \in SweepTask :
              \/ RemoveRelease(s) \/ PruneStart(s)
              \/ SweepStepOf(s)
              \/ SweepInterrupt(s)
  PROVE  UNCHANGED pvars
  BY DEF FetchStart, FetchStepOf, FetchCancel, FetchClaim, FetchLock, FetchCheck,
     FetchDownload, FetchVerify, FetchPin, FetchIndex, FetchCompare, FetchWrite,
     FetchFail, FetchUnclaim, RemoveRelease, PruneStart, SweepStepOf, SweepInterrupt,
     SweepLock, SweepList, SweepUnpin, SweepDrop, SweepRelist, SweepMop

\* A fetch records a pair only after verify_blob has compared the digest.
LEMMA TruthfulFetch ==
  ASSUME Truthful, NEW t \in FetchTask,
         \/ \E r \in Release \ Own : FetchStart(t, r)
         \/ FetchStepOf(t)
         \/ FetchCancel(t)
  PROVE  VerifiedInv' /\ IndexTruthful'
<1>. USE DEF Truthful, Shape, TypeOK, VerifiedInv, IndexTruthful, FBlob, durable, FetchDone,
     pvars
<1>1. ASSUME NEW r \in Release \ Own, FetchStart(t, r) PROVE VerifiedInv' /\ IndexTruthful'
  BY <1>1 DEF FetchStart
<1>2. CASE FetchClaim(t)
  BY <1>2 DEF FetchClaim
<1>3. CASE FetchLock(t)
  BY <1>3 DEF FetchLock
<1>4. CASE FetchCheck(t)
  BY <1>4 DEF FetchCheck
<1>5. CASE FetchDownload(t)
  BY <1>5 DEF FetchDownload
<1>6. CASE FetchVerify(t)
  BY <1>6 DEF FetchVerify
<1>7. CASE FetchPin(t)
  BY <1>7 DEF FetchPin
<1>8. CASE FetchIndex(t)
  BY <1>8 DEF FetchIndex
<1>9. CASE FetchCompare(t)
  BY <1>9 DEF FetchCompare
<1>10. CASE FetchWrite(t)
  BY <1>10 DEF FetchWrite
<1>11. CASE FetchFail(t)
  BY <1>11 DEF FetchFail
<1>12. CASE FetchUnclaim(t)
  BY <1>12 DEF FetchUnclaim
<1>13. CASE FetchCancel(t)
  BY <1>13 DEF FetchCancel
<1>. QED
  BY <1>1, <1>2, <1>3, <1>4, <1>5, <1>6, <1>7, <1>8, <1>9, <1>10, <1>11,
     <1>12, <1>13 DEF FetchStepOf

\* A sweep only takes entries and pins away.
LEMMA TruthfulSweep ==
  ASSUME Truthful, NEW s \in SweepTask,
         \/ RemoveRelease(s) \/ PruneStart(s)
         \/ SweepStepOf(s)
         \/ SweepInterrupt(s)
  PROVE  VerifiedInv' /\ IndexTruthful'
<1>1. UNCHANGED fvars
  BY DEF RemoveRelease, PruneStart, SweepStepOf, SweepInterrupt, SweepLock, SweepList,
     SweepUnpin, SweepDrop, SweepRelist, SweepMop
<1>2. VerifiedInv'
  BY <1>1 DEF Truthful, VerifiedInv, FBlob, fvars
<1>. USE DEF Truthful, Shape, TypeOK, IndexTruthful, pvars
<1>3. CASE SweepUnpin(s)
  BY <1>2, <1>3 DEF SweepUnpin
<1>4. CASE SweepDrop(s)
  BY <1>2, <1>4 DEF SweepDrop
<1>5. CASE SweepMop(s)
  BY <1>2, <1>5 DEF SweepMop
<1>6. CASE UNCHANGED <<index, pins, appended>>
  BY <1>2, <1>6
<1>. QED
  BY <1>3, <1>4, <1>5, <1>6 DEF RemoveRelease, PruneStart, SweepStepOf, SweepInterrupt,
     SweepLock, SweepList, SweepRelist, durable

\* Where a push stands and what it has computed stay as they are.
LEMMA UploadFrame ==
  ASSUME Truthful, UNCHANGED pvars
  PROVE  UploadInv'
  BY DEF Truthful, UploadInv, PBlob, pvars

\* A push indexes what it imported under the digest it computed, an own manifest
\* as it is, and an entry of the index again.
LEMMA TruthfulPush ==
  ASSUME Truthful, NEW p \in PushTask,
         \/ PushHash(p)
         \/ \E r \in Own : PushStart(p, r)
         \/ PushStepOf(p)
         \/ PushAbort(p)
  PROVE  VerifiedInv' /\ UploadInv' /\ IndexTruthful'
<1>1. VerifiedInv'
  BY PushFrame DEF Truthful, VerifiedInv, FBlob, fvars
<1>. SUFFICES UploadInv' /\ IndexTruthful'
  BY <1>1
<1>s. Shape /\ TypeOK /\ PositionInv /\ UploadInv /\ IndexTruthful
  BY DEF Truthful, Shape
<1>. USE <1>s DEF TypeOK, UploadInv, IndexTruthful, PBlob, durable
<1>2. CASE PushHash(p)
  BY <1>2, StoreAssumption DEF PushHash
<1>3. CASE PushUpload(p)
  <2>1. PICK h \in {phash[p]} \cup GrowsTo[phash[p]] :
          /\ pins' = [pins EXCEPT ![pdig[p]] = h]
          /\ phash' = [phash EXCEPT ![p] = h]
          /\ appended' = IF h = phash[p] THEN appended ELSE appended \cup {pdig[p]}
    BY <1>3 DEF PushUpload
  <2>2. pdig[p] \in Digest /\ ShaOf[phash[p]] = pdig[p]
    BY <1>3 DEF PushUpload, PositionInv
  <2>3. ShaOf[h] = pdig[p] \/ pdig[p] \in appended'
    BY <2>1, <2>2
  <2>4. appended \subseteq appended'
    BY <2>1
  <2>5. UploadInv'
    BY <1>3, <2>1, <2>3, <2>4 DEF PushUpload
  <2>6. IndexTruthful'
    BY <1>3, <2>1, <2>2, <2>3, <2>4 DEF PushUpload
  <2>. QED  BY <2>5, <2>6
<1>4. CASE PushUploadIndex(p)
  <2>1. pdig[p] \in Digest
    BY <1>4 DEF PushUploadIndex, PositionInv
  <2>. QED  BY <1>4, <2>1 DEF PushUploadIndex, PushDone
<1>5. CASE PushCollect(p)
  <2>1. PBlob(p).digest \in Digest
    <3>1. prel[p] \in Release /\ ppos[p] \in Positions(prel[p])
      BY <1>5 DEF PushCollect
    <3>. QED  BY <3>1, BlobType DEF BlobPair
  <2>2. index[PBlob(p).digest] # None /\ index[PBlob(p).digest].hash = PBlob(p).hash =>
          ShaOf[PBlob(p).hash] = PBlob(p).digest \/ PBlob(p).digest \in appended
    BY <2>1
  <2>. DEFINE d == PBlob(p).digest
              h == PBlob(p).hash
  <2>3. \/ PushDone(p) /\ UNCHANGED <<index, pins>>
        \/ /\ index[d] # None /\ index[d].hash = h
           /\ pins' = [pins EXCEPT ![d] = h]
           /\ ppc' = [ppc EXCEPT ![p] = "retag"]
           /\ UNCHANGED <<index, prel, ppos, phash, pdig, appended>>
        \/ /\ ppc[p] = "collect"
           /\ ppos' = [ppos EXCEPT ![p] = @ + 1]
           /\ UNCHANGED <<index, pins, ppc, prel, phash, pdig, appended>>
    BY <1>5 DEF PushCollect
  <2>4. CASE PushDone(p) /\ UNCHANGED <<index, pins>>
    BY <2>4 DEF PushDone
  <2>5. CASE /\ index[d] # None /\ index[d].hash = h
             /\ pins' = [pins EXCEPT ![d] = h]
             /\ ppc' = [ppc EXCEPT ![p] = "retag"]
             /\ UNCHANGED <<index, prel, ppos, phash, pdig, appended>>
    <3>1. ShaOf[h] = d \/ d \in appended
      BY <2>2, <2>5
    <3>2. UploadInv'
      BY <2>5, <3>1
    <3>3. IndexTruthful'
      BY <2>1, <2>5, <3>1
    <3>. QED  BY <3>2, <3>3
  <2>6. CASE /\ ppc[p] = "collect"
             /\ ppos' = [ppos EXCEPT ![p] = @ + 1]
             /\ UNCHANGED <<index, pins, ppc, prel, phash, pdig, appended>>
    BY <2>6
  <2>. QED  BY <2>3, <2>4, <2>5, <2>6
<1>6. CASE PushRetag(p)
  <2>1. ShaOf[PBlob(p).hash] = PBlob(p).digest \/ PBlob(p).digest \in appended
    BY <1>6 DEF PushRetag
  <2>2. IndexTruthful'
    BY <1>6, <2>1 DEF PushRetag
  <2>3. UploadInv'
    BY <1>6 DEF PushRetag
  <2>. QED  BY <2>2, <2>3
<1>7. CASE PushManifest(p)
  <2>1. ShaOf[BlobsOf[prel[p]][1].hash] = BlobsOf[prel[p]][1].digest
    BY <1>7, StoreAssumption DEF PushManifest, PositionInv
  <2>. QED  BY <1>7, <2>1 DEF PushManifest
<1>8. CASE PushRecord(p)
  <2>1. ShaOf[BlobsOf[prel[p]][1].hash] = BlobsOf[prel[p]][1].digest
    BY <1>8, StoreAssumption DEF PushRecord, PositionInv
  <2>. QED  BY <1>8, <2>1 DEF PushRecord
<1>9. ASSUME NEW r \in Own, PushStart(p, r) PROVE UploadInv' /\ IndexTruthful'
  BY <1>9 DEF PushStart
<1>10. CASE PushCompare(p)
  BY <1>10 DEF PushCompare, PushDone
<1>11. CASE PushWrite(p)
  BY <1>11 DEF PushWrite, PushDone
<1>12. CASE PushAbort(p)
  BY <1>12 DEF PushAbort, PushDone
<1>. QED
  BY <1>2, <1>3, <1>4, <1>5, <1>6, <1>7, <1>8, <1>9, <1>10, <1>11, <1>12
     DEF PushStepOf

\* No step makes an entry or a pin untrue.
LEMMA TruthfulStep == Truthful /\ [Next]_vars => Truthful'
<1>. SUFFICES ASSUME Truthful, [Next]_vars PROVE VerifiedInv' /\ UploadInv' /\ IndexTruthful'
  BY ShapeStep DEF Truthful
<1>1. CASE BlobGC
  <2>1. VerifiedInv' /\ IndexTruthful'
    BY <1>1 DEF Truthful, VerifiedInv, IndexTruthful, FBlob, BlobGC, fvars, pvars
  <2>. QED  BY <1>1, <2>1, UploadFrame DEF BlobGC
<1>2. CASE Crash
  BY <1>2 DEF Truthful, VerifiedInv, UploadInv, IndexTruthful, Crash, durable
<1>3. CASE UNCHANGED vars
  <2>1. VerifiedInv' /\ IndexTruthful'
    BY <1>3 DEF Truthful, VerifiedInv, IndexTruthful, FBlob, vars, durable, fvars, pvars
  <2>. QED  BY <1>3, <2>1, UploadFrame DEF vars
<1>. QED
  BY <1>1, <1>2, <1>3, TaskFrame, UploadFrame, TruthfulFetch, TruthfulSweep, TruthfulPush
     DEF Next

\* Every index entry and every pin is true, whatever pairs fetched releases
\* claim, with pushes, sweeps, cancelled tasks and restarts, but of a digest whose
\* upload grew between the two halves of put_blob_file.
THEOREM IndexAlwaysTruthful == Spec => []IndexTruthful
<1>1. Truthful => IndexTruthful
  BY DEF Truthful
<1>. QED  BY <1>1, TruthfulInit, TruthfulStep, PTL DEF Spec

-----------------------------------------------------------------------------
(* Stored releases keep their pins. *)

\* Publishers are honest, nobody pushes, no sweep is interrupted and the
\* daemon does not die: what gc_lock alone has to guarantee.
Undisturbed ==
  Honest /\ PushTask = {} /\ Interruptible = {} /\ ~MayCrash

Pinned ==
  /\ Locked /\ Truthful /\ appended = {}
  /\ IndexedPinned /\ SweepSpares /\ FetchedPinned /\ StoredPinned

\* At the start no release is stored, so that no pin is missing.
LEMMA PinnedInit == Init => Pinned
<1>. SUFFICES ASSUME Init PROVE Pinned
  OBVIOUS
<1>1. Stored = {}
  BY DEF Init, Stored
<1>2. IndexedPinned /\ SweepSpares /\ FetchedPinned
  BY DEF Init, IndexedPinned, SweepSpares, FetchedPinned, Holding
<1>3. appended = {}
  BY DEF Init
<1>. QED  BY <1>1, <1>2, <1>3, LockedInit, TruthfulInit DEF Pinned, StoredPinned

\* What a sweep is about to unpin depends on its own locals and on the records.
LEMMA SparesFrame ==
  ASSUME Pinned, UNCHANGED <<releases, svars>>
  PROVE  SweepSpares'
  BY DEF Pinned, SweepSpares, Referenced, Stored, LiveHashes, svars

\* While a fetch holds the lock no sweep is at work, so that an index entry
\* has its pin.
LEMMA FetchSeesPins ==
  ASSUME Pinned, NEW t \in FetchTask, fpc[t] \in Holding
  PROVE  /\ \A s \in SweepTask : spc[s] \notin Sweeping
         /\ \A d \in Digest : index[d] # None => pins[d] # None
<1>1. writer = None
  BY DEF Pinned, Locked, LockInv
<1>2. \A s \in SweepTask : spc[s] \notin Sweeping
  BY <1>1, StoreAssumption DEF Pinned, Locked, LockInv
<1>. QED  BY <1>2 DEF Pinned, IndexedPinned, Sweeping

\* A step that changes only where a fetch stands.
LEMMA PinnedMove ==
  ASSUME Pinned, UNCHANGED <<releases, index, pins, svars>>
  PROVE  IndexedPinned' /\ SweepSpares' /\ StoredPinned'
<1>1. IndexedPinned'
  BY DEF Pinned, IndexedPinned, svars
<1>2. SweepSpares'
  BY SparesFrame
<1>3. StoredPinned'
  BY DEF Pinned, StoredPinned, Stored
<1>. QED  BY <1>1, <1>2, <1>3

\* A fetch writes a record only once every blob of it is pinned, and no step of
\* it takes a pin away.
LEMMA PinnedFetch ==
  ASSUME Pinned, NEW t \in FetchTask,
         \/ \E r \in Release \ Own : FetchStart(t, r)
         \/ FetchStepOf(t)
         \/ FetchCancel(t)
  PROVE  IndexedPinned' /\ SweepSpares' /\ FetchedPinned' /\ StoredPinned'
<1>. DEFINE Goal == IndexedPinned' /\ SweepSpares' /\ FetchedPinned' /\ StoredPinned'
<1>. USE DEF durable, svars
<1>t. TypeOK /\ PositionInv
  BY DEF Pinned, Locked, Shape
<1>f. FetchedPinned
  BY DEF Pinned
<1>. USE <1>f, <1>t DEF TypeOK, Holding
<1>1. ASSUME NEW r \in Release \ Own, FetchStart(t, r) PROVE Goal
  <2>8. UNCHANGED <<releases, index, pins, svars>>
    BY <1>1 DEF FetchStart
  <2>9. FetchedPinned'
    BY <1>1 DEF FetchStart, FetchedPinned, FBlob
  <2>. QED  BY <2>8, <2>9, PinnedMove
<1>2. CASE FetchClaim(t)
  <2>8. UNCHANGED <<releases, index, pins, svars>>
    BY <1>2 DEF FetchClaim
  <2>9. FetchedPinned'
    BY <1>2 DEF FetchClaim, FetchedPinned, FBlob
  <2>. QED  BY <2>8, <2>9, PinnedMove
<1>3. CASE FetchLock(t)
  <2>1. fpos[t] = 1
    BY <1>3 DEF FetchLock, PositionInv
  <2>8. UNCHANGED <<releases, index, pins, svars>>
    BY <1>3 DEF FetchLock
  <2>9. FetchedPinned'
    BY <1>3, <2>1 DEF FetchLock, FetchedPinned, FBlob, Positions
  <2>. QED  BY <2>8, <2>9, PinnedMove
<1>4. CASE FetchCheck(t)
  <2>1. FBlob(t).digest \in Digest
    BY <1>4, BlobType DEF FetchCheck, BlobPair, FBlob
  <2>2. index[FBlob(t).digest] # None => pins[FBlob(t).digest] # None
    BY <1>4, <2>1, FetchSeesPins DEF FetchCheck
  <2>8. UNCHANGED <<releases, index, pins, svars>>
    BY <1>4 DEF FetchCheck
  <2>9. FetchedPinned'
    <3>1. CASE UNCHANGED fpos
      BY <1>4, <3>1 DEF FetchCheck, FetchedPinned, FBlob
    <3>2. CASE pins[FBlob(t).digest] # None /\ fpos' = [fpos EXCEPT ![t] = @ + 1] /\ UNCHANGED fpc
      <4>. SUFFICES ASSUME NEW i \in Positions(frel[t]), i < fpos[t] + 1
                    PROVE  pins[BlobsOf[frel[t]][i].digest] # None
        BY <1>4, <3>2 DEF FetchCheck, FetchedPinned, FBlob
      <4>1. CASE i < fpos[t]
        BY <1>4, <4>1 DEF FetchCheck, FetchedPinned
      <4>2. CASE i = fpos[t]
        BY <3>2, <4>2 DEF FBlob
      <4>. QED  BY <4>1, <4>2 DEF Positions
    <3>. QED  BY <1>4, <2>2, <3>1, <3>2 DEF FetchCheck
  <2>. QED  BY <2>8, <2>9, PinnedMove
<1>5. CASE FetchDownload(t)
  <2>8. UNCHANGED <<releases, index, pins, svars>>
    BY <1>5 DEF FetchDownload
  <2>9. FetchedPinned'
    BY <1>5 DEF FetchDownload, FetchedPinned, FBlob
  <2>. QED  BY <2>8, <2>9, PinnedMove
<1>6. CASE FetchVerify(t)
  <2>8. UNCHANGED <<releases, index, pins, svars>>
    BY <1>6 DEF FetchVerify
  <2>9. FetchedPinned'
    BY <1>6 DEF FetchVerify, FetchedPinned, FBlob
  <2>. QED  BY <2>8, <2>9, PinnedMove
<1>7. CASE FetchPin(t)
  <2>1. FBlob(t).hash \in Hash
    BY <1>7, BlobType DEF FetchPin, FBlob, PositionInv, BlobPair
  <2>2. FBlob(t).digest \in Digest
    BY <1>7, BlobType DEF FetchPin, FBlob, PositionInv, BlobPair
  <2>3. pins'[FBlob(t).digest] # None
    BY <1>7, <2>1, <2>2, StoreAssumption DEF FetchPin
  <2>4. ASSUME NEW d PROVE pins[d] # None => pins'[d] # None
    BY <1>7, <2>3 DEF FetchPin
  <2>5. IndexedPinned'
    BY <1>7, <2>4 DEF FetchPin, Pinned, IndexedPinned
  <2>6. SweepSpares'
    BY <1>7, SparesFrame DEF FetchPin
  <2>7. FetchedPinned'
    BY <1>7, <2>3, <2>4 DEF FetchPin, FetchedPinned, FBlob
  <2>8. StoredPinned'
    BY <1>7, <2>4 DEF FetchPin, Pinned, StoredPinned, Stored
  <2>. QED  BY <2>5, <2>6, <2>7, <2>8 DEF Goal
<1>8. CASE FetchIndex(t)
  <2>1. IndexedPinned'
    BY <1>8 DEF FetchIndex, Pinned, IndexedPinned, FetchedPinned, FBlob
  <2>2. SweepSpares'
    BY <1>8, SparesFrame DEF FetchIndex
  <2>3. FetchedPinned'
    <3>1. pins[FBlob(t).digest] # None
      BY <1>8 DEF FetchIndex, FetchedPinned
    <3>. SUFFICES ASSUME NEW i \in Positions(frel[t]), i < fpos[t] + 1
                  PROVE  pins[BlobsOf[frel[t]][i].digest] # None
      BY <1>8 DEF FetchIndex, FetchedPinned, FBlob
    <3>2. CASE i < fpos[t]
      BY <1>8, <3>2 DEF FetchIndex, FetchedPinned
    <3>3. CASE i = fpos[t]
      BY <3>1, <3>3 DEF FBlob
    <3>. QED  BY <3>2, <3>3 DEF Positions
  <2>4. StoredPinned'
    BY <1>8 DEF FetchIndex, Pinned, StoredPinned, Stored
  <2>. QED  BY <2>1, <2>2, <2>3, <2>4 DEF Goal
<1>9. CASE FetchCompare(t)
  <2>8. UNCHANGED <<releases, index, pins, svars>>
    BY <1>9 DEF FetchCompare
  <2>9. FetchedPinned'
    BY <1>9 DEF FetchCompare, FetchedPinned, FBlob
  <2>. QED  BY <2>8, <2>9, PinnedMove
<1>10. CASE FetchWrite(t)
  <2>1. IndexedPinned'
    BY <1>10 DEF FetchWrite, Pinned, IndexedPinned
  <2>2. SweepSpares'
    BY <1>10, FetchSeesPins DEF FetchWrite, SweepSpares, Sweeping
  <2>3. FetchedPinned'
    BY <1>10 DEF FetchWrite, FetchedPinned, FBlob
  <2>4. \A i \in Positions(frel[t]) : pins[BlobsOf[frel[t]][i].digest] # None
    <3>1. Len(BlobsOf[frel[t]]) \in Nat
      BY StoreAssumption
    <3>2. fpos[t] \in Nat \ {0} /\ fpos[t] \notin 1..Len(BlobsOf[frel[t]])
      BY <1>10 DEF FetchWrite, Positions, FetchedPinned
    <3>3. ASSUME NEW i \in Positions(frel[t]) PROVE i < fpos[t]
      BY <3>1, <3>2 DEF Positions
    <3>. QED  BY <1>10, <3>3 DEF FetchWrite, FetchedPinned
  <2>5. StoredPinned'
    BY <1>10, <2>4 DEF FetchWrite, Pinned, StoredPinned, Stored
  <2>. QED  BY <2>1, <2>2, <2>3, <2>5 DEF Goal
<1>11. CASE FetchFail(t)
  <2>8. UNCHANGED <<releases, index, pins, svars>>
    BY <1>11 DEF FetchFail
  <2>9. FetchedPinned'
    BY <1>11 DEF FetchFail, FetchedPinned, FBlob
  <2>. QED  BY <2>8, <2>9, PinnedMove
<1>12. CASE FetchUnclaim(t)
  <2>8. UNCHANGED <<releases, index, pins, svars>>
    BY <1>12 DEF FetchUnclaim
  <2>9. FetchedPinned'
    BY <1>12 DEF FetchUnclaim, FetchedPinned, FBlob, FetchDone
  <2>. QED  BY <2>8, <2>9, PinnedMove
<1>13. CASE FetchCancel(t)
  <2>8. UNCHANGED <<releases, index, pins, svars>>
    BY <1>13 DEF FetchCancel
  <2>9. FetchedPinned'
    BY <1>13 DEF FetchCancel, FetchedPinned, FBlob, FetchDone
  <2>. QED  BY <2>8, <2>9, PinnedMove
<1>. QED
  BY <1>1, <1>2, <1>3, <1>4, <1>5, <1>6, <1>7, <1>8, <1>9, <1>10, <1>11,
     <1>12, <1>13 DEF FetchStepOf, Goal

\* Removing records leaves fewer blobs referenced.
LEMMA FewerReferenced ==
  ASSUME Pinned, NEW gone,
         releases' = [ref \in Reference |-> IF ref \in gone THEN None ELSE releases[ref]]
  PROVE  /\ \A d : Referenced(d)' => Referenced(d)
         /\ LiveHashes(releases') \subseteq LiveHashes(releases)
         /\ UNCHANGED pins => StoredPinned'
<1>1. \A ref \in Stored' : ref \in Stored /\ releases'[ref] = releases[ref]
  BY DEF Stored
<1>2. \A d : Referenced(d)' => Referenced(d)
  BY <1>1 DEF Referenced
<1>3. LiveHashes(releases') \subseteq LiveHashes(releases)
  BY DEF LiveHashes
<1>4. UNCHANGED pins => StoredPinned'
  BY <1>1 DEF Pinned, StoredPinned
<1>. QED  BY <1>2, <1>3, <1>4

\* At most one sweep is at work, and no fetch is when it is.
LEMMA SweepAlone ==
  ASSUME Pinned, NEW s \in SweepTask, spc[s] \in Sweeping
  PROVE  /\ \A u \in SweepTask : spc[u] \in Sweeping => u = s
         /\ \A t \in FetchTask : fpc[t] \notin Holding
  BY StoreAssumption DEF Pinned, Locked, LockInv

\* A sweep unpins only what no stored release references.
LEMMA PinnedSweep ==
  ASSUME Undisturbed, Pinned, NEW s \in SweepTask,
         \/ RemoveRelease(s) \/ PruneStart(s)
         \/ SweepStepOf(s)
         \/ SweepInterrupt(s)
  PROVE  IndexedPinned' /\ SweepSpares' /\ FetchedPinned' /\ StoredPinned'
<1>. DEFINE Goal == IndexedPinned' /\ SweepSpares' /\ FetchedPinned' /\ StoredPinned'
<1>t. TypeOK
  BY DEF Pinned, Locked, Shape
<1>p. IndexedPinned /\ SweepSpares /\ FetchedPinned /\ StoredPinned
  BY DEF Pinned
<1>. USE <1>t, <1>p DEF TypeOK, durable
\* The part about fetches only looks at their variables and at pins.
<1>f. UNCHANGED <<pins, fvars>> => FetchedPinned'
  BY DEF FetchedPinned, FBlob, fvars
<1>1. CASE RemoveRelease(s)
  <2>. PICK gone \in SUBSET Stored \ {{}} :
         releases' = [ref \in Reference |-> IF ref \in gone THEN None ELSE releases[ref]]
    BY <1>1 DEF RemoveRelease
  <2>1. StoredPinned' /\ FetchedPinned'
    BY <1>1, <1>f, FewerReferenced DEF RemoveRelease
  <2>2. IndexedPinned'
    BY <1>1 DEF RemoveRelease, IndexedPinned
  <2>3. SweepSpares'
    BY <1>1, FewerReferenced DEF RemoveRelease, SweepSpares
  <2>. QED  BY <2>1, <2>2, <2>3
<1>2. CASE PruneStart(s)
  <2>1. StoredPinned' /\ FetchedPinned'
    BY <1>2, <1>f DEF PruneStart, StoredPinned, Stored
  <2>2. IndexedPinned'
    BY <1>2 DEF PruneStart, IndexedPinned
  <2>3. SweepSpares'
    BY <1>2 DEF PruneStart, SweepSpares, Referenced, Stored
  <2>. QED  BY <2>1, <2>2, <2>3
<1>3. CASE SweepLock(s)
  <2>. PICK gone \in SUBSET {ref \in Stored : releases[ref] \notin Own} :
         releases' = [ref \in Reference |-> IF ref \in gone THEN None ELSE releases[ref]]
    BY <1>3 DEF SweepLock
  <2>1. StoredPinned' /\ FetchedPinned'
    BY <1>3, <1>f, FewerReferenced DEF SweepLock
  <2>2. IndexedPinned'
    BY <1>3 DEF SweepLock, IndexedPinned
  <2>3. \A u \in SweepTask : spc[u] \notin Sweeping
    BY <1>3, StoreAssumption DEF SweepLock, Pinned, Locked, LockInv
  <2>4. SweepSpares'
    BY <1>3, <2>3 DEF SweepLock, SweepSpares, Sweeping
  <2>. QED  BY <2>1, <2>2, <2>4
<1>4. CASE SweepList(s)
  <2>1. StoredPinned' /\ FetchedPinned'
    BY <1>4, <1>f DEF SweepList, StoredPinned, Stored
  <2>2. IndexedPinned'
    BY <1>4 DEF SweepList, IndexedPinned
  <2>3. ASSUME NEW d \in Digest, pins[d] # None, pins[d] \notin live[s], Referenced(d)
        PROVE  FALSE
    <3>0. PICK ref \in Stored : \E i \in Positions(releases[ref]) :
            BlobsOf[releases[ref]][i].digest = d
      BY <2>3 DEF Referenced
    <3>1. PICK i \in Positions(releases[ref]) : BlobsOf[releases[ref]][i].digest = d
      BY <3>0
    <3>2. releases[ref] \in Release
      BY DEF Stored
    <3>. DEFINE h == BlobsOf[releases[ref]][i].hash
    <3>3. h \in Hash /\ ShaOf[h] = d
      BY <3>1, <3>2, BlobType DEF Undisturbed, Honest, BlobPair
    <3>4. h \in live[s]
      <4>1. h \in HashesOf(releases[ref])
        BY DEF HashesOf
      <4>2. h \in LiveHashes(releases)
        BY <4>1 DEF LiveHashes, Stored
      <4>. QED  BY <1>4, <4>2 DEF SweepList, SweepSpares
    <3>5. pins[d] \in Hash /\ ShaOf[pins[d]] = d
      BY <2>3 DEF Pinned, Truthful, IndexTruthful
    <3>. QED  BY <2>3, <3>3, <3>4, <3>5, StoreAssumption
  <2>4. \A d : Referenced(d)' <=> Referenced(d)
    BY <1>4 DEF SweepList, Referenced, Stored
  <2>5. \A u \in SweepTask : spc[u] \in Sweeping => u = s
    BY <1>4, SweepAlone DEF SweepList, Sweeping
  <2>6. SweepSpares'
    BY <1>4, <2>3, <2>4, <2>5 DEF SweepList, SweepSpares, Sweeping
  <2>. QED  BY <2>1, <2>2, <2>6
<1>5. CASE SweepUnpin(s)
  <2>1. PICK d \in todo[s] :
          /\ pins' = [pins EXCEPT ![d] = None]
          /\ todo' = [todo EXCEPT ![s] = @ \ {d}]
          /\ cur' = [cur EXCEPT ![s] = d]
    BY <1>5 DEF SweepUnpin
  <2>2. d \in Digest /\ ~Referenced(d)
    BY <1>5 DEF SweepUnpin, SweepSpares
  <2>3. /\ \A u \in SweepTask : spc[u] \in Sweeping => u = s
        /\ \A t \in FetchTask : fpc[t] \notin Holding
    BY <1>5, SweepAlone DEF SweepUnpin, Sweeping
  <2>4. StoredPinned'
    <3>. SUFFICES ASSUME NEW ref \in Stored, NEW i \in Positions(releases[ref])
                  PROVE  pins'[BlobsOf[releases[ref]][i].digest] # None
      BY <1>5 DEF SweepUnpin, StoredPinned, Stored
    <3>. DEFINE e == BlobsOf[releases[ref]][i].digest
    <3>1. e # d
      BY <2>2 DEF Referenced
    <3>2. e \in Digest
      BY BlobType DEF Stored, BlobPair
    <3>3. pins[e] # None
      BY DEF StoredPinned
    <3>. QED  BY <2>1, <3>1, <3>2, <3>3
  <2>5. FetchedPinned'
    BY <1>5, <2>3 DEF SweepUnpin, FetchedPinned, Holding, fvars
  <2>6. IndexedPinned'
    BY <1>5, <2>1, <2>2, <2>3 DEF SweepUnpin, IndexedPinned, Sweeping
  <2>7. \A e : Referenced(e)' <=> Referenced(e)
    BY <1>5 DEF SweepUnpin, Referenced, Stored
  <2>8. SweepSpares'
    BY <1>5, <2>1, <2>2, <2>3, <2>7 DEF SweepUnpin, SweepSpares, Sweeping
  <2>. QED  BY <2>4, <2>5, <2>6, <2>8
<1>6. CASE SweepDrop(s)
  <2>1. \A u \in SweepTask : spc[u] \in Sweeping => u = s
    BY <1>6, SweepAlone DEF SweepDrop, Sweeping
  <2>2. StoredPinned' /\ FetchedPinned'
    BY <1>6, <1>f DEF SweepDrop, StoredPinned, Stored
  <2>3. IndexedPinned'
    BY <1>6, <2>1 DEF SweepDrop, IndexedPinned, Sweeping
  <2>4. SweepSpares'
    BY <1>6, <2>1 DEF SweepDrop, SweepSpares, Sweeping, Referenced, Stored
  <2>. QED  BY <2>2, <2>3, <2>4
<1>7. CASE SweepRelist(s)
  <2>1. \A u \in SweepTask : spc[u] \in Sweeping => u = s
    BY <1>7, SweepAlone DEF SweepRelist, Sweeping
  <2>2. StoredPinned' /\ FetchedPinned'
    BY <1>7, <1>f DEF SweepRelist, StoredPinned, Stored
  <2>3. IndexedPinned'
    BY <1>7 DEF SweepRelist, IndexedPinned
  <2>4. SweepSpares'
    BY <1>7, <2>1 DEF SweepRelist, SweepSpares, Sweeping
  <2>. QED  BY <2>2, <2>3, <2>4
<1>8. CASE SweepMop(s)
  <2>1. \A u \in SweepTask : spc[u] \in Sweeping => u = s
    BY <1>8, SweepAlone DEF SweepMop, Sweeping
  <2>2. StoredPinned' /\ FetchedPinned'
    BY <1>8, <1>f DEF SweepMop, StoredPinned, Stored
  <2>3. IndexedPinned'
    BY <1>8, <2>1 DEF SweepMop, SweepDone, IndexedPinned, Sweeping
  <2>4. SweepSpares'
    BY <1>8, <2>1 DEF SweepMop, SweepDone, SweepSpares, Sweeping
  <2>. QED  BY <2>2, <2>3, <2>4
<1>9. ~SweepInterrupt(s)
  BY DEF SweepInterrupt, Undisturbed
<1>. QED
  BY <1>1, <1>2, <1>3, <1>4, <1>5, <1>6, <1>7, <1>8, <1>9 DEF SweepStepOf

\* Without pushes, interrupted sweeps and crashes every step keeps the pins of
\* the stored releases.
LEMMA PinnedStep ==
  ASSUME Undisturbed
  PROVE  Pinned /\ [Next]_vars => Pinned'
<1>. SUFFICES ASSUME Pinned, [Next]_vars
              PROVE  IndexedPinned' /\ SweepSpares' /\ FetchedPinned' /\ StoredPinned'
  <2>1. ASSUME Pinned, [Next]_vars PROVE appended' = {}
    BY TaskFrame, <2>1 DEF Pinned, Undisturbed, Next, BlobGC, Crash, vars, pvars
  <2>. QED  BY <2>1, LockedStep, TruthfulStep DEF Pinned
<1>a. ASSUME UNCHANGED <<releases, index, pins, svars, fvars>>
      PROVE  IndexedPinned' /\ SweepSpares' /\ FetchedPinned' /\ StoredPinned'
  <2>1. FetchedPinned'
    BY <1>a DEF Pinned, FetchedPinned, FBlob, fvars
  <2>. QED  BY <1>a, <2>1, PinnedMove
<1>1. CASE BlobGC
  BY <1>1, <1>a DEF BlobGC
<1>2. ~Crash /\ PushTask = {}
  BY DEF Crash, Undisturbed
<1>3. CASE UNCHANGED vars
  BY <1>3, <1>a DEF vars, durable
<1>. QED
  BY <1>1, <1>2, <1>3, PinnedFetch, PinnedSweep DEF Next

\* With honest publishers, and without pushes, interrupted sweeps and crashes,
\* gc_lock and inflight are enough: every blob of a stored release is pinned.
THEOREM StoredStaysPinned ==
  ASSUME Undisturbed
  PROVE  Spec => []StoredPinned
<1>1. Pinned => StoredPinned
  BY DEF Pinned
<1>. QED  BY <1>1, PinnedInit, PinnedStep, PTL DEF Spec

-----------------------------------------------------------------------------
\* inflight makes the two steps of put_release safe for fetches of one reference:
\* a stored replica never goes back to an older release.

Claims == Shape /\ ClaimInv

\* No fetch has claimed anything when the daemon starts.
LEMMA ClaimsInit == Init => Claims
  BY ShapeInit DEF Init, Claims, ClaimInv, Claimed

\* A step that leaves the fetches, inflight and the records alone keeps the claims.
LEMMA ClaimsFrame ==
  ASSUME Claims, UNCHANGED <<fpc, frel, inflight, releases>>
  PROVE  ClaimInv'
  BY DEF Claims, ClaimInv, Claimed, Accepts

\* A fetch claims a reference only when it is free, and gives it back when it ends.
LEMMA ClaimsFetch ==
  ASSUME Claims, NEW t \in FetchTask,
         \/ \E r \in Release \ Own : FetchStart(t, r)
         \/ FetchStepOf(t)
         \/ FetchCancel(t)
  PROVE  ClaimInv'
<1>. USE DEF Claims, Shape, TypeOK, ClaimInv, Claimed, durable, locks, FetchDone
<1>1. ASSUME NEW r \in Release \ Own, FetchStart(t, r) PROVE ClaimInv'
  BY <1>1 DEF FetchStart, Accepts
<1>2. CASE FetchClaim(t)
  BY <1>2 DEF FetchClaim, Accepts
<1>3. CASE FetchLock(t)
  BY <1>3 DEF FetchLock, Accepts
<1>4. CASE FetchCheck(t)
  BY <1>4 DEF FetchCheck, Accepts
<1>5. CASE FetchDownload(t)
  BY <1>5 DEF FetchDownload, Accepts
<1>6. CASE FetchVerify(t)
  BY <1>6 DEF FetchVerify, Accepts
<1>7. CASE FetchPin(t)
  BY <1>7 DEF FetchPin, Accepts
<1>8. CASE FetchIndex(t)
  BY <1>8 DEF FetchIndex, Accepts
<1>9. CASE FetchCompare(t)
  BY <1>9 DEF FetchCompare, Accepts
<1>10. CASE FetchWrite(t)
  <2>1. ASSUME NEW u \in FetchTask, fpc'[u] = "write" PROVE Accepts(frel[u])'
    <3>1. u # t /\ RefOf[frel[u]] # RefOf[frel[t]]
      BY <1>10, <2>1 DEF FetchWrite
    <3>2. releases'[RefOf[frel[u]]] = releases[RefOf[frel[u]]]
      BY <1>10, <3>1 DEF FetchWrite
    <3>. QED  BY <1>10, <2>1, <3>1, <3>2 DEF FetchWrite, Accepts
  <2>. QED  BY <1>10, <2>1 DEF FetchWrite
<1>11. CASE FetchFail(t)
  BY <1>11 DEF FetchFail, Accepts, Holding
<1>12. CASE FetchUnclaim(t)
  BY <1>12 DEF FetchUnclaim, Accepts
<1>13. CASE FetchCancel(t)
  BY <1>13 DEF FetchCancel, Accepts
<1>. QED
  BY <1>1, <1>2, <1>3, <1>4, <1>5, <1>6, <1>7, <1>8, <1>9, <1>10, <1>11,
     <1>12, <1>13 DEF FetchStepOf

\* A sweep changes no fetch, and what it does to the records is to remove some.
LEMMA SweepRemoves ==
  ASSUME TypeOK, NEW s \in SweepTask,
         \/ RemoveRelease(s) \/ PruneStart(s)
         \/ SweepStepOf(s)
         \/ SweepInterrupt(s)
  PROVE  /\ UNCHANGED <<fpc, frel, inflight>>
         /\ \A ref \in Reference : releases'[ref] \in {releases[ref], None}
<1>. USE DEF TypeOK, durable, locks, fvars
<1>1. CASE RemoveRelease(s)
  BY <1>1 DEF RemoveRelease
<1>2. CASE SweepLock(s)
  BY <1>2 DEF SweepLock
<1>3. CASE UNCHANGED <<releases, fpc, frel, inflight>>
  BY <1>3
<1>. QED
  BY <1>1, <1>2, <1>3 DEF PruneStart, SweepStepOf, SweepList, SweepUnpin, SweepDrop,
     SweepRelist, SweepMop, SweepInterrupt

\* A removed record accepts any release.
LEMMA ClaimsSweep ==
  ASSUME Claims, NEW s \in SweepTask,
         \/ RemoveRelease(s) \/ PruneStart(s)
         \/ SweepStepOf(s)
         \/ SweepInterrupt(s)
  PROVE  ClaimInv'
<1>1. /\ UNCHANGED <<fpc, frel, inflight>>
      /\ \A ref \in Reference : releases'[ref] \in {releases[ref], None}
  BY SweepRemoves DEF Claims, Shape
<1>2. ASSUME NEW t \in FetchTask, Accepts(frel[t]) PROVE Accepts(frel[t])'
  <2>1. RefOf[frel[t]] \in Reference
    BY StoreAssumption DEF Claims, Shape, TypeOK
  <2>. QED  BY <1>1, <1>2, <2>1 DEF Accepts
<1>. QED  BY <1>1, <1>2 DEF Claims, ClaimInv, Claimed

\* What a push does to the records is to write an own release.
LEMMA PushWrites ==
  ASSUME Shape, NEW p \in PushTask,
         \/ PushHash(p)
         \/ \E r \in Own : PushStart(p, r)
         \/ PushStepOf(p)
         \/ PushAbort(p)
  PROVE  \/ UNCHANGED releases
         \/ \E r \in Own : releases' = [releases EXCEPT ![RefOf[r]] = r]
<1>1. CASE PushWrite(p)
  BY <1>1 DEF PushWrite, Shape, PositionInv
<1>. QED
  BY <1>1 DEF PushHash, PushUpload, PushStart, PushStepOf, PushAbort, PushUploadIndex,
     PushCollect, PushRetag, PushManifest, PushRecord, PushCompare, PushDone, durable

\* An own release has a reference of its own, which no fetch writes.
LEMMA ClaimsPush ==
  ASSUME Claims, NEW p \in PushTask,
         \/ PushHash(p)
         \/ \E r \in Own : PushStart(p, r)
         \/ PushStepOf(p)
         \/ PushAbort(p)
  PROVE  ClaimInv'
<1>1. UNCHANGED <<fpc, frel, inflight>>
  BY PushFrame DEF locks, fvars
<1>2. CASE UNCHANGED releases
  BY <1>1, <1>2, ClaimsFrame
<1>3. ASSUME NEW r \in Own, releases' = [releases EXCEPT ![RefOf[r]] = r] PROVE ClaimInv'
  <2>1. ASSUME NEW t \in FetchTask, frel[t] \notin Own, Accepts(frel[t]) PROVE Accepts(frel[t])'
    <3>1. RefOf[frel[t]] # RefOf[r]
      BY <2>1, StoreAssumption DEF Claims, Shape, TypeOK
    <3>. QED  BY <1>1, <1>3, <2>1, <3>1 DEF Accepts
  <2>. QED  BY <1>1, <2>1 DEF Claims, ClaimInv, Claimed
<1>. QED  BY <1>2, <1>3, PushWrites DEF Claims

\* Every step keeps the claims apart.
LEMMA ClaimsStep == Claims /\ [Next]_vars => Claims'
<1>. SUFFICES ASSUME Claims, [Next]_vars PROVE ClaimInv'
  BY ShapeStep DEF Claims
<1>1. CASE BlobGC
  BY <1>1, ClaimsFrame DEF BlobGC, locks, fvars
<1>2. CASE Crash
  BY <1>2 DEF Crash, ClaimInv, Claimed
<1>3. CASE UNCHANGED vars
  BY <1>3, ClaimsFrame DEF vars, durable, locks, fvars
<1>. QED
  BY <1>1, <1>2, <1>3, ClaimsFetch, ClaimsSweep, ClaimsPush DEF Next

\* A step that replaces a record by another publisher's release is the write of
\* a fetch, and that release was accepted.
LEMMA ReplaceStep ==
  ASSUME Claims, Next, NEW ref \in Reference,
         releases[ref] # None, releases'[ref] # None,
         releases'[ref] # releases[ref], releases'[ref] \notin Own
  PROVE  Supersedes(releases'[ref], releases[ref])
<1>1. ASSUME NEW t \in FetchTask,
             \/ \E r \in Release \ Own : FetchStart(t, r)
             \/ FetchStepOf(t)
             \/ FetchCancel(t)
      PROVE  Supersedes(releases'[ref], releases[ref])
  <2>1. CASE FetchWrite(t)
    <3>1. ref = RefOf[frel[t]] /\ releases'[ref] = frel[t]
      BY <2>1 DEF FetchWrite, Claims, Shape, TypeOK
    <3>2. Accepts(frel[t])
      BY <2>1 DEF FetchWrite, Claims, ClaimInv
    <3>. QED  BY <3>1, <3>2 DEF Accepts
  <2>2. CASE UNCHANGED releases
    BY <2>2
  <2>. QED
    BY <1>1, <2>1, <2>2 DEF FetchStart, FetchStepOf, FetchCancel, FetchClaim, FetchLock,
       FetchCheck, FetchDownload, FetchVerify, FetchPin, FetchIndex, FetchCompare,
       FetchFail, FetchUnclaim, durable
<1>2. ASSUME NEW s \in SweepTask,
             \/ RemoveRelease(s) \/ PruneStart(s)
             \/ SweepStepOf(s)
             \/ SweepInterrupt(s)
      PROVE  FALSE
  BY <1>2, SweepRemoves DEF Claims, Shape
<1>3. ASSUME NEW p \in PushTask,
             \/ PushHash(p)
             \/ \E r \in Own : PushStart(p, r)
             \/ PushStepOf(p)
             \/ PushAbort(p)
      PROVE  FALSE
  <2>1. CASE UNCHANGED releases
    BY <2>1
  <2>2. ASSUME NEW r \in Own, releases' = [releases EXCEPT ![RefOf[r]] = r] PROVE FALSE
    BY <2>2 DEF Claims, Shape, TypeOK
  <2>. QED  BY <1>3, <2>1, <2>2, PushWrites DEF Claims
<1>4. ~(BlobGC \/ Crash)
  BY DEF BlobGC, Crash, durable
<1>. QED  BY <1>1, <1>2, <1>3, <1>4 DEF Next

\* A stored replica is only replaced by a release that supersedes it, with any
\* number of concurrent fetches, sweeps, pushes, cancellations and restarts:
\* the inflight set closes the gap between the two halves of put_release.
THEOREM ReplicaOrder == Spec => ReplicaNeverRollsBack
<1>1. ASSUME Claims, [Next]_vars
      PROVE  [\A ref \in Reference :
                LET old == releases[ref]
                    new == releases'[ref]
                IN  (old # None /\ new # None /\ new # old /\ new \notin Own)
                      => Supersedes(new, old)]_vars
  BY <1>1, ReplaceStep
<1>. QED
  BY <1>1, ClaimsInit, ClaimsStep, PTL DEF Spec, ReplicaNeverRollsBack
=============================================================================
