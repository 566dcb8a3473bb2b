--------------------------- MODULE ContentStore ---------------------------
(***************************************************************************)
(* The content store of one ocid daemon and the three kinds of task that   *)
(* change it concurrently:                                                 *)
(*                                                                         *)
(*   - fetches: replicate a signed release from peers                      *)
(*     (Node::fetch_release, started by gossip, by a sync and by pulls);   *)
(*   - sweeps: remove releases, then unpin what no release references      *)
(*     (Node::gc, enforce_window, remove_release, sweep_blobs_locked);     *)
(*   - pushes: a registry client uploads blobs and puts a manifest         *)
(*     (upload_put, manifest_put, collect_refs, Node::publish).            *)
(*                                                                         *)
(* A fetch holds gc_lock for reading and a sweep for writing; a push takes *)
(* no lock.  The blob store (iroh-blobs, external) runs its own garbage    *)
(* collection, deleting data that no pin and no temp tag protects.         *)
(*                                                                         *)
(* Pins, index entries, release records and data survive a restart; locks, *)
(* temp tags, the inflight set and the tasks do not.                       *)
(***************************************************************************)
EXTENDS Naturals, Sequences, FiniteSets

CONSTANTS
  Digest,         \* sha256 digests
  Hash,           \* BLAKE3 hashes; a hash stands for the content it addresses
  ShaOf,          \* [Hash -> Digest], the sha256 of the content behind a hash
  GrowsTo,        \* the contents clients upload, each with what its file may grow to
  Reference,      \* publisher/name:tag
  Release,        \* signed release records
  RefOf,          \* [Release -> Reference]
  Stamp,          \* [Release -> Nat], payload.timestamp
  BlobsOf,        \* [Release -> Seq(BlobPair)], all_blobs(): the manifest first
  Own,            \* the releases this node signs; the others are fetched
  FetchTask, SweepTask, PushTask,
  Cancellable,    \* fetches run inside an HTTP handler, whose future may be dropped
  Interruptible,  \* sweeps run inside an HTTP handler, or that meet an I/O error
  MayCrash,       \* the daemon may be killed and restarted
  None

\* A BlobRef of a release: the digest and the hash its publisher claims for it.
BlobPair == [digest : Digest, hash : Hash]

ASSUME StoreAssumption ==
  /\ ShaOf \in [Hash -> Digest]
  /\ \A g, h \in Hash : ShaOf[g] = ShaOf[h] => g = h
  /\ DOMAIN GrowsTo \subseteq Hash
  /\ \A h \in DOMAIN GrowsTo : GrowsTo[h] \subseteq Hash
  /\ RefOf \in [Release -> Reference]
  /\ Stamp \in [Release -> Nat]
  /\ BlobsOf \in [Release -> Seq(BlobPair)]
  /\ \A r \in Release : Len(BlobsOf[r]) > 0
  /\ Release # {}
  /\ Own \subseteq Release
  \* A reference names its publisher.
  /\ \A r \in Own : \A q \in Release \ Own : RefOf[r] # RefOf[q]
  \* A manifest is pushed as bytes in memory, whose digest is computed.
  /\ \A r \in Own : ShaOf[BlobsOf[r][1].hash] = BlobsOf[r][1].digest
  /\ Cancellable \subseteq FetchTask
  /\ Interruptible \subseteq SweepTask
  /\ MayCrash \in BOOLEAN
  /\ None \notin Digest \cup Hash \cup Release \cup SweepTask

VARIABLES
  releases,   \* releases/<publisher>/<name>/<tag>.json
  index,      \* index/<sha256>.json: the hash of a digest, if recorded
  pins,       \* named tags blob:<sha256> of the blob store
  data,       \* the hashes whose content the blob store holds
  inflight,   \* references being fetched
  readers,    \* fetches that hold gc_lock
  writer,     \* the sweep that holds gc_lock
  fpc, frel, fpos, temp,      \* a fetch: step, release, blob it is at, temp tag
  spc, live, todo, cur,       \* a sweep: step, live hashes, pins to drop, digest
  ppc, prel, ppos,            \* a push: step, release, blob it is at
  phash, pdig,                \* an upload: content read last, digest computed
  appended    \* history: digests whose upload grew between its hash and its import

durable == <<releases, index, pins, data>>
fvars == <<fpc, frel, fpos, temp>>
svars == <<spc, live, todo, cur>>
pvars == <<ppc, prel, ppos, phash, pdig, appended>>
locks == <<inflight, readers, writer>>
vars == <<durable, locks, fvars, svars, pvars>>

\* An index entry: the hash, and whether its media type is known.
IndexEntry == [hash : Hash, typed : BOOLEAN]

\* The steps a fetch takes while it holds gc_lock.
Holding == {"check", "download", "verify", "pin", "index", "write"}
FetchStep == {"idle", "claim", "lock", "unclaim"} \cup Holding

\* The steps a sweep takes while it holds gc_lock.
Sweeping == {"list", "unpin", "drop", "mop"}
SweepStep == {"idle", "lock", "lockprune"} \cup Sweeping

PushStep == {"idle", "hashed", "upload", "collect", "retag", "record", "compare", "write"}

TypeOK ==
  /\ releases \in [Reference -> Release \cup {None}]
  /\ index \in [Digest -> IndexEntry \cup {None}]
  /\ pins \in [Digest -> Hash \cup {None}]
  /\ data \subseteq Hash
  /\ inflight \subseteq Reference
  /\ readers \subseteq FetchTask
  /\ writer \in SweepTask \cup {None}
  /\ fpc \in [FetchTask -> FetchStep]
  /\ frel \in [FetchTask -> Release]
  /\ fpos \in [FetchTask -> Nat \ {0}]
  /\ temp \in [FetchTask -> Hash \cup {None}]
  /\ spc \in [SweepTask -> SweepStep]
  /\ live \in [SweepTask -> SUBSET Hash]
  /\ todo \in [SweepTask -> SUBSET Digest]
  /\ cur \in [SweepTask -> Digest \cup {None}]
  /\ ppc \in [PushTask -> PushStep]
  /\ prel \in [PushTask -> Release]
  /\ ppos \in [PushTask -> Nat \ {0}]
  /\ phash \in [PushTask -> Hash \cup {None}]
  /\ pdig \in [PushTask -> Digest \cup {None}]
  /\ appended \subseteq Digest

-----------------------------------------------------------------------------
\* Helpers.

Stored == {ref \in Reference : releases[ref] # None}

\* What the locals of a task that is not running stand at.
AnyRelease == CHOOSE r \in Release : TRUE

Positions(r) == 1..Len(BlobsOf[r])
HashesOf(r) == {BlobsOf[r][i].hash : i \in Positions(r)}

\* "Everything any remaining release references stays."
LiveHashes(rels) ==
  UNION {HashesOf(rels[ref]) : ref \in {x \in Reference : rels[x] # None}}

PinnedHashes == {h \in Hash : \E d \in Digest : pins[d] = h}

\* The blob that a fetch, or a push collecting references, is at.
FBlob(t) == BlobsOf[frel[t]][fpos[t]]
PBlob(p) == BlobsOf[prel[p]][ppos[p]]

\* A newer timestamp wins; within one second any other manifest does.
Supersedes(new, old) ==
  \/ Stamp[new] > Stamp[old]
  \/ /\ Stamp[new] = Stamp[old]
     /\ BlobsOf[new][1].digest # BlobsOf[old][1].digest

\* put_release keeps the stored record unless the new one supersedes it.
Accepts(r) ==
  releases[RefOf[r]] # None => Supersedes(r, releases[RefOf[r]])

-----------------------------------------------------------------------------
\* Fetches.

\* Mutant of FetchDone: the position is reset to zero.
FetchDoneAtZero(t) ==
  /\ fpc' = [fpc EXCEPT ![t] = "idle"]
  /\ frel' = [frel EXCEPT ![t] = AnyRelease]
  /\ fpos' = [fpos EXCEPT ![t] = 0]

\* The task is over and its locals are gone.
FetchDone(t) ==
  /\ fpc' = [fpc EXCEPT ![t] = "idle"]
  /\ frel' = [frel EXCEPT ![t] = AnyRelease]
  /\ fpos' = [fpos EXCEPT ![t] = 1]

\* A caller hands fetch_release a release whose signature verifies.
FetchStart(t, r) ==
  /\ fpc[t] = "idle"
  /\ fpc' = [fpc EXCEPT ![t] = "claim"]
  /\ frel' = [frel EXCEPT ![t] = r]
  /\ UNCHANGED <<durable, locks, fpos, temp, svars, pvars>>

\* Mutant of FetchClaim: a reference that is being fetched is claimed again.
FetchClaimTwice(t) ==
  /\ fpc[t] = "claim"
  /\ inflight' = inflight \cup {RefOf[frel[t]]}
  /\ fpc' = [fpc EXCEPT ![t] = "lock"]
  /\ UNCHANGED <<durable, readers, writer, frel, fpos, temp, svars, pvars>>

\* De-duplicate concurrent fetches of the same reference; a fetch that finds
\* the reference taken sleeps and polls again.
FetchClaim(t) ==
  /\ fpc[t] = "claim"
  /\ RefOf[frel[t]] \notin inflight
  /\ inflight' = inflight \cup {RefOf[frel[t]]}
  /\ fpc' = [fpc EXCEPT ![t] = "lock"]
  /\ UNCHANGED <<durable, readers, writer, frel, fpos, temp, svars, pvars>>

\* Mutant of FetchLock: the fetch does not wait for a running sweep.
FetchLockAnyway(t) ==
  /\ fpc[t] = "lock"
  /\ readers' = readers \cup {t}
  /\ fpc' = [fpc EXCEPT ![t] = "check"]
  /\ UNCHANGED <<durable, inflight, writer, frel, fpos, temp, svars, pvars>>

FetchLock(t) ==
  /\ fpc[t] = "lock"
  /\ writer = None
  /\ readers' = readers \cup {t}
  /\ fpc' = [fpc EXCEPT ![t] = "check"]
  /\ UNCHANGED <<durable, inflight, writer, frel, fpos, temp, svars, pvars>>

\* The three cases of the loop body: the data is missing (protect the hash and
\* download it), present but not indexed, present and indexed (nothing to do).
FetchCheck(t) ==
  /\ fpc[t] = "check"
  /\ fpos[t] \in Positions(frel[t])
  /\ LET b == FBlob(t) IN
     \/ /\ b.hash \notin data
        /\ temp' = [temp EXCEPT ![t] = b.hash]
        /\ fpc' = [fpc EXCEPT ![t] = "download"]
        /\ UNCHANGED fpos
     \/ /\ b.hash \in data
        /\ index[b.digest] = None
        /\ fpc' = [fpc EXCEPT ![t] = "verify"]
        /\ UNCHANGED <<temp, fpos>>
     \/ /\ b.hash \in data
        /\ index[b.digest] # None
        /\ fpos' = [fpos EXCEPT ![t] = @ + 1]
        /\ UNCHANGED <<temp, fpc>>
  /\ UNCHANGED <<durable, locks, frel, svars, pvars>>

\* The downloader checks the bytes against their BLAKE3 hash.
FetchDownload(t) ==
  /\ fpc[t] = "download"
  /\ data' = data \cup {FBlob(t).hash}
  /\ fpc' = [fpc EXCEPT ![t] = "verify"]
  /\ UNCHANGED <<releases, index, pins, locks, frel, fpos, temp, svars, pvars>>

\* Mutant of FetchVerify: the claimed digest is believed.
FetchVerifyNothing(t) ==
  /\ fpc[t] = "verify"
  /\ FBlob(t).hash \in data
  /\ fpc' = [fpc EXCEPT ![t] = "pin"]
  /\ UNCHANGED <<durable, locks, frel, fpos, temp, svars, pvars>>

\* verify_blob reads the content back and compares its sha256.
FetchVerify(t) ==
  /\ fpc[t] = "verify"
  /\ FBlob(t).hash \in data
  /\ ShaOf[FBlob(t).hash] = FBlob(t).digest
  /\ fpc' = [fpc EXCEPT ![t] = "pin"]
  /\ UNCHANGED <<durable, locks, frel, fpos, temp, svars, pvars>>

\* record_blob: the pin first, then the index entry.
FetchPin(t) ==
  /\ fpc[t] = "pin"
  /\ pins' = [pins EXCEPT ![FBlob(t).digest] = FBlob(t).hash]
  /\ fpc' = [fpc EXCEPT ![t] = "index"]
  /\ UNCHANGED <<releases, index, data, locks, frel, fpos, temp, svars, pvars>>

\* The temp tag is dropped at the end of the loop body.
FetchIndex(t) ==
  /\ fpc[t] = "index"
  /\ index' = [index EXCEPT ![FBlob(t).digest] = [hash |-> FBlob(t).hash, typed |-> TRUE]]
  /\ temp' = [temp EXCEPT ![t] = None]
  /\ fpos' = [fpos EXCEPT ![t] = @ + 1]
  /\ fpc' = [fpc EXCEPT ![t] = "check"]
  /\ UNCHANGED <<releases, pins, data, locks, frel, svars, pvars>>

\* put_release reads the stored record and, if it is superseded, writes; both
\* ways the guard of gc_lock is dropped on return.
FetchCompare(t) ==
  /\ fpc[t] = "check"
  /\ fpos[t] \notin Positions(frel[t])
  /\ IF Accepts(frel[t])
       THEN /\ fpc' = [fpc EXCEPT ![t] = "write"]
            /\ UNCHANGED readers
       ELSE /\ fpc' = [fpc EXCEPT ![t] = "unclaim"]
            /\ readers' = readers \ {t}
  /\ UNCHANGED <<durable, inflight, writer, frel, fpos, temp, svars, pvars>>

FetchWrite(t) ==
  /\ fpc[t] = "write"
  /\ releases' = [releases EXCEPT ![RefOf[frel[t]]] = frel[t]]
  /\ readers' = readers \ {t}
  /\ fpc' = [fpc EXCEPT ![t] = "unclaim"]
  /\ UNCHANGED <<index, pins, data, inflight, writer, frel, fpos, temp, svars, pvars>>

\* No provider, a failed download, a digest that does not match, an I/O error:
\* the error leaves fetch_release_inner, dropping the temp tag and the guard.
FetchFail(t) ==
  /\ fpc[t] \in Holding
  /\ temp' = [temp EXCEPT ![t] = None]
  /\ readers' = readers \ {t}
  /\ fpc' = [fpc EXCEPT ![t] = "unclaim"]
  /\ UNCHANGED <<durable, inflight, writer, frel, fpos, svars, pvars>>

\* Mutant of FetchUnclaim: the reference stays in the inflight set.
FetchUnclaimNothing(t) ==
  /\ fpc[t] = "unclaim"
  /\ FetchDone(t)
  /\ UNCHANGED <<durable, locks, temp, svars, pvars>>

FetchUnclaim(t) ==
  /\ fpc[t] = "unclaim"
  /\ inflight' = inflight \ {RefOf[frel[t]]}
  /\ FetchDone(t)
  /\ UNCHANGED <<durable, readers, writer, temp, svars, pvars>>

\* The pull that awaits this fetch times out, or its client goes away: the
\* future is dropped with its guard and its temp tag.  Nothing removes the
\* reference from the inflight set.
FetchCancel(t) ==
  /\ t \in Cancellable
  /\ fpc[t] # "idle"
  /\ temp' = [temp EXCEPT ![t] = None]
  /\ readers' = readers \ {t}
  /\ FetchDone(t)
  /\ UNCHANGED <<durable, inflight, writer, svars, pvars>>

-----------------------------------------------------------------------------
\* Sweeps.

SweepDone(s) ==
  /\ spc' = [spc EXCEPT ![s] = "idle"]
  /\ live' = [live EXCEPT ![s] = {}]
  /\ todo' = [todo EXCEPT ![s] = {}]
  /\ cur' = [cur EXCEPT ![s] = None]

\* Node::remove_release: the records go first, without the lock; the sweep
\* that follows takes it.
RemoveRelease(s) ==
  /\ spc[s] = "idle"
  /\ \E gone \in SUBSET Stored \ {{}} :
       releases' = [ref \in Reference |-> IF ref \in gone THEN None ELSE releases[ref]]
  /\ spc' = [spc EXCEPT ![s] = "lock"]
  /\ UNCHANGED <<index, pins, data, locks, fvars, live, todo, cur, pvars>>

\* Node::gc and enforce_window take the lock first.
PruneStart(s) ==
  /\ spc[s] = "idle"
  /\ spc' = [spc EXCEPT ![s] = "lockprune"]
  /\ UNCHANGED <<durable, locks, fvars, live, todo, cur, pvars>>

\* Mutant of SweepLock: the sweep does not wait for running fetches.
SweepLockAnyway(s) ==
  /\ spc[s] \in {"lock", "lockprune"}
  /\ writer = None
  /\ writer' = s
  /\ \E gone \in SUBSET {ref \in Stored : releases[ref] \notin Own} :
       /\ spc[s] = "lock" => gone = {}
       /\ releases' = [ref \in Reference |-> IF ref \in gone THEN None ELSE releases[ref]]
  /\ live' = [live EXCEPT ![s] = LiveHashes(releases')]
  /\ spc' = [spc EXCEPT ![s] = "list"]
  /\ UNCHANGED <<index, pins, data, inflight, readers, fvars, todo, cur, pvars>>

\* With the lock held: remove the records retention does not keep (only ever
\* another publisher's), and compute what the remaining releases reference.
SweepLock(s) ==
  /\ spc[s] \in {"lock", "lockprune"}
  /\ writer = None
  /\ readers = {}
  /\ writer' = s
  /\ \E gone \in SUBSET {ref \in Stored : releases[ref] \notin Own} :
       /\ spc[s] = "lock" => gone = {}
       /\ releases' = [ref \in Reference |-> IF ref \in gone THEN None ELSE releases[ref]]
  /\ live' = [live EXCEPT ![s] = LiveHashes(releases')]
  /\ spc' = [spc EXCEPT ![s] = "list"]
  /\ UNCHANGED <<index, pins, data, inflight, readers, fvars, todo, cur, pvars>>

SweepList(s) ==
  /\ spc[s] = "list"
  /\ todo' = [todo EXCEPT ![s] = {d \in Digest : pins[d] # None /\ pins[d] \notin live[s]}]
  /\ spc' = [spc EXCEPT ![s] = "unpin"]
  /\ UNCHANGED <<durable, locks, fvars, live, cur, pvars>>

\* For each of them: the pin, then the index entry.
SweepUnpin(s) ==
  /\ spc[s] = "unpin"
  /\ \E d \in todo[s] :
       /\ pins' = [pins EXCEPT ![d] = None]
       /\ todo' = [todo EXCEPT ![s] = @ \ {d}]
       /\ cur' = [cur EXCEPT ![s] = d]
  /\ spc' = [spc EXCEPT ![s] = "drop"]
  /\ UNCHANGED <<releases, index, data, locks, fvars, live, pvars>>

SweepDrop(s) ==
  /\ spc[s] = "drop"
  /\ index' = [index EXCEPT ![cur[s]] = None]
  /\ spc' = [spc EXCEPT ![s] = "unpin"]
  /\ UNCHANGED <<releases, pins, data, locks, fvars, live, todo, cur, pvars>>

\* List the pins again ...
SweepRelist(s) ==
  /\ spc[s] = "unpin"
  /\ todo[s] = {}
  /\ live' = [live EXCEPT ![s] = @ \cup PinnedHashes]
  /\ spc' = [spc EXCEPT ![s] = "mop"]
  /\ UNCHANGED <<durable, locks, fvars, todo, cur, pvars>>

\* ... and drop the index entries that are neither live nor pinned.
SweepMop(s) ==
  /\ spc[s] = "mop"
  /\ index' = [d \in Digest |->
       IF index[d] # None /\ index[d].hash \notin live[s] THEN None ELSE index[d]]
  /\ writer' = None
  /\ SweepDone(s)
  /\ UNCHANGED <<releases, pins, data, inflight, readers, fvars, pvars>>

\* The handler's future is dropped, or a step returns an error: the guard goes
\* and the rest of the sweep is not done.
SweepInterrupt(s) ==
  /\ s \in Interruptible
  /\ spc[s] # "idle"
  /\ SweepDone(s)
  /\ writer' = IF writer = s THEN None ELSE writer
  /\ UNCHANGED <<durable, inflight, readers, fvars, pvars>>

-----------------------------------------------------------------------------
\* Pushes.

PushDone(p) ==
  /\ ppc' = [ppc EXCEPT ![p] = "idle"]
  /\ prel' = [prel EXCEPT ![p] = AnyRelease]
  /\ ppos' = [ppos EXCEPT ![p] = 1]
  /\ phash' = [phash EXCEPT ![p] = None]
  /\ pdig' = [pdig EXCEPT ![p] = None]
  /\ UNCHANGED appended

\* put_blob_file reads the upload's file and computes its digest ...
PushHash(p) ==
  /\ ppc[p] = "idle"
  /\ \E h \in DOMAIN GrowsTo :
       /\ phash' = [phash EXCEPT ![p] = h]
       /\ pdig' = [pdig EXCEPT ![p] = ShaOf[h]]
  /\ ppc' = [ppc EXCEPT ![p] = "hashed"]
  /\ UNCHANGED <<durable, locks, fvars, svars, prel, ppos, appended>>

\* ... imports what the file holds by now, which is other content when another
\* body of the session was appended meanwhile; data and the pin of the digest
\* computed before are set together ...
PushUpload(p) ==
  /\ ppc[p] = "hashed"
  /\ \E h \in {phash[p]} \cup GrowsTo[phash[p]] :
       /\ data' = data \cup {h}
       /\ pins' = [pins EXCEPT ![pdig[p]] = h]
       /\ phash' = [phash EXCEPT ![p] = h]
       /\ appended' = IF h = phash[p] THEN appended ELSE appended \cup {pdig[p]}
  /\ ppc' = [ppc EXCEPT ![p] = "upload"]
  /\ UNCHANGED <<releases, index, locks, fvars, svars, prel, ppos, pdig>>

\* ... and the index entry follows, its media type unknown.
PushUploadIndex(p) ==
  /\ ppc[p] = "upload"
  /\ index' = [index EXCEPT ![pdig[p]] = [hash |-> phash[p], typed |-> FALSE]]
  /\ PushDone(p)
  /\ UNCHANGED <<releases, pins, data, locks, fvars, svars>>

\* manifest_put into our own namespace.
PushStart(p, r) ==
  /\ ppc[p] = "idle"
  /\ r \in Own
  /\ ppc' = [ppc EXCEPT ![p] = "collect"]
  /\ prel' = [prel EXCEPT ![p] = r]
  /\ ppos' = [ppos EXCEPT ![p] = 2]
  /\ UNCHANGED <<durable, locks, fvars, svars, phash, pdig, appended>>

\* collect_refs: a referenced blob must be indexed and present, else 400; an
\* entry without a media type is recorded again, pin first.  The pair collected
\* is the index's: with another hash than this release's the push makes another
\* release, not this one.
PushCollect(p) ==
  /\ ppc[p] = "collect"
  /\ ppos[p] \in Positions(prel[p])
  /\ LET e == index[PBlob(p).digest] IN
     \/ /\ e = None \/ (e # None /\ (e.hash \notin data \/ e.hash # PBlob(p).hash))
        /\ PushDone(p)
        /\ UNCHANGED pins
     \/ /\ e # None /\ e.hash = PBlob(p).hash /\ e.hash \in data /\ ~e.typed
        /\ pins' = [pins EXCEPT ![PBlob(p).digest] = PBlob(p).hash]
        /\ ppc' = [ppc EXCEPT ![p] = "retag"]
        /\ UNCHANGED <<prel, ppos, phash, pdig, appended>>
     \/ /\ e # None /\ e.hash = PBlob(p).hash /\ e.hash \in data /\ e.typed
        /\ ppos' = [ppos EXCEPT ![p] = @ + 1]
        /\ UNCHANGED <<pins, ppc, prel, phash, pdig, appended>>
  /\ UNCHANGED <<releases, index, data, locks, fvars, svars>>

PushRetag(p) ==
  /\ ppc[p] = "retag"
  /\ index' = [index EXCEPT ![PBlob(p).digest] = [hash |-> PBlob(p).hash, typed |-> TRUE]]
  /\ ppos' = [ppos EXCEPT ![p] = @ + 1]
  /\ ppc' = [ppc EXCEPT ![p] = "collect"]
  /\ UNCHANGED <<releases, pins, data, locks, fvars, svars, prel, phash, pdig, appended>>

\* put_blob_bytes of the manifest itself: data and pin, then the index entry.
PushManifest(p) ==
  /\ ppc[p] = "collect"
  /\ ppos[p] \notin Positions(prel[p])
  /\ LET m == BlobsOf[prel[p]][1] IN
       /\ data' = data \cup {m.hash}
       /\ pins' = [pins EXCEPT ![m.digest] = m.hash]
  /\ ppc' = [ppc EXCEPT ![p] = "record"]
  /\ UNCHANGED <<releases, index, locks, fvars, svars, prel, ppos, phash, pdig, appended>>

PushRecord(p) ==
  /\ ppc[p] = "record"
  /\ LET m == BlobsOf[prel[p]][1] IN
       index' = [index EXCEPT ![m.digest] = [hash |-> m.hash, typed |-> TRUE]]
  /\ ppc' = [ppc EXCEPT ![p] = "compare"]
  /\ UNCHANGED <<releases, pins, data, locks, fvars, svars, prel, ppos, phash, pdig,
                 appended>>

\* Node::publish: put_release, whose answer is not looked at.
PushCompare(p) ==
  /\ ppc[p] = "compare"
  /\ \/ /\ Accepts(prel[p])
        /\ ppc' = [ppc EXCEPT ![p] = "write"]
        /\ UNCHANGED <<prel, ppos, phash, pdig, appended>>
     \/ /\ ~Accepts(prel[p])
        /\ PushDone(p)
  /\ UNCHANGED <<durable, locks, fvars, svars>>

PushWrite(p) ==
  /\ ppc[p] = "write"
  /\ releases' = [releases EXCEPT ![RefOf[prel[p]]] = prel[p]]
  /\ PushDone(p)
  /\ UNCHANGED <<index, pins, data, locks, fvars, svars>>

\* The client goes away, or a step returns an error.
PushAbort(p) ==
  /\ ppc[p] # "idle"
  /\ PushDone(p)
  /\ UNCHANGED <<durable, locks, fvars, svars>>

-----------------------------------------------------------------------------
\* The blob store's own mark and sweep (iroh-blobs, external).
BlobGC ==
  LET protected == PinnedHashes \cup {temp[t] : t \in FetchTask} IN
  /\ ~(data \subseteq protected)
  /\ data' = data \cap protected
  /\ UNCHANGED <<releases, index, pins, locks, fvars, svars, pvars>>

\* The daemon is killed and starts again: what is on disk stays.
Crash ==
  /\ MayCrash
  /\ inflight' = {} /\ readers' = {} /\ writer' = None
  /\ fpc' = [t \in FetchTask |-> "idle"]
  /\ frel' = [t \in FetchTask |-> AnyRelease]
  /\ fpos' = [t \in FetchTask |-> 1]
  /\ temp' = [t \in FetchTask |-> None]
  /\ spc' = [s \in SweepTask |-> "idle"]
  /\ live' = [s \in SweepTask |-> {}]
  /\ todo' = [s \in SweepTask |-> {}]
  /\ cur' = [s \in SweepTask |-> None]
  /\ ppc' = [p \in PushTask |-> "idle"]
  /\ prel' = [p \in PushTask |-> AnyRelease]
  /\ ppos' = [p \in PushTask |-> 1]
  /\ phash' = [p \in PushTask |-> None]
  /\ pdig' = [p \in PushTask |-> None]
  /\ UNCHANGED <<durable, appended>>

Init ==
  /\ releases = [ref \in Reference |-> None]
  /\ index = [d \in Digest |-> None]
  /\ pins = [d \in Digest |-> None]
  /\ data = {}
  /\ inflight = {} /\ readers = {} /\ writer = None
  /\ fpc = [t \in FetchTask |-> "idle"]
  /\ frel = [t \in FetchTask |-> AnyRelease]
  /\ fpos = [t \in FetchTask |-> 1]
  /\ temp = [t \in FetchTask |-> None]
  /\ spc = [s \in SweepTask |-> "idle"]
  /\ live = [s \in SweepTask |-> {}]
  /\ todo = [s \in SweepTask |-> {}]
  /\ cur = [s \in SweepTask |-> None]
  /\ ppc = [p \in PushTask |-> "idle"]
  /\ prel = [p \in PushTask |-> AnyRelease]
  /\ ppos = [p \in PushTask |-> 1]
  /\ phash = [p \in PushTask |-> None]
  /\ pdig = [p \in PushTask |-> None]
  /\ appended = {}

FetchStepOf(t) ==
  \/ FetchClaim(t) \/ FetchLock(t) \/ FetchCheck(t) \/ FetchDownload(t)
  \/ FetchVerify(t) \/ FetchPin(t) \/ FetchIndex(t) \/ FetchCompare(t)
  \/ FetchWrite(t) \/ FetchFail(t) \/ FetchUnclaim(t)

SweepStepOf(s) ==
  \/ SweepLock(s) \/ SweepList(s) \/ SweepUnpin(s) \/ SweepDrop(s)
  \/ SweepRelist(s) \/ SweepMop(s)

PushStepOf(p) ==
  \/ PushUpload(p) \/ PushUploadIndex(p) \/ PushCollect(p) \/ PushRetag(p)
  \/ PushManifest(p) \/ PushRecord(p) \/ PushCompare(p) \/ PushWrite(p)

Next ==
  \/ \E t \in FetchTask :
       \/ \E r \in Release \ Own : FetchStart(t, r)
       \/ FetchStepOf(t)
       \/ FetchCancel(t)
  \/ \E s \in SweepTask :
       \/ RemoveRelease(s) \/ PruneStart(s)
       \/ SweepStepOf(s)
       \/ SweepInterrupt(s)
  \/ \E p \in PushTask :
       \/ PushHash(p)
       \/ \E r \in Own : PushStart(p, r)
       \/ PushStepOf(p)
       \/ PushAbort(p)
  \/ BlobGC
  \/ Crash

Spec == Init /\ [][Next]_vars

\* A running task keeps running, and tokio's RwLock is a FIFO: a waiting fetch
\* or sweep gets the lock in its turn.  Nothing makes a fetch, a sweep or a
\* push start, and the claim of a reference is a polling loop without a queue.
Fairness ==
  /\ \A t \in FetchTask : SF_vars(FetchLock(t)) /\ WF_vars(FetchStepOf(t))
  /\ \A s \in SweepTask : SF_vars(SweepLock(s)) /\ WF_vars(SweepStepOf(s))

FairSpec == Spec /\ Fairness

-----------------------------------------------------------------------------
\* Properties.

\* Every index entry and every pin maps a digest to content with that sha256,
\* whatever pairs the fetched releases claim and wherever tasks stop, unless an
\* upload of that very digest grew between put_blob_file's hash and its import:
\* verify_blob runs before record_blob, and collect_refs records an entry again
\* as the index has it.  Nothing else, and no other digest, is ever mislabelled.
IndexTruthful ==
  \A d \in Digest \ appended :
    /\ index[d] # None => ShaOf[index[d].hash] = d
    /\ pins[d] # None => ShaOf[pins[d]] = d

\* "A sweep must never run while a download is between complete and pinned"
\* (Node.gc_lock): no pin is dropped while a fetch holds the lock.
NoUnpinDuringFetch ==
  [][readers # {} => \A d \in Digest : pins[d] # None => pins'[d] # None]_vars

\* A stored replica is only replaced by a release that supersedes it, although
\* put_release reads and writes in two steps: inflight keeps two fetches of
\* one reference apart.
ReplicaNeverRollsBack ==
  [][\A ref \in Reference :
       LET old == releases[ref]
           new == releases'[ref]
       IN  (old # None /\ new # None /\ new # old /\ new \notin Own)
             => Supersedes(new, old)]_vars

\* Every blob of a stored release is pinned, so that the blob store keeps it.
StoredPinned ==
  \A ref \in Stored : \A i \in Positions(releases[ref]) :
    pins[BlobsOf[releases[ref]][i].digest] # None

\* Every blob of one of our own releases is pinned.
OwnPinned ==
  \A ref \in Stored : releases[ref] \in Own =>
    \A i \in Positions(releases[ref]) :
      pins[BlobsOf[releases[ref]][i].digest] # None

\* The data of every blob of a stored release is there.
StoredPresent ==
  \A ref \in Stored : HashesOf(releases[ref]) \subseteq data

\* A reference that a fetch claims is released again, so that another fetch of
\* it can run.
InflightReleased ==
  \A ref \in Reference : ref \in inflight ~> ref \notin inflight

-----------------------------------------------------------------------------
\* The parts of the inductive invariants behind the properties.

\* A fetch starts at its first blob, a task at a step that looks at a blob is at
\* a blob of its release, a push past its upload is of an own release, and an
\* upload has a hash.
PositionInv ==
  /\ \A t \in FetchTask :
       /\ fpc[t] \in {"idle", "claim", "lock"} => fpos[t] = 1
       /\ fpc[t] \in {"download", "verify", "pin", "index"} => fpos[t] \in Positions(frel[t])
  /\ \A p \in PushTask :
       /\ ppc[p] = "hashed" => phash[p] \in DOMAIN GrowsTo
       /\ ppc[p] \in {"hashed", "upload"} => phash[p] \in Hash /\ pdig[p] \in Digest
       /\ ppc[p] = "retag" => ppos[p] \in Positions(prel[p])
       /\ ppc[p] \notin {"idle", "hashed", "upload"} => prel[p] \in Own

\* The steps of the tasks agree with gc_lock, which never has a reader and a
\* writer together.
LockInv ==
  /\ \A t \in FetchTask : t \in readers <=> fpc[t] \in Holding
  /\ \A s \in SweepTask : writer = s <=> spc[s] \in Sweeping
  /\ writer # None => readers = {}

\* What a fetch pins and indexes has been verified.
VerifiedInv ==
  \A t \in FetchTask :
    fpc[t] \in {"pin", "index"} => ShaOf[FBlob(t).hash] = FBlob(t).digest

\* What a push is about to pin or index has the digest computed for it, unless
\* the upload of that digest has grown.
UploadInv ==
  \A p \in PushTask :
    /\ ppc[p] = "hashed" => ShaOf[phash[p]] = pdig[p]
    /\ ppc[p] = "upload" => ShaOf[phash[p]] = pdig[p] \/ pdig[p] \in appended
    /\ ppc[p] = "retag" =>
         ShaOf[PBlob(p).hash] = PBlob(p).digest \/ PBlob(p).digest \in appended

\* A fetch past its claim owns its reference in the inflight set, alone; so what
\* it is about to write is still accepted.
Claimed(t) == fpc[t] \notin {"idle", "claim"}

ClaimInv ==
  /\ \A t \in FetchTask :
       /\ fpc[t] # "idle" => frel[t] \notin Own
       /\ Claimed(t) => RefOf[frel[t]] \in inflight
       /\ fpc[t] = "write" => Accepts(frel[t])
  /\ \A t, u \in FetchTask :
       (Claimed(t) /\ Claimed(u) /\ RefOf[frel[t]] = RefOf[frel[u]]) => t = u

\* No publisher claims a false pair.
Honest ==
  \A r \in Release : \A i \in Positions(r) : ShaOf[BlobsOf[r][i].hash] = BlobsOf[r][i].digest

\* An index entry has its pin, unless a sweep is between the two removals.
IndexedPinned ==
  \A d \in Digest : index[d] # None =>
    \/ pins[d] # None
    \/ \E s \in SweepTask : spc[s] = "drop" /\ cur[s] = d

Referenced(d) ==
  \E ref \in Stored : \E i \in Positions(releases[ref]) :
    BlobsOf[releases[ref]][i].digest = d

\* While a sweep runs nothing it is about to unpin becomes referenced.
SweepSpares ==
  \A s \in SweepTask :
    /\ spc[s] = "list" => LiveHashes(releases) \subseteq live[s]
    /\ spc[s] \in {"unpin", "drop"} => \A d \in todo[s] : ~Referenced(d)
    /\ spc[s] = "drop" => cur[s] \in Digest /\ ~Referenced(cur[s])

\* The blobs a fetch is past are pinned, and all of them when it writes.
FetchedPinned ==
  \A t \in FetchTask :
    /\ fpc[t] \in Holding =>
         \A i \in Positions(frel[t]) :
           i < fpos[t] => pins[BlobsOf[frel[t]][i].digest] # None
    /\ fpc[t] = "index" => pins[FBlob(t).digest] # None
    /\ fpc[t] = "write" => fpos[t] \notin Positions(frel[t])
=============================================================================
