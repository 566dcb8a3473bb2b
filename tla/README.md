# A TLA+ model of ocid

ocid is a peer-to-peer OCI registry. A daemon serves the registry protocol to
local clients, stores images in a content store, signs what its owner
publishes, and replicates what other publishers sign; `ocictl` and `ocitop`
control it. This directory models the parts of these programs in which several
tasks, processes or nodes, or a crash, can meet, checks them with TLC and proves
the central properties with TLAPS.

Run one with `tlc -config Swarm.cfg MCSwarm`; check a proof with
`tlapm ContentStoreProofs.tla`. `PROJECT.json` holds the same information for
tools: the components, the runs, the lines of code behind every definition,
the hazards, the findings and the theorems.

## 1. Inventory

### Components

| Component | State | Operations | Module |
| --- | --- | --- | --- |
| Content store and GC (`store.rs`, `index.rs`, `node.rs`) | pins, index entries and release records on disk; blob data; `gc_lock`, `inflight`, temp tags in memory | `fetch_release`, `gc`, `enforce_window`, `remove_release`, `sweep_blobs_locked`, `upload_put`, `manifest_put`, `publish`; the blob store's own GC; restart | `ContentStore` |
| Retention windows (`config.rs`) | the rules that match an image | `Policy::window`, `Window::select`, `select_wanted`, `enforce_window` | `Window`, `Retention` |
| Replication (`node.rs`, `p2p/`) | release records of every node, announcements under way, each replica's window | `on_announcement`, `sync_with`, `get_or_fetch`, `enforce_window`, `enforce_all_windows`, `gc`, policy change, `rm` | `Replication` |
| Publishing and referrers (`registry.rs`, `node.rs`, `release.rs`) | own release records, `index/referrers` | `manifest_put`, `attach_referrer`, `publish`, `put_release`, `manifest_delete` | `Publisher` |
| DNS publisher names (`dns_resolver.rs`, `dns.rs`) | lookup cache, TOFU pins and their file | `resolve_zone`, `unpin`, restart | `DnsTofu` |
| Policy store and gossip topics (`config.rs`, `node.rs`, `oci.rs`) | `policy.toml`, the policy in memory, topic subscriptions | `seed`, `follow`, `pin`, `track` and their inverses, `mutate_policy`, `reload_policy`, `sync_topics` | `PolicyRules`, `PolicyStore`, `AtomicPolicy`, `Swarm` |
| Peer set (`node.rs`, `config.rs`, `p2p/`) | `peers.json`, peers, neighbors, last seen | `remember_peer`, `add_peer`, `neighbor_up`, `neighbor_down`, `on_lan_peer`, `join_topics`, start | `Swarm` |
| Blob uploads and reads (`registry.rs`, `store.rs`) | upload sessions and their files, the blob index | `upload_start`, `append_body`, `upload_put`, `upload_cancel`, `upload_status`, `blob_get`, `prune_uploads` | `Uploads` |
| `ocictl` | none | edits the policy through the daemon, or the file without one | `PolicyRules`, `PolicyStore` |
| `ocitop` | lists, selection, modal, log, its copy of the policy | UI loop, keys, polls, event stream | `Dashboard`, `EventStream`, `PolicyStore` |
| HTTP routing and reports, metrics, manifest parsing, identity, TLS | none of their own that another component reads | translation and display | not modelled |
| Podman Desktop extension (`extensions/podman-desktop/src`) | daemon state, poller, transfers | start, poll, follow, merge | not modelled |

### How they interact

* Peers and registry clients never touch the disk: every change goes through
  `Node` or `Store`. The exception is `policy.toml`, which `ocictl` and `ocitop`
  also write. Registry handlers run one task per request and their future is
  dropped when the client leaves or a timeout elapses. Gossip and
  bootstrapping spawn tasks that nobody cancels. `gc` runs on a timer and on
  request.
* `fetch_release` and the sweeps share `gc_lock` (read and write) and
  `inflight` keeps two fetches of one reference apart. Pushes take no lock.
* A publisher's put writes a release record and broadcasts its summary.
  Replicas answer a summary, an inventory or a pull by asking a peer for the
  record and fetching its blobs; then `enforce_window` prunes.
* Policy changes swap the policy in memory and call `enforce_all_windows`;
  running tasks keep what they read.
* A DNS name in a reference is resolved by `DnsService` before anything else;
  the key it answers is the publisher. A policy rule keeps the name, and the
  policy's own table maps it to the key it had when the rule was made.
* A policy change makes `sync_topics` leave and join gossip topics. Who becomes
  a neighbor is introduced to the topics by another task.
* A finished upload enters the content store by `put_blob_file`.
* The daemon's events reach `ocitop` through a broadcast channel, an SSE stream
  and a second channel, each of which has a limit.

### What is hard, and what makes a component correct

* **Content store**: a sweep between "downloaded" and "pinned"; a crash
  between the two halves of a record or of a removal; false digest/hash
  pairs; dropped futures. Correct: index and pins are truthful, what is stored
  is pinned, locks are released, a replica does not go back in time.
* **Retention**: the same selection is made over different knowledge before
  and after a fetch. Correct: the selection is the documented one, nothing is
  fetched and pruned in turns, a sync settles.
* **Replication**: lost and reordered announcements, policy and store that
  change under a running task, broken connections. Correct: a finished sync
  has caught up, an idle node holds its window, pins stay.
* **Publishing**: unsynchronised read-modify-write, timestamps in seconds.
  Correct: what was answered with 201 is stored; newer wins.
* **DNS**: racing first lookups, failing writes, restarts. Correct: one key
  per pin, no answer is forgotten.

* **Policy**: three programs write one file, each from a copy; rules in several
  forms mean the same; a zone changes hands. Correct: an edit is applied to
  what is there, what is asked is in force, what is removed is gone, and the
  topics follow the file.
* **Peers**: neighbors come up while topics are joined; saves fail. Correct: no
  written peer is forgotten, every neighbor is on every topic.
* **Uploads**: requests share a session and a file; bodies break off, clients
  leave. Correct: what is stored has its digest, what the client is told is so,
  no file stays for ever.
* **ocitop**: the list changes under the user's hands; events are cut, missed
  and late. Correct: the confirmed release is deleted and no other, the log
  has the events in their order.

`PROJECT.json` lists 40 hazards with the line where each one bites and the
properties that would notice it.

## 2. The modules

Variables and actions keep the names of the code where possible. Several
actions stand for one handler when it awaits in between; what runs between two
awaits, or under a lock, is one action. Definitions called "Mutant of ..." are
deliberately wrong variants used to make sure that each property can fail;
no specification uses them.

### ContentStore

`releases`, `index`, `pins` and `data` are what is on disk; `inflight`,
`readers`, `writer` and `temp` are `Node.inflight`, `gc_lock` and the temp tags.
Every task has a program counter and its locals.

| Task | Actions | Code |
| --- | --- | --- |
| fetch | `FetchStart`, `FetchClaim`, `FetchLock`, then per blob `FetchCheck`, `FetchDownload`, `FetchVerify`, `FetchPin`, `FetchIndex`, then `FetchCompare`, `FetchWrite`, `FetchUnclaim`; `FetchFail`, `FetchCancel` | `fetch_release`, `fetch_release_inner`, `verify_blob`, `record_blob`, `put_release`; the timeout of `manifest_get` |
| sweep | `RemoveRelease` or `PruneStart`, `SweepLock`, `SweepList`, (`SweepUnpin`, `SweepDrop`)*, `SweepRelist`, `SweepMop`; `SweepInterrupt` | `remove_release`, `gc`, `enforce_window`, `sweep_blobs_locked` |
| push | `PushHash`, `PushUpload`, `PushUploadIndex`; `PushStart`, `PushCollect`, `PushRetag`, `PushManifest`, `PushRecord`, `PushCompare`, `PushWrite`; `PushAbort` | `upload_put`, `put_blob_file`, `manifest_put`, `collect_refs`, `put_blob_bytes`, `publish` |
| environment | `BlobGC` (external), `Crash` | iroh-blobs; a kill and restart |

A hash stands for the content it addresses, and `ShaOf` gives that content's
sha256. A fetched release may claim any pair of digest and hash. Constants say
which tasks may be cancelled, which sweeps may be interrupted and whether the
daemon may crash, so that a run can show what holds with and without them. A
sweep's choice of records to remove is free (any set of other publishers'
records): which ones a window keeps is the business of `Retention`. An upload is hashed
first and imported by its path afterwards, and may have grown in between
(`GrowsTo`); the history variable `appended` has the digests to which that happened.

### Window and Retention

`Window` has the selection itself: `Select` is `Window::select` with its sort,
its `dedup_by` and its `take`, and `InWindow` the definition it is compared
with. Tags are numbers with the order of the strings. `Retention` is one image
at one node with one sync at a time, over every combination of rules, store
and inventory.

### Replication

One image, a publisher and replicas, each with several tasks. `held` are the
release records, `announced` every summary ever broadcast: a replica reads any
of them at any time and any number of times, which covers loss, duplication,
delay and reordering. A task is a `sync`, an `announce`, a `pull`, a `policy`
change, a `gc` or an `rm`; `Enforce` reads the policy and `Prune` acts on it,
as in `enforce_window`. A release is stored in one step: `ContentStore` shows
that a record is written only when its blobs are there and pinned. With
several images in one inventory the policy `sync_with` read is older for the
later ones; one image has the first of them, and its enforcement reads the
policy again in both cases.

A task may end at any step: `Leave` is a client that goes away (its handler is
dropped at an await, also between the swap of a policy and the enforcement) or
an I/O error, `Restart` a daemon that stops and starts with whatever policy is on
disk. Nothing at the start enforces a window.

`calm` and `owing` are history variables, used by properties only. `owing` has the
replicas at which the last task that stored something or changed the policy
ended without enforcing the window.

### Publisher

The requests of the publisher's own clients: `PutImage` and `PutReferrer`
start a `manifest_put`, `ListSubjects` and `SignAgain` are `attach_referrer`,
`Compare` and `Write` the two halves of `put_release`, `Created` and `Abort`
the ends. A referrer that is pushed under a tag is a `PutReferrer` followed by
a `PutImage`. `Apart = TRUE` restricts the clients: while a referrer is put, no other
request is about its subject (requests on the same tags may meet). The code has no
such restriction, and `PubLostReferrer` shows what it costs. `saw` is the record a put has compared
with; it and `lone`, `acked` and `attached` are history variables.

### DnsTofu

`resolve_zone` is `CacheMiss`, `Lookup` or `LookupNothing`, then one of `Refuse`,
`Confirm` and `PinKey` under the lock of the pins, `SavePins` or `SaveFail`, `CacheKey`;
`unpin` is `UnpinZone`, `Forget` or `UnpinFail`. A cache hit changes nothing and has
no action. A record is a key, or unusable (bad signature or stale); its text and its
signature are not modelled, nor are the relay and seed hints. `validated`,
`unsaved` and `lapsed` are history variables.

### PolicyRules

The policy as the file has it (`file`), changed by one request after the other.
`Save` and `Load` are the conversions of `policy.toml`: a default mode is not
written, a missing one is read as the default. A rule keeps the form it was
written in, `Slot`: hex, did:key, a zone or another word. `ParsePublisherArg`,
`ParseSeedRule` and `ParseImageRef` give the forms their meaning; `AddSeed` to
`RemoveAlias` are the editors of `config.rs`; `DaemonSeed`, `OfflineSeed` and so on
are the requests of `node.rs` and the branches of `ocictl` without a daemon, which
resolve differently. `Answer` is the outcome of a lookup (`DnsTofu` has the lookup
itself), `Published` the keys that a zone may have had, `Tracked` what aliases are
given for: any key, our own too. Names and tags are
atoms: the grammar of references is not modelled.

### PolicyStore and AtomicPolicy

Who writes the file when. Rules are opaque. A request to the daemon is `Mutate`
(copy and edit), `MutateSave`, `Swap`, `Settle`; `ocictl` is `CtlOffline` or `CtlTrack`,
`CtlLoad`, `CtlWrite`; `ocitop` is `TopPoll`, `TopEdit`, `TopWrite`; the last two ask for a
`Reload`. `Start` reads the file and the daemon listens only after `Settle`: in
between `ocictl` takes it for stopped. `Stop` and `Leave` (a client that goes away
drops its handler) end an operation in the middle. `AtomicPolicy` is what a user
may expect: an edit that was asked for is applied to the policy in one step or
fails, and is answered. `EditsAtomic` states that `PolicyStore` implements it,
with `file` as the policy and an edit asked for until the file is written.
`EditsKeepOthers` is what the code ensures with any overlap: an edit is lost only by
a writer that read something else than the file said, or an earlier file. The
history variable `stale` says who has.

### Swarm

Extends `PolicyStore` and replaces `Settle` by the steps of `sync_topics`: `TopicsWanted`,
`TopicsNeighbors`, `TopicsPeers`, `TopicsSubscribe`, with the peers each topic was
introduced to. `NeighborUp` and `NeighborIntroduce` are the two halves of
`neighbor_up` in the receive loop; `Hello`, `AddPeer`, `LanPeer` and `JoinTopics` the
other ways in which peers become known; `StartNode` and `StopNode` load and lose
them. `ClientLeaves` drops a handler inside `sync_topics`; the history variable
`owing` says that no later change has made up for it. The history variable `missed` has
the peers that were introduced between the moment a `sync_topics` read the neighbors
and the moment it joins its topics.

### Uploads

Requests on sessions. `Start` and `StartEnter` are `upload_start`; `Begin`,
`AppendLookup`, `AppendOpen`, `AppendChunk`, `AppendMeasure`, `AppendRecord` are
`append_body`; `PutTake`, `PutHash`, `PutImport`, `PutAnswer` are `upload_put` with
`put_blob_file`; `AppendBreaks` and `Leave` are bodies and clients that break off. A
content is a sequence of chunks and is its own digest. A file whose path was
removed while it is open takes further chunks that nobody will read. `ParseRange`,
`BlobGet` and `UploadStatus` are the reads. `Apart = TRUE`: while a body is being sent
on a session nothing else is sent on it but cancels, and requests without a body
(retries) may meet each other.

### EventStream and Dashboard

`EventStream` follows an event from `emit` through the broadcast channel, the SSE
stream and `listen_sse`: the stream is a sequence of tokens that arrives in chunks
cut anywhere, and frames end with an empty line. `Dashboard` extends it by the
UI loop of `ocitop`: `OnEvent`, `PollDue`, `Draw`, `OnKey` or `NoKey`, `Answered`. `on_key` is
split into one action per modal and per group of keys. A key carries the screen
that was drawn when it was pressed, so that properties can compare what the
user saw with what happens. `Budget` bounds keys, changes of the list, events and
disconnects together.

## 3. The runs

| Run | Instance | Shows | States |
| --- | --- | --- | --- |
| `StoreLive` | 2 fetches of one reference whose releases share a layer, 1 sweep, fair, nobody cancels | `StoredPinned`, `ReplicaNeverRollsBack`, `InflightReleased` | 0.1 M |
| `StoreAll` | 1 cancellable fetch of a release with a false pair, 1 interruptible sweep, 1 push of an own release and of uploads that may grow; restarts | `IndexTruthful`, `NoUnpinDuringFetch` | 2.8 M |
| `Retention` | 3 tags, 3 timestamps, modes full, 1, 2, 3 | `SelectExact`, `NoThrash`, `SyncSettles` | 0.5 M |
| `Replication` | 1 replica, 2 tasks of any kind, 2 tags, 2 seconds, a referrer, failures, clients that leave, restarts; policies none and `latest` with a pin | `QuietWindow`, `SyncCatchesUp` | 0.5 M |
| `DnsTofu` | 1 zone, 2 keys, 3 requests | `OneKeyPerPin`, `AnswersDurable` | 15 k |
| `Publisher` | 2 tags, 2 manifests, 2 referrers, 2 requests that meet on tags, deletes, 2 seconds | `ReferrersAttached`, `NewerWins` | 1.2 M |
| `PolicyRules` | 3 keys, a zone with 2 of them, 2 words as aliases of another publisher or of its image, 1 image, 1 tag, modes full, `last:0`, `last:1`, 2 entries | `NoRuleIgnored`, `AskedIsInForce`, `RemovedIsGone`, `OnlyWhatWasAsked`, `PullsFollowTheRecord` | 9 k |
| `Swarm` | a request, an `ocictl`, an `ocitop`, 2 rules, 1 peer, 2 edits, a stop, failing saves of the peers, clients that leave inside `sync_topics` | `EditsAtomic`, `TopicsFollowTheFile`, `TopicJoined`, `NeighborsIntroduced`, `PeersDurable` | 0.24 M |
| `Uploads` | 1 session, 2 requests, contents of at most 2 chunks, a stop | `StoredMatches`, `FilesHaveSessions`, `StatusTruthful`, `RangesExact`, `FilesGo` | 0.37 M |
| `Dashboard` | 2 releases, 10 keys, 2 events, a budget of 4 | `DeletesWhatWasConfirmed`, `ActsOnTheRow`, `EventsInOrder`, `EventsReachTheLog` | 0.67 M |
| `StorePushSwept` | 1 push, 1 sweep | violates `OwnPinned` | |
| `PolicyLostUpdate` | 1 request, 1 `ocitop` | violates `EditsAtomic` | |

Most passing runs also check their module's type invariant; those of `Retention`
and `Swarm` hold in the same instances.

**Bounds.** Two fetches and a sweep are enough for every conflict over
`gc_lock` (reader and reader, reader and writer) and over `inflight`; a third
fetch of the same reference would only wait. Two releases of one reference let
one supersede the other, and the shared layer lets a sweep of one release hit
a blob of another. Two tasks of a replica are any pair of handlers; a third
repeats the conflicts of a pair. `last:2` is left to `Retention` and to the
proofs, which take any `Policies`. `Replication` compares states without the `calm` of
a task that is no sync (`VIEW`): a sync sets it first, and nothing else reads it. An
alias of our own key names what the bare name does; the run leaves it to the proofs,
which take any `Tracked`. Three tags are the least for which `last:2`
excludes one, and three timestamps let one tag have two of them with another
tag's between. In `Publisher` two requests are the least of which one writes
between the comparison and the write of the other. `MaxClock`, `PerSecond` and `MaxTime` bound the clocks; the
comparisons in the code look only at their order. In `PolicyRules` two entries
(`MaxRules`) are the least with which rules in two forms can mean the same, and a
zone needs two keys to change hands. In `Swarm` two edits are a change and another
that would undo it, and one stop puts a restart anywhere. In `Uploads` two chunks
are the least that a body can break between, and two requests the least that
can meet. In `Dashboard` the channels hold one event so that they overflow, and a
budget of four is a key that asks, a change of the list, and a key that confirms,
with one to spare. Otherwise sequences of calls are not bounded: a run visits
every reachable state of its instance.

**Symmetry and views.** Tasks of one replica, requests, keys, and the publisher's tags,
manifests and referrers are interchangeable in the code and are declared
symmetric, in runs of safety properties only. The view of `Publisher` leaves out what
with `Apart` nothing reads: the index of the referrers and the histories of the
unlisted properties.

**Fairness.** `FairSpec` of `ContentStore` says that a running task keeps
running (tokio polls a woken task) and that a task waiting for `gc_lock` gets
it (tokio's `RwLock` is first in, first out). Nothing is assumed to start a
fetch or a sweep, and the polling loop for `inflight` gets no promise of its
own turn, since it has no queue. No run claims that replicas converge: the code
has no periodic sync, so a lost announcement is made up for only when a
neighbor comes up or someone asks. `Swarm`: a task that has begun and the receive
loop go on; no user, peer or supervisor is made to act. `Uploads`: a request goes
on or breaks off, files grow old and the periodic gc runs. `Dashboard`: the UI loop,
the timers, the daemon's stream and `listen_sse` with its reconnect go on; no key is
pressed and no connection drops because it has to.

**Deadlock.** The runs of the first six modules check it: a daemon can always
start another request. `PolicyLostUpdate`, `Swarm`, `Uploads` and `Dashboard` do not:
there the bounds on edits, sessions and steps run out, and `ocitop` quits.

**Assumptions on the users.** `Apart` of `Publisher`, `PolicyStore` and `Uploads` keeps
certain operations from overlapping. The code does not enforce it; the tables
below say what happens without. It is how the runs state under which use the
code is correct.

**Exceptions.** Where the code leaves a gap that no use avoids, the property says
exactly what falls into it, by a history variable, and claims the rest:
`appended` (`IndexTruthful`), `owing` (`QuietWindow`, `TopicsFollowTheFile`), `saw` (`NewerWins`),
`missed` (`NeighborsIntroduced`), `stale` (`EditsKeepOthers`), `lapsed` (`OneKeyPerPin`). That
the gaps are real is shown by the counterexamples below.

### Disagreements between code and documentation

The two violation runs are findings in `PROJECT.json`. More of them came up
while modelling; each has a configuration that TLC refutes, kept for
reference, or is a change of one:

| Configuration (module) | Property | What happens |
| --- | --- | --- |
| `StoreCancelled` (`MCContentStore`) | `InflightReleased` | a pull that times out leaves its reference in `inflight`; later fetches of it poll for ever |
| `StoreUnprotected` (`MCContentStore`) | `StoredPresent` | a blob that is present but unindexed is verified without a temp tag; the blob store's GC may delete it before it is pinned |
| `StoreInterrupted` (`MCContentStore`) | `StoredPinned` | a sweep stopped between unpinning and dropping the index entry; the next fetch trusts the entry and stores a release with an unpinned blob |
| `ReplPinned` (`MCReplication`) | `PinsStay` | `enforce_window` reads the policy before it waits for `gc_lock`; a tag pinned meanwhile is pruned (`docs/architecture/workflows.md`: "Pins are never pruned") |
| `ReplLastThree` (`MCReplication`) | `SyncCatchesUp` | `dedup_by` drops neighbours only; with `last:3` a tag known with two timestamps takes two places and a release is missed |
| `DnsUnpinRace` (`MCDnsTofu`) | `CachedIsPinned` | an unpin between validation and the cache write leaves the old key in the cache |
| `DnsOffline` (`MCDnsTofu`) | `PinnedResolves` | a failed lookup of a pinned zone is `NoRecord`; `docs/dns-publisher-names.md` says that the name resolves from the pin store |
| `PubLostReferrer` (`MCPublisher`) | `ReferrersAttached` | two referrers put at once on one subject: both are answered 201, one is on no release |
| `Publisher` with `NeverRollsBack` | | two puts of one tag compare before either writes, and the older one writes last |
| `PubIgnored` (`MCPublisher`) | `PutTakesEffect` | a put within the second of a referrer's re-signature is refused by `put_release` and answered 201 |
| `PubKnownReferrers` (`MCPublisher`) | `KnownReferrersCarried` | `manifest_put` signs with an empty list of referrers; `docs/DESIGN.md` says "+ known referrers" |
| `PolicyAlias` (`MCPolicyRules`) | `AliasIsAccepted` | `follow` of an alias is resolved, and then refused by `add_follow`, which knows keys and zones only (`README.md`: "`<publisher>` is hex, `did:key`, an alias, ...") |
| `PolicyRules` with `UnpinnedIsGone` | | an unpin removes the form it is given and the hex form; a pin of the release in another form stays |
| `PolicyRules` with `MappingVerified`, `Published <- OldOnly` | | a follow by an alias with the shape of a zone records the alias' key as the zone's |
| `SwarmStale` (`MCSwarm`) | `TopicsFollowTheFile` | two changes at once apply their topics in the opposite order |
| `Swarm` with `NobodyMissed` | | a neighbor that comes up inside `sync_topics` is not introduced to the topic it joins |
| `Swarm` with `JoinFails = TRUE` | `TopicJoined` | a failed subscription is not tried again |
| `Swarm` with `"swap"` in `Leaves` | `EditsAtomic` | a client leaves after the file was written; the next change writes it back without the edit |
| `UploadsOverlap` (`MCUploads`) | `StoredMatches` | a PATCH appends between the hash and the import of a PUT; the index names other content |
| `Uploads` with `SessionUsable` | | the periodic gc removes the file of a session that was idle for a day |
| `DashboardTypeAhead` (`MCDashboard`) | `DeletesWhatWasConfirmed` | a `y` typed ahead confirms a question its user has not seen |
| `Dashboard` with `ActsOnWhatWasSeen` | | a key that was pressed before a poll moved the list acts on the new row |
| `Dashboard` with `RowIsDrawn` | | `p`, `f`, `s` and `d` act on the selected image also on the tabs where it is not drawn |

Also seen: two releases of a tag within one second are never replicated one
over the other (`select_wanted` compares timestamps only); a sync that fails
midway does not enforce the window; a node on the LAN that was seen once is not
introduced again after a topic is joined (`on_lan_peer` looks at `last_seen`);
`ocitop` ignores an error of saving the policy and keeps the last status when the
daemon goes away; a pin whose write failed is forgotten by a
restart; a delete that races an attach is undone by it.

## 4. What is proved

The proofs are modules of their own: `ContentStoreProofs`, `ReplicationProofs`,
`PublisherProofs`, `SwarmProofs` (which has the proofs about `PolicyStore` too),
`UploadsProofs`, `DashboardProofs`, and `PolicyProofs` for `PolicyRules`, `Retention` and
`DnsTofu`, whose definitions therefore have names of their own (`RetentionSpec`,
`DnsTypeOK`, ...). `ReplicationProofs` and `PolicyProofs` share the lemmas of
`WindowProofs`. For every value of the constants that satisfies the modules'
assumptions:

| Theorem | Statement | Assumes besides the module's `ASSUME` |
| --- | --- | --- |
| `ContentStoreProofs!TypeCorrect` | `Spec => []TypeOK` | |
| `ContentStoreProofs!GcLockHolds` | `Spec => NoUnpinDuringFetch` | |
| `ContentStoreProofs!IndexAlwaysTruthful` | `Spec => []IndexTruthful` | |
| `ContentStoreProofs!StoredStaysPinned` | `Spec => []StoredPinned` | `Undisturbed`: truthful pairs, no pushes, no interrupted sweeps, no crash |
| `ContentStoreProofs!ReplicaOrder` | `Spec => ReplicaNeverRollsBack` | |
| `PolicyProofs!SelectAlwaysExact` | `RetentionSpec => []SelectExact` | |
| `PolicyProofs!NeverThrashes` | `RetentionSpec => []NoThrash` | |
| `PolicyProofs!SyncAlwaysSettles` | `RetentionSpec => []SyncSettles` | |
| `ReplicationProofs!TypeCorrect` | `Spec => []TypeOK` | |
| `ReplicationProofs!WindowAlwaysEnforced` | `Spec => []QuietWindow` | |
| `ReplicationProofs!SyncAlwaysCatchesUp` | `Spec => SyncCatchesUp` | `Narrow`: policies that are full or at most two wide |
| `PublisherProofs!TypeCorrect` | `Spec => []TypeOK` | |
| `PublisherProofs!ReferrersStayAttached` | `Spec => []ReferrersAttached` | `Apart` |
| `PublisherProofs!NewerAlwaysWins` | `Spec => NewerWins` | |
| `PolicyProofs!DnsIsTyped` | `DnsSpec => []DnsTypeOK` | |
| `PolicyProofs!OneKey` | `DnsSpec => []OneKeyPerPin` | |
| `PolicyProofs!AnswersAreDurable` | `DnsSpec => []AnswersDurable` | |
| `PolicyProofs!RulesAreTyped` | `Spec => []TypeOK` (of `PolicyRules`) | |
| `PolicyProofs!NoRuleIsEverIgnored` | `Spec => []NoRuleIgnored` | |
| `PolicyProofs!WhatWasAskedIsInForce` | `Spec => []AskedIsInForce` | |
| `PolicyProofs!WhatWasRemovedIsGone` | `Spec => []RemovedIsGone` | |
| `PolicyProofs!NothingElseChanges` | `Spec => []OnlyWhatWasAsked` | |
| `PolicyProofs!PullsAlwaysFollowTheRecord` | `Spec => []PullsFollowTheRecord` | |
| `SwarmProofs!TypeCorrect` | `SwarmSpec => []TypeOK` | |
| `SwarmProofs!OtherEditsAreKept` | `SwarmSpec => EditsKeepOthers` | |
| `SwarmProofs!TopicsFollow` | `SwarmSpec => []TopicsFollowTheFile` | `Apart` |
| `SwarmProofs!NeighborsAllIntroduced` | `SwarmSpec => []NeighborsIntroduced` | |
| `SwarmProofs!PeersAreDurable` | `SwarmSpec => PeersDurable` | |
| `UploadsProofs!TypeCorrect` | `Spec => []TypeOK` | |
| `UploadsProofs!NoFileLeft` | `Spec => []FilesHaveSessions` | |
| `UploadsProofs!StoredAlwaysMatches` | `Spec => []StoredMatches` | `Apart` |
| `UploadsProofs!StatusAlwaysTruthful` | `Spec => []StatusTruthful` | `Apart` |
| `UploadsProofs!RangesAlwaysExact` | `Spec => []RangesExact` | `Apart` |
| `DashboardProofs!DashboardIsTyped` | `Spec => []TypeOK` | |
| `DashboardProofs!KeysActOnWhatIsDrawn` | `Spec => []ActsOnTheRow` | |
| `DashboardProofs!OnlyConfirmedDeletes` | `Spec => []DeletesWhatWasConfirmed` | `MaxTyped <= 1`: nobody types ahead |
| `DashboardProofs!EventsKeepTheirOrder` | `Spec => []EventsInOrder` | |

Every inductive invariant below was checked by TLC on the instance of its run,
or a wider one, before it was proved.

**Content store**

* Types: `TypeOK` is inductive only with `PositionInv`: a task that looks at
  blob number *i* of its release is within its list.
* **GcLockHolds** rests on `LockInv`: a fetch is a reader exactly in the steps
  after `FetchLock`, a sweep the writer exactly in the steps after `SweepLock`,
  and never both. A pin is only dropped by `SweepUnpin`, whose sweep is the writer.
* **IndexAlwaysTruthful** rests on `VerifiedInv`: a fetch at its pin or index step
  has compared the content with the claimed digest; and on `UploadInv`: what a push
  is about to pin or index has the digest computed for it, or that digest is in
  `appended`. It holds with crashes, cancellations and lying publishers. The digests
  in `appended` are a gap of the code (`UploadsOverlap`); the theorem says that it
  reaches no other digest.
* **StoredStaysPinned** needs three more parts. `IndexedPinned`: an index entry
  has its pin except while a sweep is between the two removals, so the branch
  of the fetch that trusts the index is right. `FetchedPinned`: the blobs a
  fetch is past are pinned, which the lock protects until the record is
  written. `SweepSpares`: what a running sweep is about to unpin is referenced
  by no stored release, and no record appears while it runs. Each of the
  excluded disturbances has a counterexample above, so the assumption is not
  there for convenience.
* **ReplicaOrder** rests on `ClaimInv`: no two fetches past their claim are of
  one reference, so between the compare and the write of a fetch nothing else
  writes its record: a push writes only references of the node's own
  publisher (the module's assumption that a reference names its publisher),
  and a sweep only removes records, which leaves the comparison true.

**Windows** (`WindowProofs`, `PolicyProofs`). The invariant is only that store and
inventory are finite and typed; the content is in the lemmas about the
selection. `Newest` and `Oldest`: a finite set of pairs has an extreme one, from the
well-foundedness of the subsets of a finite set. `TopOne` and `TopTwo`: the first two
pairs that `dedup_by` leaves are the two newest tags, because between the newest
pair and the first of another tag everything is dropped; from the third place on
this is false. `TakeExact` follows, and with it `SelectAlwaysExact` and
`SyncAlwaysSettles` for windows of at most two. `NoMoreBefore` compares sizes by an
injection: a pair that is fetched has no more pairs before it in the store than it
had in the list, for windows of any width, which is `NeverThrashes`.

**Replication**

* **WindowAlwaysEnforced**. `WindowInv`: a replica whose store is not within its window
  is in `owing`, or has a task that `Owes` an enforcement: one that is about to list or
  to read the policy, one about to prune with the window that the policy still
  has, or a sync among its fetches. A task that prunes with an outdated window
  owes nothing; the change that outdated it is a task that owes. A task that owes and
  is dropped, or whose daemon stops, puts its replica into `owing`, which
  `enforce_window` alone takes it out of. What leaves the
  store never pushes a release out of its window (`ShrunkInside`), so the
  collections and removals of other tasks do no harm.
* **SyncAlwaysCatchesUp**. `SyncInv` follows a sync with the publisher while neither the
  publisher nor the policy changes: every release of the publisher is held or
  surpassed (`HasIn`), is still to be fetched, or is `Crowded`: as many tags as the window
  is wide are newer, counting what is held and what is still to be fetched.
  `SelectServes`: that is so of what `select_wanted` leaves out. `GrownServed`: what this
  task or another stores undoes nothing. `TrimmedServed`: nor does an enforcement or
  a collection with the current window, since what it removes leaves as many
  newer tags behind. At the end nothing is left to fetch, and `CrowdedOut` says that
  what is crowded would not be kept. `Narrow` is needed in `SelectServes`:
  `ReplLastThree` is the counterexample with a window of three.

**Publisher**. `TypeCorrect` needs `TaskInv` (what a request has at each of its steps).

* **ReferrersStayAttached** needs `Apart`: `ApartInv` says that a referrer put shares its
  subject with no request under way. Then nobody else writes a release of the
  subject: what `attach_referrer` listed under a tag is still stored when it signs, or
  the tag went to another manifest (`ListedInv`), so the re-signature supersedes what it
  meets or has nothing to attach to, and a release of the subject without the
  referrer is still on the list (`AttachInv`). Without `Apart`: `PubLostReferrer`.
* **NewerAlwaysWins** has no hypothesis: `WriteInv` says that a put about to write supersedes
  the record it has compared with (`saw`), so that a roll-back needs another put, which
  wrote in between, and does not go behind what was compared. `Publisher` with
  `NeverRollsBack` is that roll-back.

**DnsTofu**. `StepInv` ties the lock to the steps, `PinnedInv` says that an accepted key is
the pinned one and that nothing was accepted while a first key is being saved,
`SavedInv` that file and memory differ only where a write is due or failed.

**PolicyRules**. The invariant `RulesInv` says that the file is the text of a policy in
memory (`IsPolicy`) in which every entry names a publisher (`Meaningful`).

* **NoRuleIsEverIgnored**: an entry in the form of a zone needs its row of the table,
  and no editor takes one away: `SetDnsMapping` only adds and replaces, and it runs
  before the entry is added (`MappedMeaningful`, `DaemonKeeps`, `OfflineKeeps`). The
  mutant that drops the row with the rule is what this excludes.
* **WhatWasAskedIsInForce**: `FollowAdded` says that the first entry which means the
  publisher has the new mode, although the row of a zone was set just before and
  may have made another entry mean the same publisher; `SeedAdded` and `PinAdded` that
  the new entry is there; `ReadBack` that nothing is lost on the way through the
  text: `ModeToText` drops the default mode and `ModeFromText` puts it back.
* **WhatWasRemovedIsGone**: the editors compare what entries mean, under the table as
  it is and not under what the lookup answers now (`FollowRemoved`, `SeedRemoved`).
  `Retained` gives the positions that `retain` leaves: it needs that the positions
  below a bound can be ranked, which is `Ranked`.
* **NothingElseChanges**: `WindowMade` writes a window as a function of the modes and
  tags of the entries that mean an image; `SameRules` says that for any other image,
  outside the keys a zone moved between, these are the same before and after.
* **PullsAlwaysFollowTheRecord**: a key or a recorded zone is looked up before any alias
  (`RuleImage`), and every rule has one of the two. A zone with a record in DNS is
  replaced by the key that was looked up before the reference is parsed (`PulledAs`):
  the rules of a zone that moved and the pulls by their texts part until the next
  seed, pin or follow of the zone, which sets its row of the table to the key it
  looked up, also when it keeps the rules as they are (`Recorded`).

**Policy store and Swarm**

* **OtherEditsAreKept** has no hypothesis. `KeepInv`: whoever is about to write has applied
  its edit to what the file says, or is `stale`. The daemon is stale when its memory
  is not the file, `ocitop` when the file was written since its last poll, everyone
  when another writes between the read and the write. `PolicyLostUpdate` shows the
  loss, so the exception is a gap of the code and not of the model.
* **TopicsFollow**. `OneInv`: with `Apart` at most one operation is under way. `FileInv`: memory
  and file agree except between a write and its swap or reload. `TopicInv`: the daemon is on the topics that its policy calls for,
  or a `sync_topics` is under way that wants just these (a failed subscription may
  leave one out). Clients may leave anywhere: `Forgotten` allows for the difference
  that a later operation makes up for. Without `Apart`: `SwarmStale`.
* **NeighborsAllIntroduced** has no hypothesis. `NeighborInv`: neighbors, but for the one that
  is arriving and for those in `missed`, are on every topic and in the bootstrap set
  of every `sync_topics` under way. `missed` is the gap of the code: `Swarm` with
  `NobodyMissed`.
* **PeersAreDurable** has no hypothesis: the file is contained in what the daemon
  remembers, and equal to it when no save fails.

**Uploads**

* **NoFileLeft** has no hypothesis. `FileInv`: a file has a session, or a request that
  made it or took its session and will unlink or import it, or was left by a broken
  body or a stop, which `prune_uploads` is for.
* The other three need `Apart`, through `AloneInv`: a request that sends a body shares
  its session with cancellations only. `KnownInv`: what a request found out of
  its file (that it is new, its length, its hash) is still so when it is used, or
  the file is gone. `SizeInv`: the size of a session is the end of the file, or not
  past it while a body is written or after it broke off. `UploadsOverlap` is the
  counterexample without `Apart`.

**EventStream and Dashboard**

* **EventsKeepTheirOrder** has no hypothesis on chunks or capacities. `OrderInv` says it of
  log, channel, buffer with wire, and ring as four parts: each is in order
  (`Rising`, the log `Falling`), each is before the next (`Before`), and after a known event
  nothing is left out but what was lost (`Complete`). The part that is not obvious is
  the buffer: `Framed` says that buffer and wire together are whole frames, whatever
  the chunks are, so that the first empty line ends the first frame (`FirstFrame`)
  and decoding it gives just the event that was next (`ListenFrameOrder`). A full ring
  or channel drops an event that `lost` has, a broken connection all that is on the
  wire; `Complete` survives both.
* **DashboardIsTyped**: a poll clamps the selection to the new list (`Clamped`), a move
  goes round in it (`MovedWithin`), so that the row is one of the list, or none when
  the list is empty. `Listed`: the rows of a list are releases that the daemon has, as many as there are.
* **KeysActOnWhatIsDrawn** rests on `DrawnInv`: when a key is read the screen is the one
  that the loop drew from the state it has, and what is sent was on it.
* **OnlyConfirmedDeletes** adds `AskedInv`: a question on the screen at which a key was
  pressed is the one that is asked now. With a second key in the queue this is
  false: `DashboardTypeAhead`.

The constants are assumed to be what their comments say. `None` is assumed not to
be a value of the sets that it stands outside of (in `Uploads` also no number, pair or
sequence, in `PolicyRules` neither the text of a mode nor an image, in `Dashboard` not the
name of an operation), a frame of an event to fit on the wire, the sets of tags and modes to be finite sets of numbers, and the bounds
of the clocks to be positive.

**Left to TLC**: liveness under fairness, which this prover does not reach:
`InflightReleased`, `TopicJoined`, `FilesGo`, `EventsReachTheLog`; and `EditsAtomic`, the refinement of
`AtomicPolicy` with its fairness, for operations that do not overlap. Every other
property that a passing run checks is proved, some under the hypotheses of the
table; the tables of section 3 show what goes wrong without them. What follows
from a hypothesis on users (`Apart`, `MaxTyped <= 1`) is true of the code only as far as
its users keep to it. `EditsKeepOthers` is proved and in no run; TLC has checked it on
the instance of `PolicyLostUpdate` and on that of `Swarm` without the `ocictl`, with
`Apart = FALSE` and `"swap"` in `Leaves`.

## 5. Abstractions and omissions

* `gc` also prunes the referrers index (`prune_referrers`); a dry run changes
  nothing. Neither is in the model. `put_release` also writes the referrers of a
  release: in `Publisher`.
* `is_complete` before a release is handed out is true of every stored record
  in `Replication`.
* The order in which a sync asks for its tags is free, as is the peer a pull
  reaches first.
* Metrics, logging and the contents of HTTP answers other than success and
  failure are left out, but for the status and the ranges in `Uploads`.
* `PolicyStore` and `Swarm` treat `write_atomic` as one step: it writes another file
  and renames it.
* `Swarm` has one node; what the other ends of a topic do is gossip's business
  (external). `enforce_all_windows`, which follows `sync_topics`, is in `Replication`.
* The screen of `ocitop` is the tab, the selected row and the modal.
* Signatures are perfect: a fetched release is signed by its publisher, whose
  claims about its own blobs may still be false.

### Not modelled

* **Podman Desktop extension**: a separate TypeScript program. Its event stream
  has the producer and the framing of `EventStream`; starting and detecting the
  daemon are calls of Podman Desktop and of the operating system.
* **HTTP routing, catalog and status reports, metrics**: no state that anything
  reads back.
* **Manifest, digest and name grammar** (`oci.rs`): pure text functions with unit
  tests; the resolution of a reference is in `PolicyRules`.
* **Identity, TLS, paths, HTTP client**: files and library calls around
  cryptography.
* **Relay hints, tickets, addresses** of peers: a peer is its id.

## 6. Plan

The safety properties of the runs are proved. What is left:

* `gc` as it prunes the referrers index (`prune_referrers`), and its dry run, in
  `ContentStore`.
* Several images in one inventory in `Replication`, whose later ones are fetched with an
  older policy.
* The three hazards that no property covers (see `PROJECT.json`) are counterexamples of
  today's code: `StoredPresent`, `PutTakesEffect` and `CachedIsPinned` are to move into the passing
  runs, and to be proved, when the code closes the gaps.
