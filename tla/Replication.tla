----------------------------- MODULE Replication -----------------------------
(***************************************************************************)
(* Replication of one image from its publisher to the nodes that follow,   *)
(* seed or pin it.  The publisher pushes, attaches referrers and deletes;  *)
(* announcements travel by gossip, which may lose, duplicate, delay and    *)
(* reorder them; replicas sync with any peer, pull on demand, enforce the  *)
(* retention window, collect garbage and change their policy.              *)
(*                                                                         *)
(* Every node runs several of these tasks at once.  A task awaits between  *)
(* the steps below, and what it read before may be stale after.  That a    *)
(* release is stored in one step, or not at all, is what ContentStore      *)
(* shows of fetch_release.                                                 *)
(***************************************************************************)
EXTENDS Window

CONSTANTS
  Publisher, Replica,
  Manifest, Referrer,
  Task, Home,  \* [Task -> Replica], the node a task runs at
  Policies,    \* the windows that a policy may give this image
  Kinds,       \* the kinds of task that run
  MayFail,     \* requests and downloads fail, clients leave, daemons stop
  MaxClock,    \* bound on the publisher's clock, in seconds
  PerSecond,   \* bound on the pushes within one second
  None

Node == Replica \cup {Publisher}
Release == [ts : Nat, man : Manifest, refs : SUBSET Referrer]
Summary == [tag : Tag, ts : Nat]

ASSUME ReplicationAssumption ==
  /\ Publisher \notin Replica
  /\ Tag \subseteq Nat
  /\ IsFiniteSet(Tag)
  /\ Home \in [Task -> Replica]
  /\ Policies \subseteq WindowOver(Tag)
  /\ Kinds \subseteq {"announce", "sync", "pull", "policy", "gc", "rm"}
  /\ MayFail \in BOOLEAN
  /\ MaxClock \in Nat \ {0}
  /\ PerSecond \in Nat
  /\ None \notin Release \cup Tag

VARIABLES
  clock,      \* the publisher's wall clock, in seconds
  pushed,     \* pushes in this second
  held,       \* the release records of every node
  announced,  \* the summaries broadcast so far
  win,        \* the window that a replica's policy gives the image
  pc,
  kind,       \* what a task does
  peers,      \* the peers it asks
  inv,        \* the inventory it was sent
  want,       \* the tags it has yet to fetch
  got,        \* the release it is fetching
  gtag,       \* and its tag
  seen,       \* the window it read before it prunes
  calm,       \* history: since a sync with the publisher began nothing was
              \* pushed or deleted and no policy change reached this replica
  owing       \* history: the replicas where a task stored a release or changed
              \* the policy and ended without enforcing the window, until another
              \* task does

world == <<clock, pushed, announced>>
locals == <<kind, peers, inv, want, got, gtag, seen>>
history == <<calm, owing>>
vars == <<world, held, win, pc, locals, history>>

NoWindow == WindowOf({}, {})
Step == {"idle", "select", "get", "store", "list", "enforce", "prune", "gc"}

\* A sync that enforces the window has asked for every tag it wanted.
AllAsked ==
  \A t \in Task :
    kind[t] = "sync" /\ pc[t] \in {"list", "enforce", "prune"} => want[t] = {}

\* Types, and what a task is left with.
TypeOK ==
  /\ clock \in 1..MaxClock
  /\ pushed \in 0..PerSecond
  /\ held \in [Node -> [Tag -> Release \cup {None}]]
  /\ announced \subseteq Summary
  /\ win \in [Replica -> WindowOver(Tag)]
  /\ pc \in [Task -> Step]
  /\ kind \in [Task -> Kinds \cup {None}]
  /\ peers \in [Task -> SUBSET Node]
  /\ inv \in [Task -> SUBSET Summary]
  /\ want \in [Task -> SUBSET Tag]
  /\ got \in [Task -> Release \cup {None}]
  /\ gtag \in [Task -> Tag \cup {None}]
  /\ seen \in [Task -> WindowOver(Tag)]
  /\ calm \in [Task -> BOOLEAN]
  /\ owing \subseteq Replica
  /\ AllAsked

-----------------------------------------------------------------------------
Held(n) == {g \in Tag : held[n][g] # None}
Known(n) == {[tag |-> g, ts |-> held[n][g].ts] : g \in Held(n)}
TasksOf(n) == {t \in Task : Home[t] = n}

\* gc_lock: a node stores and prunes nothing while its gc runs.
Unlocked(n) == \A t \in TasksOf(n) : pc[t] # "gc"

\* Release::supersedes.
Supersedes(new, old) ==
  \/ new.ts > old.ts
  \/ new.ts = old.ts /\ new.man # old.man

\* Mutant of Put: the record that arrives last wins.
PutAlways(n, g, r) == [held EXCEPT ![n][g] = r]

\* put_release.
Put(n, g, r) ==
  IF held[n][g] = None \/ Supersedes(r, held[n][g])
    THEN [held EXCEPT ![n][g] = r]
    ELSE held

\* select_wanted: in the window over what is known here and there, and newer
\* than what we hold.
Wanted(n, remote) ==
  {s.tag : s \in {s \in remote :
     /\ ~IsEmpty(win[n])
     /\ s.tag \in Select(win[n], Known(n) \cup remote)
     /\ held[n][s.tag] # None => s.ts > held[n][s.tag].ts}}

Without(n, gone) ==
  [held EXCEPT ![n] = [g \in Tag |-> IF g \in gone THEN None ELSE held[n][g]]]

\* History: the tasks whose sync can no longer be held to the publisher's state.
Disturb(ts) == calm' = [t \in Task |-> IF t \in ts THEN FALSE ELSE calm[t]]

-----------------------------------------------------------------------------
\* The publisher.

Tick ==
  /\ clock < MaxClock
  /\ clock' = clock + 1
  /\ pushed' = 0
  /\ UNCHANGED <<held, announced, win, pc, locals, history>>

\* manifest_put with a tag: sign with the current second and no referrers,
\* put_release, announce (whether or not the record was written).
Push(g, m) ==
  LET r == [ts |-> clock, man |-> m, refs |-> {}] IN
  /\ pushed < PerSecond
  /\ pushed' = pushed + 1
  /\ held' = Put(Publisher, g, r)
  /\ announced' = announced \cup {[tag |-> g, ts |-> clock]}
  /\ Disturb(Task)
  /\ UNCHANGED <<clock, win, pc, locals, owing>>

\* attach_referrer: every release of the subject is signed again.
Attach(m, ref) ==
  LET subjects == {g \in Held(Publisher) :
                     held[Publisher][g].man = m /\ ref \notin held[Publisher][g].refs}
      Signed(r) == [r EXCEPT !.refs = @ \cup {ref},
                             !.ts = IF clock > @ THEN clock ELSE @ + 1]
  IN
  /\ subjects # {}
  /\ held' = [held EXCEPT ![Publisher] =
       [g \in Tag |-> IF g \in subjects THEN Signed(held[Publisher][g]) ELSE held[Publisher][g]]]
  /\ announced' = announced \cup {[tag |-> g, ts |-> held'[Publisher][g].ts] : g \in subjects}
  /\ Disturb(Task)
  /\ UNCHANGED <<clock, pushed, win, pc, locals, owing>>

\* manifest_delete: the record goes, here only.
Delete(g) ==
  /\ held[Publisher][g] # None
  /\ held' = Without(Publisher, {g})
  /\ Disturb(Task)
  /\ UNCHANGED <<world, win, pc, locals, owing>>

-----------------------------------------------------------------------------
\* The tasks of a replica.

\* A task is over and its locals are gone.
Done(t) ==
  /\ pc' = [pc EXCEPT ![t] = "idle"]
  /\ kind' = [kind EXCEPT ![t] = None]
  /\ peers' = [peers EXCEPT ![t] = {}]
  /\ inv' = [inv EXCEPT ![t] = {}]
  /\ want' = [want EXCEPT ![t] = {}]
  /\ got' = [got EXCEPT ![t] = None]
  /\ gtag' = [gtag EXCEPT ![t] = None]
  /\ seen' = [seen EXCEPT ![t] = NoWindow]

Begin(t, k, step) ==
  /\ k \in Kinds
  /\ pc[t] = "idle"
  /\ pc' = [pc EXCEPT ![t] = step]
  /\ kind' = [kind EXCEPT ![t] = k]

\* on_announcement, of a summary that is wanted; one that is not is ignored.
Receive(t, s, from) ==
  /\ Begin(t, "announce", "get")
  /\ s.tag \in Wanted(Home[t], {s})
  /\ want' = [want EXCEPT ![t] = {s.tag}]
  /\ peers' = [peers EXCEPT ![t] = {from, Publisher}]
  /\ UNCHANGED <<world, held, win, inv, got, gtag, seen, history>>

\* sync_with: the peer's inventory ...
SyncStart(t, p) ==
  /\ Begin(t, "sync", "select")
  /\ inv' = [inv EXCEPT ![t] = Known(p)]
  /\ peers' = [peers EXCEPT ![t] = {p}]
  /\ calm' = [calm EXCEPT ![t] = p = Publisher]
  /\ UNCHANGED <<world, held, win, want, got, gtag, seen, owing>>

\* ... and what the policy wants of it.
SyncSelect(t) ==
  /\ pc[t] = "select"
  /\ LET wanted == Wanted(Home[t], inv[t]) IN
     \/ /\ wanted = {}
        /\ Done(t)
     \/ /\ wanted # {}
        /\ want' = [want EXCEPT ![t] = wanted]
        /\ inv' = [inv EXCEPT ![t] = {}]
        /\ pc' = [pc EXCEPT ![t] = "get"]
        /\ UNCHANGED <<kind, peers, got, gtag, seen>>
  /\ UNCHANGED <<world, held, win, history>>

\* get_or_fetch, of a tag that is not here: any peer may be asked.
Pull(t, g) ==
  /\ Begin(t, "pull", "get")
  /\ held[Home[t]][g] = None
  /\ want' = [want EXCEPT ![t] = {g}]
  /\ peers' = [peers EXCEPT ![t] = Node \ {Home[t]}]
  /\ UNCHANGED <<world, held, win, inv, got, gtag, seen, history>>

\* Mutant of NextTag: the first tag that is fetched or fails ends the loop.
NextTagBreak(t) ==
  /\ want' = [want EXCEPT ![t] = @ \ {gtag'[t]}]
  /\ pc' = [pc EXCEPT ![t] = "enforce"]

\* A sync goes on with the next tag it wants, then enforces the window.
NextTag(t) ==
  /\ want' = [want EXCEPT ![t] = @ \ {gtag'[t]}]
  /\ pc' = [pc EXCEPT ![t] = IF want'[t] = {} THEN "enforce" ELSE "get"]

\* GetRelease: a peer hands out the release it holds of the tag now ...
Get(t) ==
  /\ pc[t] = "get"
  /\ \E g \in want[t], p \in peers[t] :
       /\ held[p][g] # None
       /\ got' = [got EXCEPT ![t] = held[p][g]]
       /\ gtag' = [gtag EXCEPT ![t] = g]
  /\ pc' = [pc EXCEPT ![t] = "store"]
  /\ UNCHANGED <<world, held, win, kind, peers, inv, want, seen, history>>

\* ... or none: a sync skips the tag, the others have nobody left to ask.
GetNothing(t) ==
  /\ pc[t] = "get"
  /\ \E g \in want[t] :
       /\ \A p \in peers[t] : held[p][g] = None
       /\ \/ /\ kind[t] = "sync"
             /\ gtag' = [gtag EXCEPT ![t] = g]
             /\ NextTag(t)
             /\ UNCHANGED <<kind, peers, inv, got, seen>>
          \/ /\ kind[t] # "sync"
             /\ Done(t)
  /\ UNCHANGED <<world, held, win, history>>

\* The connection fails: the task returns the error, and a sync drops the tags
\* that are left and does not reach enforce_window.
GetFail(t) ==
  /\ MayFail
  /\ pc[t] = "get"
  /\ Done(t)
  /\ owing' = owing \cup {n \in {Home[t]} : kind[t] = "sync"}
  /\ UNCHANGED <<world, held, win, calm>>

\* fetch_release has every blob and stores the record.
Store(t) ==
  /\ pc[t] = "store"
  /\ Unlocked(Home[t])
  /\ held' = Put(Home[t], gtag[t], got[t])
  /\ \/ /\ kind[t] = "sync"
        /\ got' = [got EXCEPT ![t] = None]
        /\ gtag' = gtag
        /\ NextTag(t)
        /\ UNCHANGED <<kind, peers, inv, seen>>
     \/ /\ kind[t] = "announce"
        /\ pc' = [pc EXCEPT ![t] = "enforce"]
        /\ UNCHANGED locals
     \/ /\ kind[t] = "pull"
        /\ Done(t)
  /\ owing' = owing \cup {n \in {Home[t]} : kind[t] = "pull"}
  /\ UNCHANGED <<world, win, calm>>

\* fetch_release fails: a sync goes on with the next tag, the others return.
FetchFail(t) ==
  /\ MayFail
  /\ pc[t] = "store"
  /\ \/ /\ kind[t] = "sync"
        /\ got' = [got EXCEPT ![t] = None]
        /\ gtag' = gtag
        /\ NextTag(t)
        /\ UNCHANGED <<kind, peers, inv, seen>>
     \/ /\ kind[t] # "sync"
        /\ Done(t)
  /\ Disturb({t})
  /\ UNCHANGED <<world, held, win, owing>>

\* enforce_window reads the policy; an image that no rule names is cache.
Enforce(t) ==
  /\ pc[t] = "enforce"
  /\ \/ /\ IsEmpty(win[Home[t]])
        /\ Done(t)
     \/ /\ ~IsEmpty(win[Home[t]])
        /\ seen' = [seen EXCEPT ![t] = win[Home[t]]]
        /\ pc' = [pc EXCEPT ![t] = "prune"]
        /\ UNCHANGED <<kind, peers, inv, want, got, gtag>>
  /\ UNCHANGED <<world, held, win, history>>

\* Then it takes gc_lock and removes what that window does not select.
Prune(t) ==
  LET n == Home[t] IN
  /\ pc[t] = "prune"
  /\ Unlocked(n)
  /\ held' = Without(n, Held(n) \ Select(seen[t], Known(n)))
  /\ Done(t)
  /\ Disturb(IF seen[t] = win[n] THEN {} ELSE TasksOf(n))
  /\ owing' = owing \ {m \in {n} : seen[t] = win[n]}
  /\ UNCHANGED <<world, win>>

\* mutate_policy or reload_policy: the new policy ...
SetPolicy(t, w) ==
  /\ Begin(t, "policy", "list")
  /\ win[Home[t]] # w
  /\ win' = [win EXCEPT ![Home[t]] = w]
  /\ Disturb(TasksOf(Home[t]))
  /\ UNCHANGED <<world, held, peers, inv, want, got, gtag, seen, owing>>

\* Mutant of ListImages: a policy change leaves the windows to the next fetch.
ListNoImages(t) ==
  /\ pc[t] = "list"
  /\ Done(t)
  /\ UNCHANGED <<world, held, win, history>>

\* ... then enforce_all_windows, of the images that something is held of.
ListImages(t) ==
  /\ pc[t] = "list"
  /\ \/ /\ Held(Home[t]) = {}
        /\ Done(t)
     \/ /\ Held(Home[t]) # {}
        /\ pc' = [pc EXCEPT ![t] = "enforce"]
        /\ UNCHANGED locals
  /\ UNCHANGED <<world, held, win, history>>

\* gc takes gc_lock and reads the policy ...
GcRead(t) ==
  /\ Begin(t, "gc", "gc")
  /\ Unlocked(Home[t])
  /\ seen' = [seen EXCEPT ![t] = win[Home[t]]]
  /\ UNCHANGED <<world, held, win, peers, inv, want, got, gtag, history>>

\* ... and removes what retained_set does not keep and is past its grace.
GcPrune(t) ==
  LET n == Home[t]
      retained == IF IsEmpty(seen[t]) THEN {} ELSE Select(seen[t], Known(n))
  IN
  /\ pc[t] = "gc"
  /\ \E gone \in SUBSET (Held(n) \ retained) : held' = Without(n, gone)
  /\ Done(t)
  /\ Disturb(IF seen[t] = win[n] THEN {} ELSE TasksOf(n))
  /\ UNCHANGED <<world, win, owing>>

\* remove_release at a replica (ocictl rm, DELETE).
Remove(n, g) ==
  /\ "rm" \in Kinds
  /\ held[n][g] # None
  /\ held' = Without(n, {g})
  /\ Disturb(TasksOf(n))
  /\ UNCHANGED <<world, win, pc, locals, owing>>

\* Task t has stored a release or changed the policy, or may have, and has not
\* enforced the window since.
InDebt(t) ==
  \/ pc[t] \in {"list", "enforce", "prune"}
  \/ pc[t] \in {"get", "store"} /\ kind[t] = "sync"

\* A task ends where it is: the client of a policy change, a pull, a sync or a gc
\* leaves and its handler is dropped at an await (after the swap in mutate_policy
\* nothing has enforced the new windows yet), or the store returns an I/O error.
Leave(t) ==
  /\ MayFail
  /\ pc[t] # "idle"
  /\ Done(t)
  /\ Disturb({t})
  /\ owing' = owing \cup {n \in {Home[t]} : InDebt(t)}
  /\ UNCHANGED <<world, held, win>>

\* The daemon of a replica stops and starts again.  Its tasks are gone, the
\* records are on disk, and so is the policy: another one than it ran with when
\* it was saved but not yet swapped, or edited while the daemon was down.
\* Nothing at the start enforces the windows.
Restart(n, w) ==
  LET Keep(f, initial) == [t \in Task |-> IF Home[t] = n THEN initial ELSE f[t]] IN
  /\ MayFail
  /\ pc' = Keep(pc, "idle")
  /\ kind' = Keep(kind, None)
  /\ peers' = Keep(peers, {})
  /\ inv' = Keep(inv, {})
  /\ want' = Keep(want, {})
  /\ got' = Keep(got, None)
  /\ gtag' = Keep(gtag, None)
  /\ seen' = Keep(seen, NoWindow)
  /\ win' = [win EXCEPT ![n] = w]
  /\ Disturb(TasksOf(n))
  /\ owing' = owing \cup {m \in {n} : w # win[n] \/ \E t \in TasksOf(n) : InDebt(t)}
  /\ UNCHANGED <<world, held>>

-----------------------------------------------------------------------------
Init ==
  /\ clock = 1
  /\ pushed = 0
  /\ held = [n \in Node |-> [g \in Tag |-> None]]
  /\ announced = {}
  /\ win \in [Replica -> Policies]
  /\ pc = [t \in Task |-> "idle"]
  /\ kind = [t \in Task |-> None]
  /\ peers = [t \in Task |-> {}]
  /\ inv = [t \in Task |-> {}]
  /\ want = [t \in Task |-> {}]
  /\ got = [t \in Task |-> None]
  /\ gtag = [t \in Task |-> None]
  /\ seen = [t \in Task |-> NoWindow]
  /\ calm = [t \in Task |-> FALSE]
  /\ owing = {}

PublisherStep ==
  \/ Tick
  \/ \E g \in Tag, m \in Manifest : Push(g, m)
  \/ \E m \in Manifest, ref \in Referrer : Attach(m, ref)
  \/ \E g \in Tag : Delete(g)

Starts(t) ==
  \/ \E s \in announced, from \in Node \ {Home[t]} : Receive(t, s, from)
  \/ \E p \in Node \ {Home[t]} : SyncStart(t, p)
  \/ \E g \in Tag : Pull(t, g)
  \/ \E w \in Policies : SetPolicy(t, w)
  \/ GcRead(t)

Continues(t) ==
  \/ SyncSelect(t) \/ Get(t) \/ GetNothing(t) \/ GetFail(t) \/ Store(t)
  \/ FetchFail(t) \/ ListImages(t) \/ Enforce(t) \/ Prune(t) \/ GcPrune(t)
  \/ Leave(t)

Next ==
  \/ PublisherStep
  \/ \E t \in Task : Starts(t) \/ Continues(t)
  \/ \E n \in Replica, g \in Tag : Remove(n, g)
  \/ \E n \in Replica, w \in Policies : Restart(n, w)

Spec == Init /\ [][Next]_vars

-----------------------------------------------------------------------------
\* Properties.

\* Replica n misses nothing newer of what the publisher holds in n's window,
\* unless n holds so much that is newer still that it would not keep it.  (Of
\* two releases of a tag with one timestamp a replica keeps the one it has.)
CaughtUp(n) ==
  \A s \in Known(Publisher) :
    s.tag \in InWindow(win[n], Known(Publisher)) =>
      \/ held[n][s.tag] # None /\ held[n][s.tag].ts >= s.ts
      \/ s.tag \notin InWindow(win[n], Known(n) \cup {s})

\* "This catches up after downtime": when a sync with the publisher ends, and
\* neither the publisher nor the policy changed meanwhile, the replica has
\* caught up, whatever its other tasks fetched, pruned and collected.
SyncCatchesUp ==
  [][\A t \in Task :
       /\ kind[t] = "sync" /\ calm'[t]
       /\ pc[t] \in {"select", "enforce", "prune"} /\ pc'[t] = "idle"
       => CaughtUp(Home[t])']_vars

\* enforce_window runs after every replication and every policy change that is
\* not broken off: when no task runs at a replica it holds nothing outside its
\* window, although the tasks store, read the policy and prune in any order, and
\* stop anywhere.  What is left to the next task that enforces the window are
\* exactly the ends that do not reach enforce_window: a pull, a sync that broke
\* off, a policy change whose client left after the swap, and a restart with such
\* a task or with another policy on disk.
QuietWindow ==
  \A n \in Replica \ owing :
    (~IsEmpty(win[n]) /\ \A t \in TasksOf(n) : pc[t] = "idle")
      => Held(n) \subseteq InWindow(win[n], Known(n))

\* "Pins are never pruned": a tag that the policy names stays.
PinsStay ==
  [][\A n \in Replica : \A g \in win[n].tags :
       held[n][g] # None => held'[n][g] # None]_vars
=============================================================================
