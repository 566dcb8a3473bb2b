------------------------------ MODULE Retention ------------------------------
(***************************************************************************)
(* What one node knows of one image, and what its retention window makes   *)
(* of it: summaries arrive from peers, rules come and go, a sync fetches   *)
(* what select_wanted names and prunes what enforce_window does not keep.  *)
(* One sync runs at a time here; Replication has the interleavings.        *)
(***************************************************************************)
EXTENDS Window

CONSTANTS
  Modes,    \* the modes that rules may have
  MaxTime   \* bound on timestamps

ASSUME RetentionAssumption ==
  /\ Tag \subseteq Nat /\ IsFiniteSet(Tag)
  /\ Modes \subseteq Nat /\ IsFiniteSet(Modes)
  /\ MaxTime \in Nat

VARIABLES
  modes,   \* of the follow and of the seeds without a tag
  tags,    \* of the pins and of the seeds with a tag
  local,   \* the releases held: a tag and a timestamp each
  remote   \* the summaries of the inventory that is being answered

retentionVars == <<modes, tags, local, remote>>

Pair == [tag : Tag, ts : 1..MaxTime]
window == WindowOf(modes, tags)

RetentionTypeOK ==
  /\ modes \subseteq Modes
  /\ tags \subseteq Tag
  /\ local \subseteq Pair /\ Single(local)
  /\ remote \subseteq Pair /\ Single(remote)

\* Mutant of Wanted: what is held here does not count for the window.
WantedRemote ==
  {s \in remote :
     /\ ~IsEmpty(window)
     /\ s.tag \in Select(window, remote)
     /\ \A p \in local : p.tag = s.tag => s.ts > p.ts}

\* Mutant of Wanted: a release that is newer than the one held is not fetched.
WantedAbsent ==
  {s \in remote :
     /\ ~IsEmpty(window)
     /\ s.tag \in Select(window, local \cup remote)
     /\ s.tag \notin TagsOf(local)}

\* select_wanted.
Wanted ==
  {s \in remote :
     /\ ~IsEmpty(window)
     /\ s.tag \in Select(window, local \cup remote)
     /\ \A p \in local : p.tag = s.tag => s.ts > p.ts}

\* The store once they are fetched.
Fetched == {p \in local : p.tag \notin TagsOf(Wanted)} \cup Wanted

\* enforce_window.
Enforced(store) ==
  IF IsEmpty(window) THEN store ELSE {p \in store : p.tag \in Select(window, store)}

\* A follow, or a seed without a tag, is added or removed.  (One whose mode is
\* changed is removed and added again.)
AddMode ==
  /\ \E m \in Modes \ modes : modes' = modes \cup {m}
  /\ UNCHANGED <<tags, local, remote>>

DropMode ==
  /\ \E m \in modes : modes' = modes \ {m}
  /\ UNCHANGED <<tags, local, remote>>

\* A pin, or a seed with a tag, is added or removed.
AddTag ==
  /\ \E g \in Tag \ tags : tags' = tags \cup {g}
  /\ UNCHANGED <<modes, local, remote>>

DropTag ==
  /\ \E g \in tags : tags' = tags \ {g}
  /\ UNCHANGED <<modes, local, remote>>

\* The peer's inventory has a release of a tag.
Report ==
  /\ \E s \in Pair : s.tag \notin TagsOf(remote) /\ remote' = remote \cup {s}
  /\ UNCHANGED <<modes, tags, local>>

\* sync_with: fetch, then enforce if anything was wanted.
Sync ==
  /\ local' = IF Wanted = {} THEN local ELSE Enforced(Fetched)
  /\ remote' = {}
  /\ UNCHANGED <<modes, tags>>

\* get_or_fetch: a pull stores what it finds, in the window or not.
Pull ==
  /\ \E s \in Pair : s.tag \notin TagsOf(local) /\ local' = local \cup {s}
  /\ UNCHANGED <<modes, tags, remote>>

RetentionInit ==
  /\ modes = {} /\ tags = {}
  /\ local = {} /\ remote = {}

RetentionNext ==
  \/ AddMode \/ DropMode \/ AddTag \/ DropTag
  \/ Report \/ Sync \/ Pull

RetentionSpec == RetentionInit /\ [][RetentionNext]_retentionVars

-----------------------------------------------------------------------------
\* Properties.

\* "A node with last:2 fetches the two newest and nothing else": select names
\* the fixed tags and the newest ones, whenever the window is at most two wide
\* or no tag is known with two timestamps.
SelectExact ==
  LET known == local \cup remote IN
  (window.last <= 2 \/ Single(known)) => Select(window, known) = InWindow(window, known)

\* What a sync fetches, the enforcement right after it keeps: otherwise every
\* sync would fetch and prune the same release again.
NoThrash ==
  Wanted \subseteq Enforced(Fetched)

\* A second sync with the same inventory has nothing more to do than the first
\* one left, as long as no wider window meets two timestamps of one tag.
SyncSettles ==
  (window.last <= 2 /\ Wanted # {}) =>
    LET after == Enforced(Fetched) IN
    \A s \in remote :
      s.tag \in Select(window, after \cup remote) => \E p \in after : p.tag = s.tag /\ p.ts >= s.ts
=============================================================================
