-------------------------- MODULE ReplicationProofs --------------------------
(***************************************************************************)
(* Proofs about Replication, for any replicas, tasks, tags and policies:   *)
(* types, that the window is enforced once a replica is quiet, and that a  *)
(* sync with the publisher catches up.                                     *)
(***************************************************************************)
EXTENDS Replication, WindowProofs

\* The policies name everything, or at most the two newest tags besides pins
\* and seeds.  (A wider window may lose a place to a tag that it knows with two
\* timestamps: dedup_by looks at neighbors only.)
Narrow == \A w \in Policies : w.full \/ w.last <= 2

\* A task has what its step needs.
FlowInv ==
  /\ win \in [Replica -> Policies]
  /\ \A t \in Task :
       /\ pc[t] = "idle" => kind[t] = None
       /\ pc[t] = "store" => gtag[t] \in want[t] /\ got[t] # None

\* Task u takes no step.
Left(u) ==
  /\ pc'[u] = pc[u] /\ kind'[u] = kind[u] /\ peers'[u] = peers[u] /\ inv'[u] = inv[u]
  /\ want'[u] = want[u] /\ got'[u] = got[u] /\ gtag'[u] = gtag[u] /\ seen'[u] = seen[u]

-----------------------------------------------------------------------------
\* The store of replica n is within its window.
Inside(n) == Held(n) \subseteq InWindow(win[n], Known(n))

\* Task t will enforce the window that the policy has now.
Owes(t) ==
  \/ pc[t] \in {"list", "enforce"}
  \/ pc[t] = "prune" /\ seen[t] = win[Home[t]]
  \/ pc[t] \in {"get", "store"} /\ kind[t] = "sync"

\* What is outside the window will go, by a task that runs or by the next one
\* that enforces the window.
WindowInv ==
  \A n \in Replica \ owing :
    \/ IsEmpty(win[n])
    \/ Inside(n)
    \/ \E t \in TasksOf(n) : Owes(t)

-----------------------------------------------------------------------------
\* A sync with a publisher that has not changed since, under one policy.
Current(t) == calm[t] /\ kind[t] = "sync" /\ pc[t] # "idle"

\* s is outside the window w next to the pairs of K: as many of them as w is
\* wide are of other tags and newer.
Crowded(w, K, s) ==
  /\ ~w.full /\ s.tag \notin w.tags
  /\ w.last = 1 => \E q \in K : q.tag # s.tag /\ Newer(q, s)
  /\ w.last = 2 => \E q, r \in K :
                     /\ q.tag # s.tag /\ r.tag # s.tag /\ q.tag # r.tag
                     /\ Newer(q, s) /\ Newer(r, s)

\* The records of one node: what it knows by them, and whether it has s or a
\* later release of its tag.
Records == [Tag -> Release \cup {None}]
TagsIn(h) == {g \in Tag : h[g] # None}
KnownBy(h) == {[tag |-> g, ts |-> h[g].ts] : g \in TagsIn(h)}
HasIn(h, s) == h[s.tag] # None /\ h[s.tag].ts >= s.ts

\* With the records h here and p there and the tags W yet to fetch, s is here,
\* will be fetched, or needs no place.
Served(w, h, p, W, s) ==
  \/ HasIn(h, s)
  \/ s.tag \in W
  \/ Crowded(w, KnownBy(h) \cup {q \in KnownBy(p) : q.tag \in W}, s)

\* Sync t asks the publisher, has its inventory, window and releases as they
\* are, and has left out nothing.
SyncOf(t) ==
  /\ pc[t] \in {"select", "get", "store", "enforce", "prune"}
  /\ peers[t] = {Publisher}
  /\ pc[t] = "select" => inv[t] = Known(Publisher)
  /\ pc[t] = "store" => got[t] = held[Publisher][gtag[t]]
  /\ pc[t] \in {"enforce", "prune"} => want[t] = {}
  /\ pc[t] = "prune" => seen[t] = win[Home[t]]
  /\ pc[t] # "select" => \A s \in Known(Publisher) :
       Served(win[Home[t]], held[Home[t]], held[Publisher], want[t], s)

SyncInv == \A t \in Task : Current(t) => SyncOf(t)

-----------------------------------------------------------------------------
\* A store knows every tag it holds, with one timestamp.
LEMMA KnownType ==
  ASSUME NEW h \in Records
  PROVE  /\ Pairs(KnownBy(h)) /\ Single(KnownBy(h)) /\ KnownBy(h) \subseteq Summary
         /\ \A p : p \in KnownBy(h) <=>
              p \in Summary /\ h[p.tag] # None /\ p.ts = h[p.tag].ts
         /\ TagsOf(KnownBy(h)) = TagsIn(h)
<1>1. \A g \in TagsIn(h) : h[g] \in Release /\ h[g].ts \in Nat /\ g \in Tag
  BY DEF Records, TagsIn, Release
<1>2. KnownBy(h) \subseteq Summary
  BY <1>1 DEF KnownBy, Summary
<1>3. ASSUME NEW p \in KnownBy(h)
      PROVE  h[p.tag] # None /\ p.ts = h[p.tag].ts /\ p.tag \in TagsIn(h)
  BY DEF KnownBy, TagsIn
<1>4. ASSUME NEW p \in Summary, h[p.tag] # None, p.ts = h[p.tag].ts
      PROVE  p \in KnownBy(h)
  <2>1. p = [tag |-> p.tag, ts |-> p.ts] /\ p.tag \in Tag
    BY DEF Summary
  <2>2. p.tag \in TagsIn(h) /\ p = [tag |-> p.tag, ts |-> h[p.tag].ts]
    BY <1>4, <2>1 DEF TagsIn
  <2>. QED  BY <2>2 DEF KnownBy
<1>5. IsFiniteSet(KnownBy(h))
  <2>. DEFINE f == [g \in TagsIn(h) |-> [tag |-> g, ts |-> h[g].ts]]
  <2>1. IsFiniteSet(TagsIn(h))
    <3>1. TagsIn(h) \in SUBSET Tag
      BY DEF TagsIn
    <3>. QED  BY <3>1, FS_Subset, ReplicationAssumption
  <2>2. f \in Surjection(TagsIn(h), KnownBy(h))
    BY DEF Surjection, KnownBy
  <2>. HIDE DEF f
  <2>. QED  BY <2>1, <2>2, FS_Surjection
<1>6. Summary \subseteq AnyPair
  BY ReplicationAssumption DEF Summary, AnyPair
<1>7. Single(KnownBy(h))
  <2>1. ASSUME NEW p \in KnownBy(h), NEW q \in KnownBy(h), p.tag = q.tag
        PROVE  p = q
    <3>1. p \in Summary /\ q \in Summary /\ p.ts = q.ts
      BY <1>2, <1>3, <2>1
    <3>. QED  BY <2>1, <3>1 DEF Summary
  <2>. QED  BY <2>1 DEF Single
<1>8. TagsOf(KnownBy(h)) = TagsIn(h)
  <2>1. ASSUME NEW g \in TagsIn(h)
        PROVE  \E p \in KnownBy(h) : p.tag = g
    <3>1. [tag |-> g, ts |-> h[g].ts] \in KnownBy(h)
      BY <2>1 DEF KnownBy
    <3>. QED  BY <3>1
  <2>. QED  BY <1>3, <2>1 DEF TagsOf
<1>. QED  BY <1>2, <1>3, <1>4, <1>5, <1>6, <1>7, <1>8 DEF Pairs

\* What the definitions of Replication say of the records of a node.
LEMMA KnownAre ==
  /\ \A n : Held(n) = TagsIn(held[n]) /\ Known(n) = KnownBy(held[n])
  /\ \A n : Held(n)' = TagsIn(held'[n]) /\ Known(n)' = KnownBy(held'[n])
  BY DEF Held, Known, TagsIn, KnownBy

\* In a store Window::select is exact.
LEMMA SelectStore ==
  ASSUME NEW h \in Records, NEW w
  PROVE  Select(w, KnownBy(h)) = InWindow(w, KnownBy(h))
  BY KnownType, SingleKept DEF Select, InWindow

\* k is h with some records removed.
Shrunk(h, k) == \A g \in Tag : k[g] \in {h[g], None}

\* A release that is in the window stays in it when others go.
LEMMA ShrunkInside ==
  ASSUME NEW h \in Records, NEW k \in Records, Shrunk(h, k), NEW w \in WindowOver(Tag),
         TagsIn(k) \subseteq InWindow(w, KnownBy(h))
  PROVE  TagsIn(k) \subseteq InWindow(w, KnownBy(k))
<1>. DEFINE H == KnownBy(h)
            K == KnownBy(k)
<1>1. /\ Pairs(H) /\ Pairs(K) /\ Latest(H) = H /\ Latest(K) = K
      /\ Single(H) /\ TagsOf(K) = TagsIn(k)
  BY KnownType, SingleKept
<1>2. K \subseteq H
  <2>1. ASSUME NEW p \in K
        PROVE  p \in H
    <3>1. p \in Summary /\ k[p.tag] # None /\ p.ts = k[p.tag].ts /\ p.tag \in Tag
      BY KnownType DEF Summary
    <3>2. h[p.tag] = k[p.tag]
      BY <3>1 DEF Shrunk
    <3>. QED  BY <3>1, <3>2, KnownType
  <2>. QED  BY <2>1
<1>3. ASSUME NEW p \in K, p \in Take(w.last, H)
      PROVE  p \in Take(w.last, K)
  <2>. DEFINE A == {q \in H : Newer(q, p)}
              B == {q \in K : Newer(q, p)}
  <2>1. B \in SUBSET A /\ A \in SUBSET H /\ Cardinality(A) < w.last /\ w.last \in Nat
    BY <1>2, <1>3 DEF Take, WindowOver
  <2>2. IsFiniteSet(A)
    <3>. HIDE DEF A
    <3>. QED  BY <1>1, <2>1, FS_Subset DEF Pairs
  <2>3. IsFiniteSet(B) /\ Cardinality(B) <= Cardinality(A)
    <3>. HIDE DEF A, B
    <3>. QED  BY <2>1, <2>2, FS_Subset
  <2>4. Cardinality(A) \in Nat /\ Cardinality(B) \in Nat
    BY <2>2, <2>3, FS_CardinalityType
  <2>5. Cardinality(B) < w.last
    BY <2>1, <2>3, <2>4
  <2>. QED  BY <2>5 DEF Take
<1>4. ASSUME NEW g \in TagsIn(k)
      PROVE  g \in InWindow(w, K)
  <2>1. PICK p \in K : p.tag = g
    BY <1>1, <1>4 DEF TagsOf
  <2>2. CASE g \in w.tags
    BY <2>2 DEF InWindow
  <2>3. CASE w.full
    BY <2>1, <2>3 DEF InWindow, TagsOf
  <2>4. CASE g \notin w.tags /\ ~w.full
    <3>1. PICK q \in Take(w.last, H) : q.tag = g
      BY <1>1, <2>4 DEF InWindow, TagsOf
    <3>2. q = p
      BY <1>1, <1>2, <2>1, <3>1 DEF Single, Take
    <3>. QED  BY <1>1, <1>3, <2>1, <2>4, <3>1, <3>2 DEF InWindow, TagsOf
  <2>. QED  BY <2>2, <2>3, <2>4
<1>. QED  BY <1>4

-----------------------------------------------------------------------------
\* A window that is full or at most two wide.
NarrowWindow(w) == w \in WindowOver(Tag) /\ (w.full \/ w.last <= 2)

\* The tags of select_wanted, when h is held and the inventory is that of p.
WantedOf(w, h, p) ==
  {s.tag : s \in {s \in KnownBy(p) :
     /\ ~IsEmpty(w)
     /\ s.tag \in Select(w, KnownBy(h) \cup KnownBy(p))
     /\ h[s.tag] # None => s.ts > h[s.tag].ts}}

\* The newest pair of all has a place in every window that counts, and so has
\* the newest of the other tags in one of two.
LEMMA TopSelected ==
  ASSUME NEW S, Pairs(S), NEW w \in WindowOver(Tag), w.last \in {1, 2}, NEW m \in S
  PROVE  /\ First(S, m) => m.tag \in Select(w, S)
         /\ w.last = 2 /\ Second(S, m) => m.tag \in Select(w, S)
<1>1. CASE w.full
  BY <1>1 DEF Select, TagsOf
<1>2. CASE ~w.full /\ w.last = 1
  BY <1>2, TopOne DEF Select, TagsOf
<1>3. CASE ~w.full /\ w.last = 2
  <2>1. First(S, m) => Second(S, m)
    BY DEF First, Second
  <2>. QED  BY <1>3, <2>1, TopTwo DEF Select, TagsOf
<1>. QED  BY <1>1, <1>2, <1>3

\* What is not selected is behind the newest tags, as many as the window is
\* wide, and these are selected.
LEMMA NotSelected ==
  ASSUME NEW S, Pairs(S), NEW w, NarrowWindow(w), NEW s \in S, s.tag \notin Select(w, S)
  PROVE  /\ ~w.full /\ s.tag \notin w.tags
         /\ w.last = 1 => \E m \in Latest(S) :
              m.tag \in Select(w, S) /\ m.tag # s.tag /\ Newer(m, s)
         /\ w.last = 2 => \E m, r \in Latest(S) :
              /\ m.tag \in Select(w, S) /\ r.tag \in Select(w, S) /\ m.tag # r.tag
              /\ m.tag # s.tag /\ r.tag # s.tag /\ Newer(m, s) /\ Newer(r, s)
<1>1. ~w.full /\ s.tag \notin w.tags /\ w \in WindowOver(Tag)
  BY DEF Select, TagsOf, NarrowWindow
<1>2. PICK m \in S : \A q \in S : ~Newer(q, m)
  BY Newest
<1>3. First(S, m) /\ m \in Latest(S)
  BY <1>2 DEF First, Latest
<1>4. ASSUME w.last \in {1, 2}
      PROVE  m.tag \in Select(w, S) /\ m.tag # s.tag /\ Newer(m, s)
  <2>1. m.tag \in Select(w, S)
    BY <1>1, <1>3, <1>4, TopSelected
  <2>. QED  BY <1>2, <2>1, NewerOrder DEF Pairs
<1>5. ASSUME w.last = 2
      PROVE  \E r \in Latest(S) :
               /\ r.tag \in Select(w, S) /\ m.tag # r.tag
               /\ r.tag # s.tag /\ Newer(r, s)
  <2>. DEFINE T == {q \in S : q.tag # m.tag}
  <2>1. T \in SUBSET S /\ s \in T
    BY <1>4, <1>5
  <2>2. Pairs(T)
    <3>. HIDE DEF T
    <3>. QED  BY <2>1, FS_Subset DEF Pairs
  <2>3. PICK r \in T : \A q \in T : ~Newer(q, r)
    <3>. HIDE DEF T
    <3>. QED  BY <2>1, <2>2, Newest
  <2>4. Second(S, r) /\ r \in Latest(S) /\ r \in S /\ r.tag # m.tag
    BY <2>3 DEF Second, Latest
  <2>5. r.tag \in Select(w, S)
    BY <1>1, <1>5, <2>4, TopSelected
  <2>6. r.tag # s.tag
    BY <2>5
  <2>7. Newer(r, s)
    BY <2>1, <2>3, <2>4, <2>6, NewerOrder DEF Pairs
  <2>. QED  BY <2>4, <2>5, <2>6, <2>7
<1>. QED  BY <1>1, <1>3, <1>4, <1>5

\* select_wanted leaves out only what is held already or will have no place.
LEMMA SelectServes ==
  ASSUME NEW h \in Records, NEW p \in Records, NEW w, NarrowWindow(w),
         NEW s \in KnownBy(p), s.tag \notin WantedOf(w, h, p), ~HasIn(h, s)
  PROVE  Crowded(w, KnownBy(h) \cup {q \in KnownBy(p) : q.tag \in WantedOf(w, h, p)}, s)
<1>. DEFINE H == KnownBy(h)
            P == KnownBy(p)
            S == H \cup P
            W == WantedOf(w, h, p)
            C == H \cup {q \in P : q.tag \in W}
<1>1. Pairs(S) /\ S \subseteq Summary /\ s \in S
  <2>1. Pairs(H) /\ Pairs(P) /\ S \subseteq Summary
    BY KnownType
  <2>. QED  BY <2>1, FS_Union DEF Pairs
<1>2. \A q \in P : ~IsEmpty(w) /\ q.tag \in Select(w, S)
                   /\ (h[q.tag] # None => q.ts > h[q.tag].ts) => q.tag \in W
  BY DEF WantedOf
<1>3. h[s.tag] # None => s.ts > h[s.tag].ts
  <2>1. s \in Summary /\ s.ts \in Nat /\ s.tag \in Tag
    BY <1>1 DEF Summary
  <2>2. h[s.tag] # None => h[s.tag].ts \in Nat
    BY <2>1 DEF Records, Release
  <2>. QED  BY <2>1, <2>2 DEF HasIn
<1>4. CASE IsEmpty(w)
  BY <1>4 DEF IsEmpty, Crowded
<1>5. CASE ~IsEmpty(w)
  <2>1. s.tag \notin Select(w, S)
    BY <1>2, <1>3, <1>5
  <2>2. ASSUME NEW m \in Latest(S), m.tag \in Select(w, S)
        PROVE  m \in C
    <3>1. m \in S /\ \A q \in S : q.tag = m.tag => ~Newer(q, m)
      BY DEF Latest
    <3>2. CASE m \in H
      BY <3>2
    <3>3. CASE m \notin H
      <4>1. m \in P /\ m \in Summary /\ m.tag \in Tag /\ m.ts \in Nat
        BY <1>1, <3>1, <3>3 DEF Summary
      <4>2. ASSUME h[m.tag] # None
            PROVE  m.ts > h[m.tag].ts
        <5>. DEFINE q == [tag |-> m.tag, ts |-> h[m.tag].ts]
        <5>1. h[m.tag].ts \in Nat
          BY <4>1, <4>2 DEF Records, Release
        <5>2. q \in Summary /\ q.tag = m.tag /\ q.ts = h[m.tag].ts
          BY <4>1, <5>1 DEF Summary
        <5>3. q \in H
          <6>. HIDE DEF q
          <6>. QED  BY <4>2, <5>2, KnownType
        <5>4. ~Newer(q, m) /\ q # m
          BY <3>1, <3>3, <5>2, <5>3
        <5>5. q.ts # m.ts
          BY <4>1, <5>2, <5>4 DEF Summary
        <5>. QED  BY <4>1, <5>1, <5>2, <5>4, <5>5 DEF Newer
      <4>3. m.tag \in W
        BY <1>2, <1>5, <2>2, <4>1, <4>2
      <4>. QED  BY <4>1, <4>3
    <3>. QED  BY <3>2, <3>3
  <2>3. /\ ~w.full /\ s.tag \notin w.tags
        /\ w.last = 1 => \E m \in Latest(S) :
             m.tag \in Select(w, S) /\ m.tag # s.tag /\ Newer(m, s)
        /\ w.last = 2 => \E m, r \in Latest(S) :
             /\ m.tag \in Select(w, S) /\ r.tag \in Select(w, S) /\ m.tag # r.tag
             /\ m.tag # s.tag /\ r.tag # s.tag /\ Newer(m, s) /\ Newer(r, s)
    <3>. HIDE DEF S
    <3>. QED  BY <1>1, <2>1, NotSelected
  <2>. HIDE DEF S, C
  <2>4. Crowded(w, C, s)
    BY <2>2, <2>3 DEF Crowded
  <2>. QED  BY <2>4 DEF C
<1>. QED  BY <1>4, <1>5

\* Later timestamps and more tags crowd out no less.
LEMMA StillCrowded ==
  ASSUME NEW K, NEW L, K \subseteq AnyPair, L \subseteq AnyPair, NEW s \in AnyPair, NEW w,
         \A q \in K : \E r \in L : r.tag = q.tag /\ r.ts >= q.ts,
         Crowded(w, K, s)
  PROVE  Crowded(w, L, s)
<1>1. ASSUME NEW q \in K, q.tag # s.tag, Newer(q, s)
      PROVE  \E r \in L : r.tag = q.tag /\ Newer(r, s)
  <2>1. PICK r \in L : r.tag = q.tag /\ r.ts >= q.ts
    OBVIOUS
  <2>2. r \in AnyPair /\ q \in AnyPair
    OBVIOUS
  <2>3. Newer(r, s)
    BY <1>1, <2>1, <2>2 DEF Newer, AnyPair
  <2>. QED  BY <2>1, <2>3
<1>2. ASSUME w.last = 1
      PROVE  \E q \in L : q.tag # s.tag /\ Newer(q, s)
  BY <1>1, <1>2 DEF Crowded
<1>3. ASSUME w.last = 2
      PROVE  \E q, r \in L : /\ q.tag # s.tag /\ r.tag # s.tag /\ q.tag # r.tag
                             /\ Newer(q, s) /\ Newer(r, s)
  <2>1. PICK q \in K, r \in K : /\ q.tag # s.tag /\ r.tag # s.tag /\ q.tag # r.tag
                                /\ Newer(q, s) /\ Newer(r, s)
    BY <1>3 DEF Crowded
  <2>2. PICK a \in L : a.tag = q.tag /\ Newer(a, s)
    BY <1>1, <2>1
  <2>3. PICK b \in L : b.tag = r.tag /\ Newer(b, s)
    BY <1>1, <2>1
  <2>. QED  BY <2>1, <2>2, <2>3
<1>. QED  BY <1>2, <1>3 DEF Crowded

\* A release that goes, and that is not older than s, leaves the newest tags
\* behind: one of them is that of s, or they crowd s out.
LEMMA GoneServes ==
  ASSUME NEW h \in Records, NEW k \in Records, NEW w, NarrowWindow(w),
         \A g \in Tag : g \in Select(w, KnownBy(h)) => k[g] = h[g],
         NEW s \in Summary, s.tag \notin w.tags,
         NEW x \in KnownBy(h), k[x.tag] # h[x.tag], x = s \/ Newer(x, s)
  PROVE  HasIn(k, s) \/ Crowded(w, KnownBy(k), s)
<1>. DEFINE H == KnownBy(h)
            K == KnownBy(k)
<1>1. Pairs(H) /\ H \subseteq Summary /\ Summary \subseteq AnyPair
  BY KnownType, ReplicationAssumption DEF Summary, AnyPair
<1>2. x.tag \notin Select(w, H)
  BY <1>1 DEF Summary
<1>3. /\ ~w.full
      /\ w.last = 1 => \E m \in Latest(H) :
           m.tag \in Select(w, H) /\ m.tag # x.tag /\ Newer(m, x)
      /\ w.last = 2 => \E m, r \in Latest(H) :
           /\ m.tag \in Select(w, H) /\ r.tag \in Select(w, H) /\ m.tag # r.tag
           /\ m.tag # x.tag /\ r.tag # x.tag /\ Newer(m, x) /\ Newer(r, x)
  <2>. HIDE DEF H
  <2>. QED  BY <1>1, <1>2, NotSelected DEF H
<1>4. ASSUME NEW m \in Latest(H), m.tag \in Select(w, H), Newer(m, x)
      PROVE  m \in K /\ Newer(m, s) /\ (m.tag = s.tag => HasIn(k, s))
  <2>1. m \in Summary /\ h[m.tag] # None /\ m.ts = h[m.tag].ts /\ m.tag \in Tag
    BY KnownType DEF Latest, Summary
  <2>2. k[m.tag] = h[m.tag]
    BY <1>4, <2>1
  <2>3. m \in K
    BY <2>1, <2>2, KnownType
  <2>4. Newer(m, s)
    BY <1>1, <1>4, <2>1, NewerOrder
  <2>5. m.tag = s.tag => m.ts >= s.ts
    BY <1>1, <2>1, <2>4 DEF Newer, AnyPair
  <2>. QED  BY <2>1, <2>2, <2>3, <2>4, <2>5 DEF HasIn
<1>. HIDE DEF H, K
<1>5. HasIn(k, s) \/ Crowded(w, K, s)
  BY <1>3, <1>4 DEF Crowded
<1>. QED  BY <1>5 DEF K

\* enforce_window and gc, with the window that the policy has, undo nothing.
LEMMA PruneServes ==
  ASSUME NEW h \in Records, NEW k \in Records, Shrunk(h, k), NEW w, NarrowWindow(w),
         \/ IsEmpty(w)
         \/ \A g \in Tag : g \in Select(w, KnownBy(h)) => k[g] = h[g],
         NEW C, NEW s \in Summary,
         HasIn(h, s) \/ Crowded(w, KnownBy(h) \cup C, s)
  PROVE  HasIn(k, s) \/ Crowded(w, KnownBy(k) \cup C, s)
<1>1. CASE IsEmpty(w)
  BY <1>1 DEF IsEmpty, Crowded
<1>2. CASE ~IsEmpty(w)
  <2>1. \A g \in Tag : g \in Select(w, KnownBy(h)) => k[g] = h[g]
    BY <1>2
  <2>2. ASSUME s.tag \notin w.tags, NEW x \in KnownBy(h), k[x.tag] # h[x.tag],
               x = s \/ Newer(x, s)
        PROVE  HasIn(k, s) \/ Crowded(w, KnownBy(k) \cup C, s)
    <3>1. HasIn(k, s) \/ Crowded(w, KnownBy(k), s)
      BY <2>1, <2>2, GoneServes
    <3>. QED  BY <3>1 DEF Crowded
  <2>3. CASE HasIn(h, s)
    <3>1. CASE k[s.tag] = h[s.tag]
      BY <2>3, <3>1 DEF HasIn
    <3>2. CASE k[s.tag] # h[s.tag]
      <4>. DEFINE x == [tag |-> s.tag, ts |-> h[s.tag].ts]
      <4>1. s.tag \in Tag /\ s.ts \in Nat /\ s.tag \in Nat
        BY ReplicationAssumption DEF Summary
      <4>2. h[s.tag] # None /\ h[s.tag].ts \in Nat /\ h[s.tag].ts >= s.ts
        BY <2>3, <4>1 DEF HasIn, Records, Release
      <4>3. x \in Summary /\ x.tag = s.tag /\ x.ts = h[s.tag].ts
        BY <4>1, <4>2 DEF Summary
      <4>4. x = s \/ Newer(x, s)
        BY <4>1, <4>2, <4>3 DEF Newer, Summary
      <4>. HIDE DEF x
      <4>5. x \in KnownBy(h)
        BY <4>2, <4>3, KnownType
      <4>6. s.tag \notin w.tags
        BY <2>1, <3>2, <4>1 DEF Select
      <4>. QED  BY <2>2, <3>2, <4>3, <4>4, <4>5, <4>6
    <3>. QED  BY <3>1, <3>2
  <2>4. CASE Crowded(w, KnownBy(h) \cup C, s)
    <3>1. CASE \E x \in KnownBy(h) : k[x.tag] # h[x.tag] /\ Newer(x, s)
      BY <2>2, <2>4, <3>1 DEF Crowded
    <3>2. CASE \A x \in KnownBy(h) : Newer(x, s) => k[x.tag] = h[x.tag]
      <4>1. \A x \in KnownBy(h) \cup C : Newer(x, s) => x \in KnownBy(k) \cup C
        BY <3>2, KnownType
      <4>. QED  BY <2>4, <4>1 DEF Crowded
    <3>. QED  BY <3>1, <3>2
  <2>. QED  BY <2>3, <2>4
<1>. QED  BY <1>1, <1>2

\* What is crowded out would not be kept if it were fetched.
LEMMA CrowdedOut ==
  ASSUME NEW h \in Records, NEW w, NarrowWindow(w), NEW s \in Summary,
         ~HasIn(h, s), Crowded(w, KnownBy(h), s)
  PROVE  s.tag \notin InWindow(w, KnownBy(h) \cup {s})
<1>. DEFINE S == KnownBy(h) \cup {s}
<1>1. Pairs(S)
  <2>1. Pairs(KnownBy(h)) /\ s \in AnyPair
    BY KnownType, ReplicationAssumption DEF Summary, AnyPair
  <2>2. IsFiniteSet(S)
    BY <2>1, FS_AddElement DEF Pairs
  <2>. QED  BY <2>1, <2>2 DEF Pairs
<1>2. \A q \in KnownBy(h) : q.tag = s.tag => Newer(s, q)
  <2>1. ASSUME NEW q \in KnownBy(h), q.tag = s.tag
        PROVE  Newer(s, q)
    <3>1. q \in Summary /\ h[q.tag] # None /\ q.ts = h[q.tag].ts
      BY KnownType
    <3>2. ~(q.ts >= s.ts)
      BY <2>1, <3>1 DEF HasIn
    <3>. QED  BY <3>1, <3>2 DEF Newer, Summary
  <2>. QED  BY <2>1
<1>3. ASSUME NEW p \in Latest(S), p.tag = s.tag
      PROVE  p = s
  BY <1>2, <1>3 DEF Latest
<1>4. s.tag \notin w.tags /\ ~w.full /\ w.last \in 0 .. 2
  BY DEF Crowded, NarrowWindow, WindowOver
<1>. HIDE DEF S
<1>5. Latest(S) \subseteq S /\ Pairs(Latest(S)) /\ KnownBy(h) \subseteq S
  BY <1>1, KnownParts, LatestKept DEF S, Latest
<1>6. s \notin Take(w.last, Latest(S))
  <2>1. CASE w.last = 0
    BY <1>5, <2>1, TakeNone
  <2>2. CASE w.last = 1
    <3>1. PICK q \in KnownBy(h) : Newer(q, s)
      BY <2>2 DEF Crowded
    <3>2. ~First(S, s)
      BY <1>5, <3>1 DEF First
    <3>. QED  BY <1>1, <2>2, <3>2, TopOne
  <2>3. CASE w.last = 2
    <3>1. PICK q \in KnownBy(h), r \in KnownBy(h) :
            q.tag # r.tag /\ Newer(q, s) /\ Newer(r, s)
      BY <2>3 DEF Crowded
    <3>2. ~Second(S, s)
      BY <1>5, <3>1 DEF Second
    <3>. QED  BY <1>1, <2>3, <3>2, TopTwo
  <2>. QED  BY <1>4, <2>1, <2>2, <2>3
<1>7. s.tag \notin InWindow(w, S)
  BY <1>3, <1>4, <1>6 DEF InWindow, TagsOf, Take
<1>. QED  BY <1>7 DEF S

-----------------------------------------------------------------------------
\* Types.

Stores == [Node -> Records]

\* Where tasks run.
LEMMA Nodes ==
  /\ Replica \subseteq Node /\ Publisher \in Node
  /\ \A t \in Task : Home[t] \in Replica /\ Home[t] \in Node /\ Home[t] # Publisher
  BY ReplicationAssumption DEF Node

\* No policy at all is a window too.
LEMMA NoWindowType == NoWindow \in WindowOver(Tag)
<1>1. (CHOOSE n \in {} \cup {0} : \A m \in {} : n >= m) = 0
  OBVIOUS
<1>. QED  BY <1>1 DEF NoWindow, WindowOf, WindowOver, Full

\* put_release keeps the later record.
LEMMA PutAre ==
  ASSUME held \in Stores, NEW n \in Node, NEW g \in Tag, NEW r \in Release,
         held' = Put(n, g, r)
  PROVE  /\ held' \in Stores
         /\ \A m \in Node : m # n => held'[m] = held[m]
         /\ \A x \in Tag : x # g => held'[n][x] = held[n][x]
         /\ held'[n][g] # None /\ held'[n][g].ts >= r.ts
         /\ held[n][g] # None => held'[n][g].ts >= held[n][g].ts
<1>1. r # None /\ r.ts \in Nat /\ (held[n][g] # None => held[n][g].ts \in Nat)
  BY ReplicationAssumption DEF Stores, Records, Release
<1>2. CASE held[n][g] = None \/ Supersedes(r, held[n][g])
  <2>1. held' = [held EXCEPT ![n][g] = r]
    BY <1>2 DEF Put
  <2>2. held'[n] = [held[n] EXCEPT ![g] = r] /\ held[n] \in Records
    BY <2>1 DEF Stores
  <2>3. held'[n] \in Records
    BY <2>2 DEF Records
  <2>4. held' \in Stores /\ \A m \in Node : m # n => held'[m] = held[m]
    BY <2>1, <2>3 DEF Stores
  <2>5. held'[n][g] = r /\ \A x \in Tag : x # g => held'[n][x] = held[n][x]
    BY <2>2 DEF Records
  <2>. QED  BY <1>1, <1>2, <2>4, <2>5 DEF Supersedes
<1>3. CASE ~(held[n][g] = None \/ Supersedes(r, held[n][g]))
  <2>1. held' = held /\ held[n][g] # None /\ ~Supersedes(r, held[n][g])
    BY <1>3 DEF Put
  <2>. QED  BY <1>1, <2>1 DEF Supersedes
<1>. QED  BY <1>2, <1>3

\* Records that are removed are gone, the others stay.
LEMMA WithoutAre ==
  ASSUME held \in Stores, NEW n \in Node, NEW gone, held' = Without(n, gone)
  PROVE  /\ held' \in Stores
         /\ \A m \in Node : m # n => held'[m] = held[m]
         /\ \A x \in Tag : held'[n][x] = IF x \in gone THEN None ELSE held[n][x]
         /\ Shrunk(held[n], held'[n])
<1>1. held'[n] = [x \in Tag |-> IF x \in gone THEN None ELSE held[n][x]]
  BY DEF Without, Stores
<1>2. held'[n] \in Records
  BY <1>1 DEF Stores, Records
<1>3. held' \in Stores /\ \A m \in Node : m # n => held'[m] = held[m]
  BY <1>2 DEF Without, Stores
<1>. QED  BY <1>1, <1>3 DEF Shrunk

\* attach_referrer touches the publisher's records only.
LEMMA AttachAre ==
  ASSUME held \in Stores, clock \in Nat, NEW m \in Manifest, NEW ref \in Referrer,
         Attach(m, ref)
  PROVE  /\ held' \in Stores
         /\ \A n \in Replica : held'[n] = held[n]
         /\ announced \subseteq Summary => announced' \subseteq Summary
<1>. DEFINE Subjects == {g \in Held(Publisher) :
                           held[Publisher][g].man = m /\ ref \notin held[Publisher][g].refs}
            Signed(r) == [r EXCEPT !.refs = @ \cup {ref},
                                   !.ts = IF clock > @ THEN clock ELSE @ + 1]
            New == [g \in Tag |-> IF g \in Subjects THEN Signed(held[Publisher][g])
                                  ELSE held[Publisher][g]]
<1>1. held' = [held EXCEPT ![Publisher] = New]
  BY DEF Attach
<1>2. announced' = announced \cup {[tag |-> g, ts |-> held'[Publisher][g].ts] : g \in Subjects}
  BY DEF Attach
<1>3. ASSUME NEW g \in Subjects
      PROVE  Signed(held[Publisher][g]) \in Release /\ g \in Tag
  <2>1. held[Publisher][g] \in Release /\ g \in Tag
    BY Nodes DEF Held, Stores, Records
  <2>2. ASSUME NEW r \in Release
        PROVE  Signed(r) \in Release
    <3>1. r.ts \in Nat /\ r.man \in Manifest /\ r.refs \cup {ref} \in SUBSET Referrer
      BY DEF Release
    <3>2. (IF clock > r.ts THEN clock ELSE r.ts + 1) \in Nat
      BY <3>1
    <3>3. \A v \in Nat, f \in SUBSET Referrer :
            [r EXCEPT !.refs = f, !.ts = v] \in Release
      BY DEF Release
    <3>. QED  BY <3>1, <3>2, <3>3
  <2>. HIDE DEF Signed
  <2>. QED  BY <2>1, <2>2
<1>4. New \in Records
  BY <1>3, Nodes DEF Stores, Records
<1>5. held' \in Stores /\ \A n \in Replica : held'[n] = held[n]
  <2>. HIDE DEF New
  <2>. QED  BY <1>1, <1>4, Nodes, ReplicationAssumption DEF Stores, Node
<1>6. ASSUME NEW g \in Subjects
      PROVE  [tag |-> g, ts |-> held'[Publisher][g].ts] \in Summary
  <2>1. held'[Publisher][g] = Signed(held[Publisher][g])
    BY <1>1, <1>3, Nodes DEF Stores
  <2>. HIDE DEF Signed, Subjects
  <2>. QED  BY <1>3, <2>1 DEF Summary, Release
<1>. QED  BY <1>2, <1>5, <1>6

\* A task that ends keeps nothing.
LEMMA DoneAre ==
  ASSUME TypeOK, NEW t \in Task, Done(t)
  PROVE  /\ pc' \in [Task -> Step] /\ pc'[t] = "idle"
         /\ kind' \in [Task -> Kinds \cup {None}] /\ kind'[t] = None
         /\ peers' \in [Task -> SUBSET Node] /\ inv' \in [Task -> SUBSET Summary]
         /\ want' \in [Task -> SUBSET Tag] /\ got' \in [Task -> Release \cup {None}]
         /\ gtag' \in [Task -> Tag \cup {None}] /\ seen' \in [Task -> WindowOver(Tag)]
         /\ \A u \in Task : u # t =>
              /\ pc'[u] = pc[u] /\ kind'[u] = kind[u] /\ peers'[u] = peers[u]
              /\ inv'[u] = inv[u] /\ want'[u] = want[u] /\ got'[u] = got[u]
              /\ gtag'[u] = gtag[u] /\ seen'[u] = seen[u]
  BY NoWindowType DEF TypeOK, Done, Step

\* What select_wanted names are tags.
LEMMA WantedTags ==
  ASSUME NEW n, NEW remote \in SUBSET Summary
  PROVE  Wanted(n, remote) \in SUBSET Tag
  BY DEF Wanted, Summary

\* TypeOK with what the steps of a task need.
Base == TypeOK /\ FlowInv

\* At first no task runs and nothing is held.
LEMMA BaseInit == Init => Base
<1>. SUFFICES ASSUME Init
              PROVE  Base
  OBVIOUS
<1>1. held \in [Node -> [Tag -> Release \cup {None}]]
  BY DEF Init
<1>2. win \in [Replica -> WindowOver(Tag)] /\ win \in [Replica -> Policies]
  BY ReplicationAssumption DEF Init
<1>3. seen \in [Task -> WindowOver(Tag)]
  BY NoWindowType DEF Init
<1>4. clock \in 1 .. MaxClock /\ pushed \in 0 .. PerSecond
  BY ReplicationAssumption DEF Init
<1>5. /\ peers \in [Task -> SUBSET Node] /\ inv \in [Task -> SUBSET Summary]
      /\ want \in [Task -> SUBSET Tag] /\ got \in [Task -> Release \cup {None}]
      /\ gtag \in [Task -> Tag \cup {None}]
  BY DEF Init
<1>6. /\ pc \in [Task -> Step] /\ kind \in [Task -> Kinds \cup {None}]
      /\ calm \in [Task -> BOOLEAN] /\ owing \subseteq Replica /\ announced \subseteq Summary
  BY DEF Init, Step
<1>7. FlowInv
  BY <1>2 DEF Init, FlowInv
<1>8. AllAsked
  BY DEF Init, AllAsked
<1>. QED  BY <1>1, <1>2, <1>3, <1>4, <1>5, <1>6, <1>7, <1>8 DEF Base, TypeOK

\* The history of syncs has Booleans.
LEMMA DisturbAre ==
  ASSUME calm \in [Task -> BOOLEAN], NEW S, Disturb(S)
  PROVE  /\ calm' \in [Task -> BOOLEAN]
         /\ \A t \in Task : calm'[t] => calm[t] /\ t \notin S
  BY DEF Disturb

\* Steps of the publisher, and removals at a replica.
LEMMA BaseWorld ==
  ASSUME Base, PublisherStep \/ \E n \in Replica, g \in Tag : Remove(n, g)
  PROVE  Base'
<1>0. held \in Stores /\ clock \in Nat /\ calm \in [Task -> BOOLEAN]
  BY ReplicationAssumption DEF Base, TypeOK, AllAsked, Stores, Records
<1>1. CASE Tick
  BY <1>1, ReplicationAssumption DEF Tick, Base, TypeOK, AllAsked, FlowInv, locals, history
<1>2. ASSUME NEW g \in Tag, NEW m \in Manifest, Push(g, m)
      PROVE  Base'
  <2>. DEFINE r == [ts |-> clock, man |-> m, refs |-> {}]
  <2>1. r \in Release
    BY <1>0 DEF Release
  <2>2. held' = Put(Publisher, g, r)
    BY <1>2 DEF Push
  <2>3. held' \in Stores
    <3>. HIDE DEF r
    <3>. QED  BY <1>0, <2>1, <2>2, PutAre, Nodes
  <2>4. announced' \subseteq Summary
    BY <1>0, <1>2 DEF Push, Summary, Base, TypeOK, AllAsked
  <2>5. calm' \in [Task -> BOOLEAN]
    BY <1>0, <1>2, DisturbAre DEF Push
  <2>6. pushed' \in 0 .. PerSecond
    BY <1>2, ReplicationAssumption DEF Push, Base, TypeOK, AllAsked
  <2>. QED
    BY <1>2, <2>3, <2>4, <2>5, <2>6
    DEF Push, Base, TypeOK, AllAsked, FlowInv, locals, Stores, Records
<1>3. ASSUME NEW m \in Manifest, NEW ref \in Referrer, Attach(m, ref)
      PROVE  Base'
  <2>1. held' \in Stores /\ announced' \subseteq Summary
    BY <1>0, <1>3, AttachAre DEF Base, TypeOK, AllAsked
  <2>2. calm' \in [Task -> BOOLEAN]
    BY <1>0, <1>3, DisturbAre DEF Attach
  <2>. QED
    BY <1>3, <2>1, <2>2 DEF Attach, Base, TypeOK, AllAsked, FlowInv, locals, Stores, Records
<1>4. ASSUME NEW n \in Node, NEW g, held' = Without(n, {g}), NEW S, Disturb(S),
             UNCHANGED <<world, win, pc, locals, owing>>
      PROVE  Base'
  <2>1. held' \in Stores
    BY <1>0, <1>4, WithoutAre
  <2>2. calm' \in [Task -> BOOLEAN]
    BY <1>0, <1>4, DisturbAre
  <2>. QED
    BY <1>4, <2>1, <2>2 DEF Base, TypeOK, AllAsked, FlowInv, world, locals, Stores, Records
<1>5. ASSUME NEW g \in Tag, Delete(g)
      PROVE  Base'
  BY <1>4, <1>5, Nodes DEF Delete
<1>6. ASSUME NEW n \in Replica, NEW g \in Tag, Remove(n, g)
      PROVE  Base'
  BY <1>4, <1>6, Nodes DEF Remove
<1>. QED  BY <1>1, <1>2, <1>3, <1>5, <1>6 DEF PublisherStep

\* A task that ends, whatever it did to the store.
LEMMA BaseDone ==
  ASSUME Base, NEW t \in Task, Done(t), UNCHANGED <<world, win>>,
         held' \in Stores, calm' \in [Task -> BOOLEAN], owing' \subseteq Replica
  PROVE  Base'
<1>1. TypeOK'
  BY DoneAre DEF Base, TypeOK, AllAsked, world, Stores, Records
<1>2. FlowInv'
  BY DoneAre DEF Base, FlowInv
<1>. QED  BY <1>1, <1>2 DEF Base

\* A task begins.
LEMMA BaseStarts ==
  ASSUME Base, NEW t \in Task, Starts(t)
  PROVE  Base'
<1>. USE DEF Base, TypeOK, AllAsked, FlowInv, Begin, Step, world, locals, history
<1>0. held \in Stores /\ Home[t] \in Replica /\ calm \in [Task -> BOOLEAN]
  BY Nodes DEF Stores, Records
<1>1. ASSUME NEW s \in announced, NEW from \in Node \ {Home[t]}, Receive(t, s, from)
      PROVE  Base'
  <2>1. s.tag \in Tag /\ {from, Publisher} \in SUBSET Node
    BY Nodes DEF Summary
  <2>. QED  BY <1>1, <2>1, ReplicationAssumption DEF Receive
<1>2. ASSUME NEW p \in Node \ {Home[t]}, SyncStart(t, p)
      PROVE  Base'
  <2>1. Known(p) \in SUBSET Summary
    BY <1>0, KnownAre, KnownType DEF Stores
  <2>2. calm' = [calm EXCEPT ![t] = p = Publisher]
    BY <1>2 DEF SyncStart
  <2>3. calm' \in [Task -> BOOLEAN]
    BY <1>0, <2>2
  <2>. QED  BY <1>2, <2>1, <2>3 DEF SyncStart
<1>3. ASSUME NEW g \in Tag, Pull(t, g)
      PROVE  Base'
  BY <1>3 DEF Pull
<1>4. ASSUME NEW w \in Policies, SetPolicy(t, w)
      PROVE  Base'
  <2>1. calm' \in [Task -> BOOLEAN]
    BY <1>0, <1>4, DisturbAre DEF SetPolicy
  <2>2. win' \in [Replica -> Policies] /\ win' \in [Replica -> WindowOver(Tag)]
    BY <1>0, <1>4, ReplicationAssumption DEF SetPolicy
  <2>. QED  BY <1>4, <2>1, <2>2 DEF SetPolicy
<1>5. CASE GcRead(t)
  BY <1>0, <1>5 DEF GcRead
<1>. QED  BY <1>1, <1>2, <1>3, <1>4, <1>5 DEF Starts

\* A sync takes its next tag.
LEMMA NextTagAre ==
  ASSUME Base, NEW t \in Task, NextTag(t)
  PROVE  /\ want' \in [Task -> SUBSET Tag] /\ want'[t] = want[t] \ {gtag'[t]}
         /\ pc' \in [Task -> Step] /\ pc'[t] \in {"enforce", "get"}
         /\ pc'[t] = "enforce" <=> want'[t] = {}
         /\ \A u \in Task : u # t => pc'[u] = pc[u] /\ want'[u] = want[u]
<1>1. want' = [want EXCEPT ![t] = want[t] \ {gtag'[t]}]
  BY DEF NextTag
<1>2. pc' = [pc EXCEPT ![t] = IF want'[t] = {} THEN "enforce" ELSE "get"]
  BY DEF NextTag
<1>3. want' \in [Task -> SUBSET Tag] /\ want'[t] = want[t] \ {gtag'[t]}
  BY <1>1 DEF Base, TypeOK, AllAsked
<1>. QED  BY <1>1, <1>2, <1>3 DEF Base, TypeOK, AllAsked, Step

\* A task goes on, but does not end.
LEMMA BaseContinues ==
  ASSUME Base, NEW t \in Task, Continues(t), ~Done(t)
  PROVE  Base'
<1>. USE DEF Base, TypeOK, AllAsked, FlowInv, Step, world, locals, history
<1>0. held \in Stores /\ Home[t] \in Node /\ calm \in [Task -> BOOLEAN] /\ Home[t] \in Replica
  BY Nodes DEF Stores, Records
<1>1. CASE SyncSelect(t)
  <2>1. Wanted(Home[t], inv[t]) \in SUBSET Tag
    BY WantedTags
  <2>2. /\ want' = [want EXCEPT ![t] = Wanted(Home[t], inv[t])]
        /\ inv' = [inv EXCEPT ![t] = {}] /\ pc' = [pc EXCEPT ![t] = "get"]
        /\ UNCHANGED <<kind, peers, got, gtag, seen>>
        /\ UNCHANGED <<world, held, win, history>> /\ pc[t] = "select"
    BY <1>1 DEF SyncSelect
  <2>3. want' \in [Task -> SUBSET Tag] /\ \A u \in Task : u # t => want'[u] = want[u]
    BY <2>1, <2>2
  <2>. QED  BY <2>2, <2>3
<1>2. CASE Get(t)
  <2>1. PICK g \in want[t], p \in peers[t] :
          /\ held[p][g] # None
          /\ got' = [got EXCEPT ![t] = held[p][g]]
          /\ gtag' = [gtag EXCEPT ![t] = g]
    BY <1>2 DEF Get
  <2>2. g \in Tag /\ p \in Node
    OBVIOUS
  <2>3. held[p][g] \in Release
    BY <2>1, <2>2
  <2>4. got' \in [Task -> Release \cup {None}] /\ gtag' \in [Task -> Tag \cup {None}]
    BY <2>1, <2>2, <2>3
  <2>. QED  BY <1>2, <2>1, <2>4 DEF Get
<1>3. CASE GetNothing(t)
  <2>1. PICK g \in want[t] : gtag' = [gtag EXCEPT ![t] = g] /\ NextTag(t)
                             /\ UNCHANGED <<kind, peers, inv, got, seen>>
    BY <1>3 DEF GetNothing
  <2>2. gtag' \in [Task -> Tag \cup {None}] /\ \A u \in Task : u # t => gtag'[u] = gtag[u]
    BY <2>1
  <2>3. pc[t] = "get" /\ UNCHANGED <<world, held, win, history>>
    BY <1>3 DEF GetNothing
  <2>. QED  BY <2>1, <2>2, <2>3, NextTagAre
<1>4. CASE Store(t) \/ FetchFail(t)
  <2>1. pc[t] = "store" /\ gtag[t] \in Tag /\ got[t] \in Release
    BY <1>4 DEF Store, FetchFail
  <2>2. held' \in Stores /\ owing' \subseteq Replica /\ calm' \in [Task -> BOOLEAN]
    <3>1. CASE Store(t)
      <4>1. held' \in Stores
        BY <1>0, <2>1, <3>1, PutAre DEF Store
      <4>. QED  BY <1>0, <3>1, <4>1 DEF Store
    <3>2. CASE FetchFail(t)
      BY <1>0, <3>2, DisturbAre DEF FetchFail
    <3>. QED  BY <1>4, <3>1, <3>2
  <2>3. CASE kind[t] = "announce" /\ pc' = [pc EXCEPT ![t] = "enforce"] /\ UNCHANGED locals
    BY <1>4, <2>2, <2>3 DEF Store, FetchFail, Stores, Records
  <2>4. CASE /\ got' = [got EXCEPT ![t] = None] /\ gtag' = gtag /\ NextTag(t)
             /\ UNCHANGED <<kind, peers, inv, seen>>
    <3>1. /\ got' \in [Task -> Release \cup {None}]
          /\ \A u \in Task : u # t => got'[u] = got[u]
      BY <2>4
    <3>2. UNCHANGED <<world, win>>
      BY <1>4 DEF Store, FetchFail
    <3>3. /\ want' \in [Task -> SUBSET Tag] /\ want'[t] = want[t] \ {gtag'[t]}
          /\ pc' \in [Task -> Step] /\ pc'[t] \in {"enforce", "get"}
          /\ pc'[t] = "enforce" <=> want'[t] = {}
          /\ \A u \in Task : u # t => pc'[u] = pc[u] /\ want'[u] = want[u]
      <4>. HIDE DEF Base
      <4>. QED  BY <2>4, NextTagAre
    <3>4. held' \in [Node -> [Tag -> Release \cup {None}]]
      BY <2>2, <3>2 DEF Stores, Records
    <3>5. FlowInv'
      BY <2>4, <3>1, <3>2, <3>3
    <3>6. AllAsked'
      BY <2>4, <3>3
    <3>. HIDE DEF AllAsked, FlowInv, Step
    <3>. QED  BY <2>2, <2>4, <3>1, <3>2, <3>3, <3>4, <3>5, <3>6
  <2>. QED  BY <1>4, <2>3, <2>4 DEF Store, FetchFail
<1>5. CASE ListImages(t)
  BY <1>5 DEF ListImages
<1>6. CASE Enforce(t)
  BY <1>0, <1>6 DEF Enforce
<1>. QED
  BY <1>1, <1>2, <1>3, <1>4, <1>5, <1>6 DEF Continues, GetFail, Prune, GcPrune, Leave

\* What a task that ends has done besides.
LEMMA EndAre ==
  ASSUME Base, NEW t \in Task, Continues(t), Done(t)
  PROVE  /\ UNCHANGED <<world, win>>
         /\ held' \in Stores /\ calm' \in [Task -> BOOLEAN] /\ owing' \subseteq Replica
<1>0. held \in Stores /\ Home[t] \in Node /\ calm \in [Task -> BOOLEAN] /\ Home[t] \in Replica
      /\ owing \subseteq Replica
  BY Nodes DEF Stores, Records, Base, TypeOK, AllAsked
<1>1. CASE UNCHANGED <<world, held, win, history>>
  BY <1>0, <1>1 DEF history
<1>2. CASE GetFail(t)
  BY <1>0, <1>2 DEF GetFail
<1>3. CASE Store(t)
  <2>1. gtag[t] \in Tag /\ got[t] \in Release
    BY <1>3 DEF Store, Base, TypeOK, AllAsked, FlowInv
  <2>2. held' \in Stores
    BY <1>0, <1>3, <2>1, PutAre DEF Store
  <2>. QED  BY <1>0, <1>3, <2>2 DEF Store
<1>4. CASE FetchFail(t)
  BY <1>0, <1>4, DisturbAre DEF FetchFail
<1>5. CASE Prune(t)
  BY <1>0, <1>5, DisturbAre, WithoutAre DEF Prune
<1>6. CASE GcPrune(t)
  BY <1>0, <1>6, DisturbAre, WithoutAre DEF GcPrune
<1>7. CASE Leave(t)
  BY <1>0, <1>7, DisturbAre DEF Leave
<1>. QED
  BY <1>1, <1>2, <1>3, <1>4, <1>5, <1>6, <1>7
  DEF Continues, SyncSelect, Get, GetNothing, ListImages, Enforce

\* A replica that starts again has lost its tasks, and no other task took a step.
LEMMA RestartAre ==
  ASSUME Base, NEW n \in Replica, NEW w \in Policies, Restart(n, w)
  PROVE  /\ Base' /\ held' = held /\ win'[n] = w
         /\ \A m \in Replica : m # n => win'[m] = win[m]
         /\ \A u \in Task : Home[u] # n => Left(u) /\ (calm'[u] => calm[u])
         /\ \A u \in Task : Home[u] = n => ~calm'[u]
<1>1. /\ \A u \in Task : Home[u] # n => Left(u)
      /\ \A u \in Task : Home[u] = n => pc'[u] = "idle" /\ kind'[u] = None
      /\ held' = held
  BY DEF Restart, Left
<1>2. /\ calm' \in [Task -> BOOLEAN]
      /\ \A u \in Task : calm'[u] => calm[u] /\ Home[u] # n
  BY DisturbAre DEF Restart, Base, TypeOK, AllAsked, TasksOf
<1>3. /\ win' \in [Replica -> Policies] /\ win' \in [Replica -> WindowOver(Tag)]
      /\ win'[n] = w /\ \A m \in Replica : m # n => win'[m] = win[m]
  BY ReplicationAssumption DEF Restart, Base, TypeOK, AllAsked, FlowInv
<1>4. /\ pc' \in [Task -> Step] /\ kind' \in [Task -> Kinds \cup {None}]
      /\ peers' \in [Task -> SUBSET Node] /\ inv' \in [Task -> SUBSET Summary]
      /\ want' \in [Task -> SUBSET Tag]
  BY DEF Restart, Base, TypeOK, AllAsked, Step
<1>5. /\ got' \in [Task -> Release \cup {None}] /\ gtag' \in [Task -> Tag \cup {None}]
      /\ seen' \in [Task -> WindowOver(Tag)]
  BY NoWindowType DEF Restart, Base, TypeOK, AllAsked
<1>6. owing' \subseteq Replica
  BY DEF Restart, Base, TypeOK, AllAsked
<1>7. TypeOK'
  BY <1>1, <1>2, <1>3, <1>4, <1>5, <1>6 DEF Restart, Base, TypeOK, AllAsked, world
<1>8. FlowInv'
  BY <1>1, <1>3 DEF Base, FlowInv, Left
<1>. QED  BY <1>1, <1>2, <1>3, <1>7, <1>8 DEF Base

\* Every step keeps the types.
LEMMA BaseStep == Base /\ [Next]_vars => Base'
<1>. SUFFICES ASSUME Base, [Next]_vars
              PROVE  Base'
  OBVIOUS
<1>1. ASSUME NEW t \in Task, Continues(t)
      PROVE  Base'
  BY <1>1, BaseContinues, BaseDone, EndAre
<1>2. CASE UNCHANGED vars
  BY <1>2 DEF vars, world, locals, history, Base, TypeOK, AllAsked, FlowInv
<1>. QED  BY <1>1, <1>2, BaseWorld, BaseStarts, RestartAre DEF Next

-----------------------------------------------------------------------------
\* The retention window of a quiet replica.

\* Replica n is within its window, or a task will see to it.
Due(n) ==
  \/ IsEmpty(win[n])
  \/ Inside(n)
  \/ \E t \in TasksOf(n) : Owes(t)

\* Records that go, and tasks that keep what they owe, disturb no window.
LEMMA DueKept ==
  ASSUME Base, Base', NEW n \in Replica, Due(n), win'[n] = win[n],
         Shrunk(held[n], held'[n]), \A u \in TasksOf(n) : Owes(u) => Owes(u)'
  PROVE  Due(n)'
<1>1. held[n] \in Records /\ held'[n] \in Records /\ win[n] \in WindowOver(Tag)
  BY Nodes DEF Base, TypeOK, Records
<1>2. CASE Inside(n)
  <2>1. TagsIn(held[n]) \subseteq InWindow(win[n], KnownBy(held[n]))
    BY <1>2, KnownAre DEF Inside
  <2>2. TagsIn(held'[n]) \subseteq TagsIn(held[n])
    BY DEF TagsIn, Shrunk
  <2>3. TagsIn(held'[n]) \subseteq InWindow(win[n], KnownBy(held'[n]))
    BY <1>1, <2>1, <2>2, ShrunkInside
  <2>4. Inside(n)'
    BY <2>3, KnownAre DEF Inside
  <2>. QED  BY <2>4 DEF Due
<1>3. CASE IsEmpty(win[n])
  BY <1>3 DEF Due
<1>4. CASE \E t \in TasksOf(n) : Owes(t)
  BY <1>4 DEF Due, TasksOf
<1>. QED  BY <1>2, <1>3, <1>4 DEF Due

\* At first no replica holds anything.
LEMMA WindowInit == Init => WindowInv
<1>1. Init => \A n \in Replica : Inside(n)
  BY Nodes DEF Init, Inside, Held
<1>. QED  BY <1>1 DEF WindowInv

\* Steps of the publisher, and removals.
LEMMA WindowWorld ==
  ASSUME Base, Base', WindowInv, PublisherStep \/ \E n \in Replica, g \in Tag : Remove(n, g)
  PROVE  WindowInv'
<1>0. held \in Stores /\ clock \in Nat
  BY ReplicationAssumption DEF Base, TypeOK, Stores, Records
<1>1. win' = win /\ owing' = owing /\ pc' = pc /\ kind' = kind /\ seen' = seen
  BY DEF PublisherStep, Tick, Push, Attach, Delete, Remove, locals, history
<1>2. ASSUME NEW n \in Replica
      PROVE  Shrunk(held[n], held'[n])
  <2>0. n \in Node /\ n # Publisher
    BY Nodes, ReplicationAssumption
  <2>1. CASE Tick
    BY <2>1 DEF Tick, Shrunk
  <2>2. ASSUME NEW g \in Tag, NEW m \in Manifest, Push(g, m)
        PROVE  held'[n] = held[n]
    <3>. DEFINE r == [ts |-> clock, man |-> m, refs |-> {}]
    <3>1. r \in Release /\ held' = Put(Publisher, g, r)
      BY <1>0, <2>2 DEF Push, Release
    <3>. HIDE DEF r
    <3>. QED  BY <1>0, <2>0, <3>1, PutAre, Nodes
  <2>3. ASSUME NEW m \in Manifest, NEW ref \in Referrer, Attach(m, ref)
        PROVE  held'[n] = held[n]
    BY <1>0, <2>3, AttachAre
  <2>4. ASSUME NEW x \in Node, NEW g, held' = Without(x, {g})
        PROVE  Shrunk(held[n], held'[n])
    BY <1>0, <2>0, <2>4, WithoutAre DEF Shrunk
  <2>5. ASSUME NEW g \in Tag, Delete(g)
        PROVE  Shrunk(held[n], held'[n])
    BY <2>4, <2>5, Nodes DEF Delete
  <2>6. ASSUME NEW x \in Replica, NEW g \in Tag, Remove(x, g)
        PROVE  Shrunk(held[n], held'[n])
    BY <2>4, <2>6, Nodes DEF Remove
  <2>. QED  BY <2>1, <2>2, <2>3, <2>5, <2>6 DEF PublisherStep, Shrunk
<1>3. ASSUME NEW n \in Replica \ owing
      PROVE  Due(n)'
  <2>1. \A u \in TasksOf(n) : Owes(u) => Owes(u)'
    BY <1>1 DEF Owes
  <2>. QED  BY <1>1, <1>2, <2>1, DueKept DEF WindowInv, Due
<1>. QED  BY <1>1, <1>3 DEF WindowInv, Due

\* A task begins: a policy change is followed by an enforcement.
LEMMA WindowStarts ==
  ASSUME Base, Base', WindowInv, NEW t \in Task, Starts(t)
  PROVE  WindowInv'
<1>1. /\ pc[t] = "idle" /\ held' = held /\ owing' = owing
      /\ \A u \in Task : u # t => pc'[u] = pc[u] /\ kind'[u] = kind[u] /\ seen'[u] = seen[u]
  BY DEF Starts, Receive, SyncStart, Pull, SetPolicy, GcRead, Begin, history, Base, TypeOK
<1>2. /\ \A n \in Replica : n # Home[t] => win'[n] = win[n]
      /\ win' = win \/ pc'[t] = "list"
  BY DEF Starts, Receive, SyncStart, Pull, SetPolicy, GcRead, Begin, Base, TypeOK
<1>3. ASSUME NEW n \in Replica \ owing, win'[n] = win[n]
      PROVE  Due(n)'
  <2>1. \A u \in TasksOf(n) : Owes(u) => Owes(u)'
    BY <1>1, <1>3 DEF Owes, TasksOf
  <2>. QED  BY <1>1, <1>3, <2>1, DueKept DEF WindowInv, Due, Shrunk
<1>4. ASSUME NEW n \in Replica, win'[n] # win[n]
      PROVE  Due(n)'
  BY <1>2, <1>4 DEF Due, TasksOf, Owes
<1>. QED  BY <1>1, <1>3, <1>4 DEF WindowInv, Due

\* A task goes on.
LEMMA WindowContinues ==
  ASSUME Base, Base', WindowInv, NEW t \in Task, Continues(t)
  PROVE  WindowInv'
<1>. DEFINE n == Home[t]
<1>0. n \in Replica /\ n \in Node /\ held \in Stores /\ held' \in Stores
  BY Nodes DEF Base, TypeOK, Stores, Records
<1>1. \A u \in Task : u # t => pc'[u] = pc[u] /\ kind'[u] = kind[u] /\ seen'[u] = seen[u]
  <2>1. CASE Done(t)
    BY <2>1, DoneAre DEF Base
  <2>2. CASE ~Done(t)
    BY <2>2, NextTagAre
    DEF Continues, SyncSelect, Get, GetNothing, GetFail, Store, FetchFail, ListImages,
        Enforce, Prune, GcPrune, Leave, locals, Base, TypeOK
  <2>. QED  BY <2>1, <2>2
<1>2. /\ win' = win /\ owing \ {n} = owing' \ {n}
      /\ \A m \in Node : m # n => held'[m] = held[m]
  <2>1. win' = win /\ owing \ {n} = owing' \ {n}
    BY DEF Continues, SyncSelect, Get, GetNothing, GetFail, Store, FetchFail, ListImages,
           Enforce, Prune, GcPrune, Leave, history
  <2>2. held' = held \/ Store(t) \/ \E gone : held' = Without(n, gone)
    BY DEF Continues, SyncSelect, Get, GetNothing, GetFail, FetchFail, ListImages,
           Enforce, Prune, GcPrune, Leave
  <2>3. CASE Store(t)
    <3>1. gtag[t] \in Tag /\ got[t] \in Release
      BY <2>3 DEF Store, Base, TypeOK, FlowInv
    <3>. QED  BY <1>0, <2>1, <2>3, <3>1, PutAre DEF Store
  <2>4. ASSUME NEW gone, held' = Without(n, gone)
        PROVE  \A m \in Node : m # n => held'[m] = held[m]
    BY <1>0, <2>4, WithoutAre
  <2>. QED  BY <2>1, <2>2, <2>3, <2>4
<1>3. ASSUME NEW m \in Replica \ owing', m # n
      PROVE  Due(m)'
  <2>1. \A u \in TasksOf(m) : Owes(u) => Owes(u)'
    BY <1>1, <1>2, <1>3 DEF Owes, TasksOf
  <2>2. m \in Node /\ m \notin owing
    BY <1>2, <1>3, Nodes
  <2>3. Shrunk(held[m], held'[m])
    BY <1>2, <1>3, <2>2 DEF Shrunk
  <2>. QED  BY <1>2, <1>3, <2>1, <2>2, <2>3, DueKept DEF WindowInv, Due
<1>4. ASSUME n \notin owing, Shrunk(held[n], held'[n]), Owes(t) => Owes(t)'
      PROVE  Due(n)'
  <2>1. \A u \in TasksOf(n) : Owes(u) => Owes(u)'
    BY <1>1, <1>2, <1>4 DEF Owes, TasksOf
  <2>. HIDE DEF n
  <2>. QED  BY <1>0, <1>2, <1>4, <2>1, DueKept DEF WindowInv, Due
<1>5. ASSUME Owes(t)'
      PROVE  Due(n)'
  BY <1>5 DEF Due, TasksOf
<1>6. held' = held => Shrunk(held[n], held'[n])
  BY DEF Shrunk
<1>7. ASSUME n \notin owing'
      PROVE  Due(n)'
  <2>1. CASE SyncSelect(t) \/ Get(t) \/ GetNothing(t) \/ FetchFail(t)
    <3>1. held' = held /\ owing' = owing
      BY <2>1 DEF SyncSelect, Get, GetNothing, FetchFail, history
    <3>2. Owes(t) => Owes(t)'
      <4>1. Owes(t) => kind[t] = "sync" /\ ~SyncSelect(t)
        BY <2>1 DEF Owes, SyncSelect, Get, GetNothing, FetchFail
      <4>2. CASE Get(t)
        BY <4>1, <4>2 DEF Get, Owes, Base, TypeOK
      <4>3. CASE kind[t] = "sync" /\ (GetNothing(t) \/ FetchFail(t))
        <5>1. NextTag(t) /\ kind' = kind
          BY <4>3 DEF GetNothing, FetchFail
        <5>. QED  BY <4>3, <5>1, NextTagAre DEF Owes
      <4>. QED  BY <2>1, <4>1, <4>2, <4>3
    <3>. QED  BY <1>4, <1>6, <1>7, <3>1, <3>2
  <2>2. CASE GetFail(t)
    <3>1. kind[t] # "sync" /\ held' = held /\ owing' = owing /\ pc[t] = "get"
      BY <1>7, <2>2 DEF GetFail
    <3>2. ~Owes(t)
      BY <3>1 DEF Owes
    <3>. QED  BY <1>4, <1>6, <1>7, <3>1, <3>2
  <2>3. CASE Store(t)
    <3>1. kind[t] # "pull"
      BY <1>7, <2>3 DEF Store
    <3>2. CASE kind[t] = "sync"
      <4>1. NextTag(t) /\ kind' = kind
        BY <2>3, <3>2 DEF Store
      <4>2. Owes(t)'
        BY <3>2, <4>1, NextTagAre DEF Owes
      <4>. QED  BY <1>5, <4>2
    <3>3. CASE kind[t] = "announce"
      <4>1. pc' = [pc EXCEPT ![t] = "enforce"]
        BY <2>3, <3>3 DEF Store
      <4>2. Owes(t)'
        BY <4>1 DEF Owes, Base, TypeOK
      <4>. QED  BY <1>5, <4>2
    <3>. QED  BY <2>3, <3>1, <3>2, <3>3 DEF Store
  <2>4. CASE ListImages(t)
    <3>1. CASE Held(n) = {}
      <4>1. Held(n)' = {}
        BY <2>4, <3>1 DEF ListImages, Held
      <4>2. Inside(n)'
        BY <4>1 DEF Inside
      <4>. QED  BY <4>2 DEF Due
    <3>2. CASE Held(n) # {}
      <4>1. pc' = [pc EXCEPT ![t] = "enforce"]
        BY <2>4, <3>2 DEF ListImages
      <4>2. Owes(t)'
        BY <4>1 DEF Owes, Base, TypeOK
      <4>. QED  BY <1>5, <4>2
    <3>. QED  BY <3>1, <3>2
  <2>5. CASE Enforce(t)
    <3>1. CASE IsEmpty(win[n])
      BY <1>2, <3>1 DEF Due
    <3>2. CASE ~IsEmpty(win[n])
      <4>1. pc' = [pc EXCEPT ![t] = "prune"] /\ seen' = [seen EXCEPT ![t] = win[n]]
        BY <2>5, <3>2 DEF Enforce
      <4>2. Owes(t)'
        BY <1>2, <4>1 DEF Owes, Base, TypeOK
      <4>. QED  BY <1>5, <4>2
    <3>. QED  BY <3>1, <3>2
  <2>6. CASE Prune(t) /\ seen[t] = win[n]
    <3>. DEFINE h == held[n]
                k == held'[n]
                w == win[n]
                gone == TagsIn(h) \ Select(w, KnownBy(h))
    <3>1. h \in Records /\ k \in Records /\ w \in WindowOver(Tag)
      BY <1>0 DEF Stores, Base, TypeOK
    <3>2. held' = Without(n, gone)
      BY <2>6, KnownAre DEF Prune
    <3>3. /\ Shrunk(h, k)
          /\ \A x \in Tag : k[x] = IF x \in gone THEN None ELSE h[x]
      <4>. HIDE DEF gone
      <4>. QED  BY <1>0, <3>2, WithoutAre
    <3>4. TagsIn(k) \subseteq Select(w, KnownBy(h))
      BY <3>3 DEF TagsIn
    <3>5. TagsIn(k) \subseteq InWindow(w, KnownBy(k))
      <4>. HIDE DEF h, k, w
      <4>. QED  BY <3>1, <3>3, <3>4, SelectStore, ShrunkInside
    <3>6. Inside(n)'
      BY <1>2, <3>5, KnownAre DEF Inside
    <3>. QED  BY <3>6 DEF Due
  <2>7. CASE Prune(t) /\ seen[t] # win[n]
    <3>1. owing' = owing /\ ~Owes(t)
      BY <2>7 DEF Prune, Owes
    <3>2. Shrunk(held[n], held'[n])
      BY <1>0, <2>7, WithoutAre DEF Prune
    <3>. QED  BY <1>4, <1>7, <3>1, <3>2
  <2>8. CASE GcPrune(t)
    <3>1. owing' = owing /\ ~Owes(t)
      BY <2>8 DEF GcPrune, Owes
    <3>2. Shrunk(held[n], held'[n])
      BY <1>0, <2>8, WithoutAre DEF GcPrune
    <3>. QED  BY <1>4, <1>7, <3>1, <3>2
  <2>9. CASE Leave(t)
    <3>1. ~InDebt(t) /\ held' = held /\ owing' = owing
      BY <1>7, <2>9 DEF Leave
    <3>2. ~Owes(t)
      BY <3>1 DEF Owes, InDebt
    <3>. QED  BY <1>4, <1>6, <1>7, <3>1, <3>2
  <2>. QED
    BY <2>1, <2>2, <2>3, <2>4, <2>5, <2>6, <2>7, <2>8, <2>9 DEF Continues
<1>. QED  BY <1>3, <1>7 DEF WindowInv, Due

\* A restart: a replica that had a window to enforce, or has another one now, is
\* left to the next task.
LEMMA WindowRestart ==
  ASSUME Base, Base', WindowInv, NEW n \in Replica, NEW w \in Policies, Restart(n, w)
  PROVE  WindowInv'
<1>. SUFFICES ASSUME NEW m \in Replica \ owing'
              PROVE  Due(m)'
  BY DEF WindowInv, Due
<1>1. owing' = owing \cup {x \in {n} : w # win[n] \/ \E t \in TasksOf(n) : InDebt(t)}
  BY DEF Restart
<1>2. Due(m) /\ Shrunk(held[m], held'[m])
  BY <1>1, RestartAre DEF WindowInv, Due, Shrunk
<1>3. win'[m] = win[m]
  BY <1>1, RestartAre
<1>4. ASSUME NEW u \in TasksOf(m), Owes(u)
      PROVE  Owes(u)'
  <2>1. m # n
    BY <1>1, <1>4 DEF Owes, InDebt, TasksOf
  <2>2. Left(u) /\ u \in Task /\ Home[u] = m
    BY <2>1, RestartAre DEF TasksOf
  <2>. QED  BY <1>3, <1>4, <2>2 DEF Owes, Left
<1>. QED  BY <1>2, <1>3, <1>4, DueKept

\* Every step keeps the windows due.
LEMMA WindowStep == Base /\ WindowInv /\ [Next]_vars => WindowInv'
<1>. SUFFICES ASSUME Base, WindowInv, [Next]_vars
              PROVE  WindowInv'
  OBVIOUS
<1>1. Base'
  BY BaseStep
<1>2. CASE UNCHANGED vars
  BY <1>2 DEF vars, world, locals, history, WindowInv, Inside, Held, Known, Owes
<1>. QED
  BY <1>1, <1>2, WindowWorld, WindowStarts, WindowContinues, WindowRestart DEF Next

\* Every variable of the replication keeps its type, and a sync that goes on to
\* enforce the window has asked for every tag it wanted.
THEOREM TypeCorrect == Spec => []TypeOK
  BY BaseInit, BaseStep, PTL DEF Spec, Base

\* Once no task runs at a replica it holds nothing outside its window, for any
\* number of tasks that store, change the policy, enforce and collect in any order,
\* are dropped at any await and stop with the daemon, unless a window was left to
\* the next task: by a pull, a sync that broke off, a policy change that was dropped
\* after the swap, or a restart with such a task or another policy on disk.
THEOREM WindowAlwaysEnforced == Spec => []QuietWindow
<1>1. WindowInv => QuietWindow
  <2>. SUFFICES ASSUME WindowInv, NEW n \in Replica \ owing, ~IsEmpty(win[n]),
                       \A t \in TasksOf(n) : pc[t] = "idle"
                PROVE  Inside(n)
    BY DEF QuietWindow, Inside
  <2>1. \A t \in TasksOf(n) : ~Owes(t)
    BY DEF Owes
  <2>. QED  BY <2>1 DEF WindowInv
<1>. QED  BY <1>1, BaseInit, BaseStep, WindowInit, WindowStep, PTL DEF Spec

-----------------------------------------------------------------------------
\* A sync with the publisher catches up.

\* k has of every tag that h has a release at least as late.
Grown(h, k) == \A g \in Tag : h[g] # None => k[g] # None /\ k[g].ts >= h[g].ts

\* k is h after an enforcement or a collection with window w.
Trimmed(w, h, k) ==
  /\ Shrunk(h, k)
  /\ \/ IsEmpty(w)
     \/ \A g \in Tag : g \in Select(w, KnownBy(h)) => k[g] = h[g]

\* Releases that arrive, the tags among them that t is done with or that are
\* nowhere to be had, undo nothing.
LEMMA GrownServed ==
  ASSUME NEW h \in Records, NEW k \in Records, NEW p \in Records, Grown(h, k),
         NEW W, NEW V \in SUBSET W,
         \A g \in Tag : g \in W \ V /\ p[g] # None => k[g] # None /\ k[g].ts >= p[g].ts,
         NEW w, NEW s \in KnownBy(p), Served(w, h, p, W, s)
  PROVE  Served(w, k, p, V, s)
<1>. DEFINE A == KnownBy(h) \cup {q \in KnownBy(p) : q.tag \in W}
            B == KnownBy(k) \cup {q \in KnownBy(p) : q.tag \in V}
<1>0. /\ Summary \subseteq AnyPair /\ A \subseteq Summary /\ B \subseteq Summary /\ s \in Summary
      /\ \A q \in Summary : q.tag \in Tag /\ q.ts \in Nat
  BY KnownType, ReplicationAssumption DEF Summary, AnyPair
<1>1. \A g \in Tag : /\ h[g] # None => h[g].ts \in Nat
                     /\ k[g] # None => k[g].ts \in Nat
                     /\ p[g] # None => p[g].ts \in Nat
  BY DEF Records, Release
<1>2. ASSUME NEW g \in Tag, k[g] # None
      PROVE  \E r \in B : r.tag = g /\ r.ts = k[g].ts
  <2>. DEFINE r == [tag |-> g, ts |-> k[g].ts]
  <2>1. r \in KnownBy(k)
    BY <1>2 DEF KnownBy, TagsIn
  <2>. QED  BY <2>1
<1>3. ASSUME NEW q \in A
      PROVE  \E r \in B : r.tag = q.tag /\ r.ts >= q.ts
  <2>1. q \in Summary /\ q.tag \in Tag /\ q.ts \in Nat
    BY <1>0
  <2>2. CASE q \in KnownBy(h)
    <3>1. h[q.tag] # None /\ q.ts = h[q.tag].ts
      BY <2>2, KnownType
    <3>2. k[q.tag] # None /\ k[q.tag].ts >= q.ts
      BY <2>1, <3>1 DEF Grown
    <3>. QED  BY <1>2, <2>1, <3>2
  <2>3. CASE q \in KnownBy(p) /\ q.tag \in V
    BY <1>1, <2>1, <2>3
  <2>4. CASE q \in KnownBy(p) /\ q.tag \in W \ V
    <3>1. p[q.tag] # None /\ q.ts = p[q.tag].ts
      BY <2>4, KnownType
    <3>2. k[q.tag] # None /\ k[q.tag].ts >= q.ts
      BY <2>1, <2>4, <3>1
    <3>. QED  BY <1>2, <2>1, <3>2
  <2>. QED  BY <2>2, <2>3, <2>4
<1>4. CASE HasIn(h, s)
  <2>1. s.tag \in Tag /\ s.ts \in Nat /\ h[s.tag] # None /\ h[s.tag].ts >= s.ts
    BY <1>0, <1>4 DEF HasIn
  <2>2. k[s.tag] # None /\ k[s.tag].ts >= h[s.tag].ts
    BY <2>1 DEF Grown
  <2>3. k[s.tag].ts >= s.ts
    BY <1>1, <2>1, <2>2
  <2>. QED  BY <2>2, <2>3 DEF Served, HasIn
<1>5. CASE s.tag \in V
  BY <1>5 DEF Served
<1>6. CASE s.tag \in W \ V
  <2>1. p[s.tag] # None /\ s.ts = p[s.tag].ts /\ s.tag \in Tag
    BY <1>0, KnownType
  <2>2. HasIn(k, s)
    BY <1>6, <2>1 DEF HasIn
  <2>. QED  BY <2>2 DEF Served
<1>7. CASE Crowded(w, A, s)
  <2>1. A \subseteq AnyPair /\ B \subseteq AnyPair /\ s \in AnyPair
    BY <1>0
  <2>2. Crowded(w, B, s)
    <3>. HIDE DEF A, B
    <3>. QED  BY <1>3, <1>7, <2>1, StillCrowded
  <2>. QED  BY <2>2 DEF Served
<1>. QED  BY <1>4, <1>5, <1>6, <1>7 DEF Served

\* An enforcement or a collection undoes nothing.
LEMMA TrimmedServed ==
  ASSUME NEW h \in Records, NEW k \in Records, NEW p \in Records, NEW W, NEW w,
         NarrowWindow(w), Trimmed(w, h, k), NEW s \in KnownBy(p), Served(w, h, p, W, s)
  PROVE  Served(w, k, p, W, s)
<1>. DEFINE C == {q \in KnownBy(p) : q.tag \in W}
<1>1. s \in Summary
  BY KnownType
<1>2. CASE s.tag \in W
  BY <1>2 DEF Served
<1>3. CASE HasIn(h, s) \/ Crowded(w, KnownBy(h) \cup C, s)
  <2>1. HasIn(k, s) \/ Crowded(w, KnownBy(k) \cup C, s)
    <3>. HIDE DEF C
    <3>. QED  BY <1>1, <1>3, PruneServes DEF Trimmed
  <2>. QED  BY <2>1 DEF Served
<1>. QED  BY <1>2, <1>3 DEF Served

\* A sync that takes no step stays current while releases arrive or go as the
\* window says.
LEMMA SyncKept ==
  ASSUME Base, Base', Narrow, NEW u \in Task, SyncOf(u),
         held'[Publisher] = held[Publisher], win'[Home[u]] = win[Home[u]],
         Left(u),
         \/ Grown(held[Home[u]], held'[Home[u]])
         \/ Trimmed(win[Home[u]], held[Home[u]], held'[Home[u]])
  PROVE  SyncOf(u)'
<1>. DEFINE h == held[Home[u]]
            k == held'[Home[u]]
            p == held[Publisher]
            w == win[Home[u]]
            W == want[u]
<1>1. h \in Records /\ k \in Records /\ p \in Records
  BY Nodes DEF Base, TypeOK, Records
<1>2. NarrowWindow(w)
  BY Nodes, ReplicationAssumption DEF Base, FlowInv, Narrow, NarrowWindow
<1>3. Known(Publisher) = KnownBy(p) /\ Known(Publisher)' = KnownBy(p)
  BY KnownAre
<1>4. ASSUME pc[u] # "select", NEW s \in KnownBy(p)
      PROVE  Served(w, k, p, W, s)
  <2>1. Served(w, h, p, W, s)
    BY <1>3, <1>4 DEF SyncOf
  <2>. HIDE DEF h, k, p, w, W
  <2>2. CASE Grown(h, k)
    BY <1>1, <2>1, <2>2, GrownServed
  <2>3. CASE Trimmed(w, h, k)
    BY <1>1, <1>2, <2>1, <2>3, TrimmedServed
  <2>. QED  BY <2>2, <2>3 DEF h, k, w
<1>. QED  BY <1>3, <1>4 DEF SyncOf, Left

\* No sync runs at first.
LEMMA SyncInit == Init => SyncInv
  BY DEF Init, SyncInv, Current

\* Steps of the publisher, and removals.
LEMMA SyncWorld ==
  ASSUME Base, Base', Narrow, SyncInv,
         PublisherStep \/ \E n \in Replica, g \in Tag : Remove(n, g)
  PROVE  SyncInv'
<1>0. held \in Stores /\ calm \in [Task -> BOOLEAN]
  BY DEF Base, TypeOK, Stores, Records
<1>1. CASE Tick
  BY <1>1 DEF Tick, SyncInv, SyncOf, Current, Known, Held, locals, history
<1>2. CASE Disturb(Task)
  BY <1>0, <1>2, DisturbAre DEF SyncInv, Current
<1>3. ASSUME NEW n \in Replica, NEW g \in Tag, Remove(n, g)
      PROVE  SyncInv'
  <2>. SUFFICES ASSUME NEW u \in Task, Current(u)'
                PROVE  SyncOf(u)'
    BY DEF SyncInv
  <2>1. UNCHANGED <<win, pc, kind, peers, inv, want, got, gtag, seen>>
    BY <1>3 DEF Remove, locals
  <2>2. calm[u] /\ u \notin TasksOf(n)
    BY <1>0, <1>3, DisturbAre DEF Remove, Current
  <2>3. SyncOf(u) /\ Home[u] # n
    BY <2>1, <2>2 DEF SyncInv, Current, TasksOf
  <2>4. \A m \in Node : m # n => held'[m] = held[m]
    <3>1. n \in Node /\ held' = Without(n, {g})
      BY <1>3, Nodes DEF Remove
    <3>. QED  BY <1>0, <3>1, WithoutAre
  <2>5. held'[Publisher] = held[Publisher] /\ held'[Home[u]] = held[Home[u]]
    BY <2>3, <2>4, Nodes, ReplicationAssumption
  <2>6. Grown(held[Home[u]], held'[Home[u]])
    BY <2>5, Nodes DEF Grown, Base, TypeOK, Release
  <2>. QED  BY <2>1, <2>3, <2>5, <2>6, SyncKept DEF Left
<1>. QED  BY <1>1, <1>2, <1>3 DEF PublisherStep, Push, Attach, Delete

\* A task begins.
LEMMA SyncStarts ==
  ASSUME Base, Base', Narrow, SyncInv, NEW t \in Task, Starts(t)
  PROVE  SyncInv'
<1>. SUFFICES ASSUME NEW u \in Task, Current(u)'
              PROVE  SyncOf(u)'
  BY DEF SyncInv
<1>0. calm \in [Task -> BOOLEAN] /\ held \in Stores
  BY DEF Base, TypeOK, Stores, Records
<1>1. CASE u # t
  <2>1. held' = held /\ Left(u)
    <3>. USE <1>1 DEF Left, Begin, Base, TypeOK
    <3>1. ASSUME NEW q, NEW from, Receive(t, q, from)
          PROVE  held' = held /\ Left(u)
      BY <3>1 DEF Receive
    <3>2. ASSUME NEW p, SyncStart(t, p)
          PROVE  held' = held /\ Left(u)
      BY <3>2 DEF SyncStart
    <3>3. ASSUME NEW g, Pull(t, g)
          PROVE  held' = held /\ Left(u)
      BY <3>3 DEF Pull
    <3>4. ASSUME NEW w, SetPolicy(t, w)
          PROVE  held' = held /\ Left(u)
      BY <3>4 DEF SetPolicy
    <3>5. CASE GcRead(t)
      BY <3>5 DEF GcRead
    <3>. QED  BY <3>1, <3>2, <3>3, <3>4, <3>5 DEF Starts
  <2>2. calm[u] /\ win'[Home[u]] = win[Home[u]]
    <3>1. ASSUME NEW w \in Policies, SetPolicy(t, w)
          PROVE  calm[u] /\ win'[Home[u]] = win[Home[u]]
      <4>1. calm[u] /\ u \notin TasksOf(Home[t])
        BY <1>0, <3>1, DisturbAre DEF SetPolicy, Current
      <4>2. Home[u] # Home[t]
        BY <4>1 DEF TasksOf
      <4>. QED  BY <3>1, <4>1, <4>2, Nodes DEF SetPolicy, Base, TypeOK
    <3>2. ASSUME NEW p \in Node, SyncStart(t, p)
          PROVE  calm[u] /\ win'[Home[u]] = win[Home[u]]
      BY <1>0, <1>1, <3>2 DEF SyncStart, Current
    <3>. QED  BY <3>1, <3>2 DEF Starts, Receive, Pull, GcRead, history, Current
  <2>3. SyncOf(u)
    BY <2>1, <2>2 DEF SyncInv, Current, Left
  <2>4. Grown(held[Home[u]], held'[Home[u]])
    BY <2>1, Nodes DEF Grown, Base, TypeOK, Release
  <2>. QED  BY <2>1, <2>2, <2>3, <2>4, SyncKept
<1>2. CASE u = t
  <2>1. PICK p \in Node : SyncStart(t, p)
    BY <1>2 DEF Starts, Receive, Pull, SetPolicy, GcRead, Begin, Current, Base, TypeOK
  <2>2. calm' = [calm EXCEPT ![t] = p = Publisher]
    BY <2>1 DEF SyncStart
  <2>3. p = Publisher
    <3>1. calm'[t] = (p = Publisher)
      BY <1>0, <2>2
    <3>. QED  BY <1>2, <3>1 DEF Current
  <2>4. /\ pc'[t] = "select" /\ peers'[t] = {Publisher} /\ inv'[t] = Known(Publisher)
        /\ held' = held
    BY <2>1, <2>3 DEF SyncStart, Begin, Base, TypeOK
  <2>5. Known(Publisher)' = Known(Publisher)
    BY <2>4 DEF Known, Held
  <2>. QED  BY <1>2, <2>4, <2>5 DEF SyncOf
<1>. QED  BY <1>1, <1>2

\* What a task does to the store of its replica while a sync there is current.
LEMMA StoreOrTrim ==
  ASSUME Base, Base', NEW t \in Task, Continues(t)
  PROVE  /\ win' = win /\ held'[Publisher] = held[Publisher]
         /\ \A u \in Task : calm'[u] => calm[u]
         /\ \A m \in Replica : m # Home[t] => held'[m] = held[m]
         /\ \/ Grown(held[Home[t]], held'[Home[t]])
            \/ Trimmed(win[Home[t]], held[Home[t]], held'[Home[t]])
            \/ (pc[t] \in {"prune", "gc"} /\ seen[t] # win[Home[t]]
                  /\ \A u \in TasksOf(Home[t]) : ~calm'[u])
<1>. DEFINE n == Home[t]
<1>0. /\ n \in Replica /\ n \in Node /\ n # Publisher /\ held \in Stores
      /\ calm \in [Task -> BOOLEAN] /\ Publisher \in Node /\ Replica \subseteq Node
  BY Nodes DEF Base, TypeOK, Stores, Records
<1>1. ASSUME held' = held
      PROVE  Grown(held[n], held'[n])
  BY <1>0, <1>1 DEF Grown, Stores, Records, Release
<1>2. win' = win
  BY DEF Continues, SyncSelect, Get, GetNothing, GetFail, Store, FetchFail, ListImages,
         Enforce, Prune, GcPrune, Leave
<1>3. \A u \in Task : calm'[u] => calm[u]
  <2>1. calm' = calm \/ \E S : Disturb(S)
    BY DEF Continues, SyncSelect, Get, GetNothing, GetFail, Store, FetchFail, ListImages,
           Enforce, Prune, GcPrune, Leave, history
  <2>. QED  BY <1>0, <2>1, DisturbAre
<1>4. CASE Store(t)
  <2>1. gtag[t] \in Tag /\ got[t] \in Release /\ held' = Put(n, gtag[t], got[t])
    BY <1>4 DEF Store, Base, TypeOK, FlowInv
  <2>2. /\ \A m \in Node : m # n => held'[m] = held[m]
        /\ \A x \in Tag : x # gtag[t] => held'[n][x] = held[n][x]
        /\ held'[n][gtag[t]] # None
        /\ held[n][gtag[t]] # None => held'[n][gtag[t]].ts >= held[n][gtag[t]].ts
    <3>. HIDE DEF n
    <3>. QED  BY <1>0, <2>1, PutAre
  <2>3. Grown(held[n], held'[n])
    BY <1>0, <2>1, <2>2 DEF Grown, Stores, Records, Release
  <2>. QED  BY <1>0, <1>2, <1>3, <2>2, <2>3
<1>5. CASE Prune(t) \/ GcPrune(t)
  <2>1. PICK gone : held' = Without(n, gone)
    BY <1>5 DEF Prune, GcPrune
  <2>2. /\ \A m \in Node : m # n => held'[m] = held[m]
        /\ Shrunk(held[n], held'[n])
        /\ \A x \in Tag : held'[n][x] = IF x \in gone THEN None ELSE held[n][x]
    <3>. HIDE DEF n
    <3>. QED  BY <1>0, <2>1, WithoutAre
  <2>3. CASE seen[t] = win[n]
    <3>1. PICK out : /\ held' = Without(n, out)
                     /\ \/ IsEmpty(win[n])
                        \/ \A g \in out : g \notin Select(win[n], KnownBy(held[n]))
      BY <1>5, <2>3, KnownAre DEF Prune, GcPrune
    <3>2. \A x \in Tag : held'[n][x] = IF x \in out THEN None ELSE held[n][x]
      <4>. HIDE DEF n
      <4>. QED  BY <1>0, <3>1, WithoutAre
    <3>3. Trimmed(win[n], held[n], held'[n])
      BY <2>2, <3>1, <3>2 DEF Trimmed
    <3>. QED  BY <1>0, <1>2, <1>3, <2>2, <3>3
  <2>4. CASE seen[t] # win[n]
    <3>1. Disturb(TasksOf(n)) /\ pc[t] \in {"prune", "gc"}
      BY <1>5, <2>4 DEF Prune, GcPrune
    <3>2. \A u \in TasksOf(n) : ~calm'[u]
      BY <1>0, <3>1, DisturbAre DEF TasksOf
    <3>. QED  BY <1>0, <1>2, <1>3, <2>2, <2>4, <3>1, <3>2
  <2>. QED  BY <2>3, <2>4
<1>6. CASE held' = held
  BY <1>1, <1>2, <1>3, <1>6
<1>. QED
  BY <1>4, <1>5, <1>6
  DEF Continues, SyncSelect, Get, GetNothing, GetFail, FetchFail, ListImages, Enforce,
      Leave

\* The other tasks take no step while t goes on.
LEMMA OthersLeft ==
  ASSUME Base, NEW t \in Task, Continues(t), NEW u \in Task, u # t
  PROVE  Left(u)
<1>. USE DEF Left
<1>1. CASE Done(t)
  BY <1>1, DoneAre DEF Base
<1>2. CASE NextTag(t) /\ (GetNothing(t) \/ Store(t) \/ FetchFail(t)) /\ ~Done(t)
  BY <1>2, NextTagAre DEF GetNothing, Store, FetchFail, locals, Base, TypeOK
<1>3. CASE ~NextTag(t) /\ ~Done(t)
  BY <1>3
  DEF Continues, SyncSelect, Get, GetNothing, GetFail, Store, FetchFail, ListImages,
      Enforce, Prune, GcPrune, Leave, locals, Base, TypeOK
<1>4. CASE NextTag(t) /\ ~(GetNothing(t) \/ Store(t) \/ FetchFail(t)) /\ ~Done(t)
  BY <1>4
  DEF Continues, SyncSelect, Get, GetFail, ListImages, Enforce, Prune, GcPrune, Leave,
      locals, Base, TypeOK
<1>. QED  BY <1>1, <1>2, <1>3, <1>4

\* The step of a current sync itself.
LEMMA SyncOwn ==
  ASSUME Base, Base', Narrow, NEW t \in Task, SyncOf(t), Current(t), Continues(t), Current(t)'
  PROVE  SyncOf(t)'
<1>. DEFINE n == Home[t]
            h == held[n]
            k == held'[n]
            p == held[Publisher]
            w == win[n]
<1>0. /\ h \in Records /\ k \in Records /\ p \in Records /\ NarrowWindow(w)
      /\ held \in Stores /\ n \in Node /\ calm \in [Task -> BOOLEAN]
  BY Nodes, ReplicationAssumption
  DEF Base, TypeOK, FlowInv, Stores, Records, Narrow, NarrowWindow
<1>1. win' = win /\ held'[Publisher] = p /\ ~Done(t) /\ kind[t] = "sync"
  <2>1. ~Done(t)
    BY DoneAre DEF Base, Current
  <2>. QED  BY <2>1, StoreOrTrim DEF Current
<1>2. Known(Publisher) = KnownBy(p) /\ Known(Publisher)' = KnownBy(p)
  BY <1>1, KnownAre
<1>3. CASE SyncSelect(t)
  <2>1. /\ pc[t] = "select" /\ held' = held /\ pc'[t] = "get"
        /\ want'[t] = Wanted(n, inv[t]) /\ peers'[t] = peers[t]
    BY <1>1, <1>3 DEF SyncSelect, Base, TypeOK
  <2>2. inv[t] = KnownBy(p)
    BY <1>2, <2>1 DEF SyncOf
  <2>3. want'[t] = WantedOf(w, h, p)
    BY <2>1, <2>2, KnownAre DEF Wanted, WantedOf
  <2>4. ASSUME NEW s \in KnownBy(p)
        PROVE  Served(w, h, p, WantedOf(w, h, p), s)
    <3>. HIDE DEF w, h, p
    <3>. QED  BY <1>0, <2>4, SelectServes DEF Served
  <2>. QED  BY <1>1, <1>2, <2>1, <2>3, <2>4 DEF SyncOf
<1>4. ASSUME pc[t] # "select"
      PROVE  \A s \in KnownBy(p) : Served(w, h, p, want[t], s)
  BY <1>2, <1>4 DEF SyncOf
<1>5. CASE Get(t)
  <2>1. PICK g \in want[t], q \in peers[t] :
          /\ got' = [got EXCEPT ![t] = held[q][g]]
          /\ gtag' = [gtag EXCEPT ![t] = g]
    BY <1>5 DEF Get
  <2>2. /\ pc[t] = "get" /\ pc'[t] = "store" /\ held' = held /\ want' = want /\ peers' = peers
    BY <1>5 DEF Get, Base, TypeOK
  <2>3. got'[t] = held[Publisher][gtag'[t]]
    BY <2>1 DEF SyncOf, Base, TypeOK
  <2>. QED  BY <1>1, <1>2, <1>4, <2>2, <2>3 DEF SyncOf
<1>6. ASSUME NextTag(t), peers' = peers, Grown(h, k), gtag'[t] \in Tag, pc[t] # "select",
             p[gtag'[t]] # None => k[gtag'[t]] # None /\ k[gtag'[t]].ts >= p[gtag'[t]].ts
      PROVE  SyncOf(t)'
  <2>1. /\ want'[t] = want[t] \ {gtag'[t]} /\ pc'[t] \in {"enforce", "get"}
        /\ pc'[t] = "enforce" <=> want'[t] = {}
    BY <1>6, NextTagAre
  <2>2. want'[t] \in SUBSET want[t] /\ want[t] \ want'[t] \subseteq {gtag'[t]}
    BY <2>1
  <2>3. ASSUME NEW s \in KnownBy(p)
        PROVE  Served(w, k, p, want'[t], s)
    <3>. HIDE DEF w, h, k, p
    <3>1. Served(w, h, p, want[t], s)
      BY <1>4, <1>6
    <3>2. \A g \in Tag : g \in want[t] \ want'[t] /\ p[g] # None
                           => k[g] # None /\ k[g].ts >= p[g].ts
      BY <1>6, <2>2
    <3>. QED  BY <1>0, <1>6, <2>2, <3>1, <3>2, GrownServed
  <2>. QED  BY <1>1, <1>2, <1>6, <2>1, <2>3 DEF SyncOf
<1>7. CASE GetNothing(t)
  <2>1. PICK g \in want[t] :
          /\ \A q \in peers[t] : held[q][g] = None
          /\ gtag' = [gtag EXCEPT ![t] = g] /\ NextTag(t)
    BY <1>1, <1>7 DEF GetNothing
  <2>2. peers' = peers /\ held' = held /\ pc[t] = "get"
    BY <1>1, <1>7 DEF GetNothing
  <2>3. gtag'[t] = g /\ p[g] = None /\ g \in Tag
    BY <2>1 DEF SyncOf, Base, TypeOK
  <2>4. Grown(h, k)
    BY <1>0, <2>2 DEF Grown, Records, Release
  <2>. QED  BY <1>6, <2>1, <2>2, <2>3, <2>4
<1>8. CASE Store(t)
  <2>1. pc[t] = "store" /\ gtag[t] \in Tag /\ got[t] \in Release /\ got[t] = p[gtag[t]]
    BY <1>8 DEF Store, Base, TypeOK, FlowInv, SyncOf
  <2>2. NextTag(t) /\ gtag' = gtag /\ peers' = peers /\ held' = Put(n, gtag[t], got[t])
    BY <1>1, <1>8 DEF Store
  <2>3. /\ \A x \in Tag : x # gtag[t] => k[x] = h[x]
        /\ k[gtag[t]] # None /\ k[gtag[t]].ts >= p[gtag[t]].ts
        /\ h[gtag[t]] # None => k[gtag[t]].ts >= h[gtag[t]].ts
    BY <1>0, <2>1, <2>2, PutAre
  <2>4. Grown(h, k)
    BY <1>0, <2>1, <2>3 DEF Grown, Records, Release
  <2>. QED  BY <1>6, <2>1, <2>2, <2>3, <2>4
<1>9. CASE Enforce(t)
  <2>1. /\ pc[t] = "enforce" /\ pc'[t] = "prune" /\ seen'[t] = w /\ held' = held
        /\ want' = want /\ peers' = peers
    BY <1>1, <1>9 DEF Enforce, Base, TypeOK
  <2>. QED  BY <1>1, <1>2, <1>4, <2>1 DEF SyncOf
<1>10. ~FetchFail(t)
  BY <1>0, DisturbAre DEF FetchFail, Current
<1>11. ~ListImages(t)
  BY DEF ListImages, SyncOf
<1>. QED
  BY <1>1, <1>3, <1>5, <1>7, <1>8, <1>9, <1>10, <1>11
  DEF Continues, GetFail, Prune, GcPrune, Leave

\* A task goes on.
LEMMA SyncContinues ==
  ASSUME Base, Base', Narrow, SyncInv, NEW t \in Task, Continues(t)
  PROVE  SyncInv'
<1>. SUFFICES ASSUME NEW u \in Task, Current(u)'
              PROVE  SyncOf(u)'
  BY DEF SyncInv
<1>1. CASE u # t
  <2>1. Left(u)
    BY <1>1, OthersLeft
  <2>2. calm[u] /\ win' = win /\ held'[Publisher] = held[Publisher]
    BY StoreOrTrim DEF Current
  <2>3. SyncOf(u)
    BY <2>1, <2>2 DEF SyncInv, Current, Left
  <2>4. \/ Grown(held[Home[u]], held'[Home[u]])
        \/ Trimmed(win[Home[u]], held[Home[u]], held'[Home[u]])
    <3>1. CASE Home[u] = Home[t]
      BY <3>1, StoreOrTrim DEF TasksOf, Current
    <3>2. CASE Home[u] # Home[t]
      <4>1. held'[Home[u]] = held[Home[u]]
        BY <3>2, StoreOrTrim, Nodes
      <4>. QED  BY <4>1, Nodes DEF Grown, Base, TypeOK, Release
    <3>. QED  BY <3>1, <3>2
  <2>. QED  BY <2>1, <2>2, <2>3, <2>4, SyncKept
<1>2. CASE u = t
  <2>1. Current(t)
    <3>1. calm[t]
      BY <1>2, StoreOrTrim DEF Current
    <3>2. ~Done(t)
      BY <1>2, DoneAre DEF Base, Current
    <3>3. kind' = kind
      BY <3>2
      DEF Continues, SyncSelect, Get, GetNothing, GetFail, Store, FetchFail, ListImages,
          Enforce, Prune, GcPrune, Leave, locals
    <3>4. pc[t] # "idle"
      BY DEF Continues, SyncSelect, Get, GetNothing, GetFail, Store, FetchFail, ListImages,
             Enforce, Prune, GcPrune, Leave
    <3>. QED  BY <1>2, <3>1, <3>3, <3>4 DEF Current
  <2>. QED  BY <1>2, <2>1, SyncOwn DEF SyncInv
<1>. QED  BY <1>1, <1>2

\* A restart ends the syncs of its replica.
LEMMA SyncRestart ==
  ASSUME Base, Base', Narrow, SyncInv, NEW n \in Replica, NEW w \in Policies, Restart(n, w)
  PROVE  SyncInv'
<1>. SUFFICES ASSUME NEW u \in Task, Current(u)'
              PROVE  SyncOf(u)'
  BY DEF SyncInv
<1>1. Home[u] # n /\ Left(u) /\ calm[u] /\ held' = held
  BY RestartAre DEF Current
<1>2. win'[Home[u]] = win[Home[u]]
  BY <1>1, RestartAre, Nodes
<1>3. SyncOf(u)
  BY <1>1 DEF SyncInv, Current, Left
<1>4. Grown(held[Home[u]], held'[Home[u]])
  BY <1>1, Nodes DEF Grown, Base, TypeOK, Release
<1>. QED  BY <1>1, <1>2, <1>3, <1>4, SyncKept

\* Every step keeps the syncs current.
LEMMA SyncStep ==
  ASSUME Narrow
  PROVE  Base /\ SyncInv /\ [Next]_vars => SyncInv'
<1>. SUFFICES ASSUME Base, SyncInv, [Next]_vars
              PROVE  SyncInv'
  OBVIOUS
<1>1. Base'
  BY BaseStep
<1>2. CASE UNCHANGED vars
  BY <1>2 DEF vars, world, locals, history, SyncInv, SyncOf, Current, Known, Held
<1>. QED  BY <1>1, <1>2, SyncWorld, SyncStarts, SyncContinues, SyncRestart DEF Next

\* A sync that ends has caught up.
LEMMA SyncEnds ==
  ASSUME Base, Base', Narrow, SyncInv, [Next]_vars, NEW t \in Task,
         kind[t] = "sync", calm'[t], pc[t] \in {"select", "enforce", "prune"},
         pc'[t] = "idle"
  PROVE  CaughtUp(Home[t])'
<1>. DEFINE n == Home[t]
            h == held[n]
            k == held'[n]
            p == held[Publisher]
            w == win[n]
<1>0. /\ h \in Records /\ k \in Records /\ p \in Records /\ NarrowWindow(w)
      /\ held \in Stores /\ n \in Node
  BY Nodes, ReplicationAssumption
  DEF Base, TypeOK, FlowInv, Stores, Records, Narrow, NarrowWindow
<1>2. Continues(t)
  <2>1. CASE UNCHANGED vars
    BY <2>1 DEF vars
  <2>2. CASE PublisherStep \/ \E m \in Replica, g \in Tag : Remove(m, g)
    BY <2>2 DEF PublisherStep, Tick, Push, Attach, Delete, Remove
  <2>3. ASSUME NEW u \in Task, Starts(u)
        PROVE  FALSE
    <3>1. pc[u] = "idle" /\ \E step \in Step : pc' = [pc EXCEPT ![u] = step]
      BY <2>3 DEF Starts, Receive, SyncStart, Pull, SetPolicy, GcRead, Begin, Step
    <3>. QED  BY <3>1 DEF Base, TypeOK
  <2>4. ASSUME NEW u \in Task, u # t, Continues(u)
        PROVE  FALSE
    BY <2>4, OthersLeft DEF Left
  <2>5. ASSUME NEW m \in Replica, NEW q \in Policies, Restart(m, q)
        PROVE  FALSE
    BY <2>5, RestartAre DEF Left
  <2>. QED  BY <2>1, <2>2, <2>3, <2>4, <2>5 DEF Next
<1>1. SyncOf(t)
  BY <1>2, StoreOrTrim DEF SyncInv, Current
<1>3. win' = win /\ held'[Publisher] = p
  BY <1>2, StoreOrTrim
<1>4. Known(Publisher) = KnownBy(p) /\ Known(Publisher)' = KnownBy(p)
  BY <1>3, KnownAre
<1>5. SyncSelect(t) \/ Enforce(t) \/ Prune(t)
  <2>1. ~Leave(t)
    BY DisturbAre DEF Leave, Base, TypeOK
  <2>. QED
    BY <1>2, <2>1
    DEF Continues, Get, GetNothing, GetFail, Store, FetchFail, ListImages, GcPrune
<1>6. ASSUME NEW s \in KnownBy(p)
      PROVE  Served(w, k, p, {}, s)
  <2>1. CASE SyncSelect(t)
    <3>1. held' = held /\ pc[t] = "select" /\ inv[t] = KnownBy(p)
      BY <1>1, <1>4, <2>1 DEF SyncSelect, SyncOf
    <3>2. Wanted(n, inv[t]) = {}
      BY <2>1 DEF SyncSelect, Base, TypeOK
    <3>3. WantedOf(w, h, p) = {}
      BY <3>1, <3>2, KnownAre DEF Wanted, WantedOf
    <3>4. Served(w, h, p, WantedOf(w, h, p), s)
      <4>. HIDE DEF w, h, p
      <4>. QED  BY <1>0, <1>6, SelectServes DEF Served
    <3>. QED  BY <3>1, <3>3, <3>4
  <2>2. CASE Enforce(t)
    BY <1>1, <1>4, <1>6, <2>2 DEF Enforce, SyncOf
  <2>3. CASE Prune(t)
    <3>1. Served(w, h, p, {}, s) /\ seen[t] = w
      BY <1>1, <1>4, <1>6, <2>3 DEF Prune, SyncOf
    <3>2. PICK out : /\ held' = Without(n, out)
                     /\ \A g \in out : g \notin Select(w, KnownBy(h))
      BY <2>3, <3>1, KnownAre DEF Prune
    <3>3. /\ Shrunk(h, k)
          /\ \A x \in Tag : k[x] = IF x \in out THEN None ELSE h[x]
      BY <1>0, <3>2, WithoutAre
    <3>4. Trimmed(w, h, k)
      BY <3>2, <3>3 DEF Trimmed
    <3>. HIDE DEF w, h, k, p
    <3>. QED  BY <1>0, <1>6, <3>1, <3>4, TrimmedServed
  <2>. QED  BY <1>5, <2>1, <2>2, <2>3
<1>7. ASSUME NEW s \in KnownBy(p)
      PROVE  HasIn(k, s) \/ s.tag \notin InWindow(w, KnownBy(k) \cup {s})
  <2>1. s \in Summary
    BY <1>0, KnownType
  <2>2. HasIn(k, s) \/ Crowded(w, KnownBy(k), s)
    <3>1. KnownBy(k) \cup {q \in KnownBy(p) : q.tag \in {}} = KnownBy(k)
      OBVIOUS
    <3>. QED  BY <1>6, <3>1 DEF Served
  <2>. HIDE DEF w, k
  <2>. QED  BY <1>0, <2>1, <2>2, CrowdedOut
<1>. QED  BY <1>3, <1>4, <1>7, KnownAre DEF CaughtUp, HasIn

\* "This catches up after downtime", for any number of tasks: when a sync with
\* the publisher ends, and neither the publisher nor the policy changed since it
\* began, the replica misses nothing that its window has a place for.  The
\* policies are full or at most two wide, where select is exact.
THEOREM SyncAlwaysCatchesUp ==
  ASSUME Narrow
  PROVE  Spec => SyncCatchesUp
<1>1. ASSUME Base, SyncInv, [Next]_vars
      PROVE  [\A t \in Task :
                /\ kind[t] = "sync" /\ calm'[t]
                /\ pc[t] \in {"select", "enforce", "prune"} /\ pc'[t] = "idle"
                => CaughtUp(Home[t])']_vars
  BY <1>1, BaseStep, SyncEnds
<1>. QED
  BY <1>1, BaseInit, BaseStep, SyncInit, SyncStep, PTL DEF Spec, SyncCatchesUp

=============================================================================
