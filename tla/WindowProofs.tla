---------------------------- MODULE WindowProofs ----------------------------
(***************************************************************************)
(* What Window::select takes of any finite set of pairs: the lemmas that   *)
(* the proofs about Retention and Replication share.  No induction over    *)
(* the pairs is needed: a finite set has a newest element because its      *)
(* subsets are well-founded, and sizes are compared by injections.         *)
(***************************************************************************)
EXTENDS Window, FiniteSetTheorems, TLAPS

AnyPair == [tag : Nat, ts : Nat]

\* A finite set of pairs, as a store and an inventory are.
Pairs(S) == S \subseteq AnyPair /\ IsFiniteSet(S)

\* Newer is a strict order of the pairs, in which any two are comparable.
LEMMA NewerOrder ==
  /\ \A p \in AnyPair : ~Newer(p, p)
  /\ \A p, q, r \in AnyPair : Newer(p, q) /\ Newer(q, r) => Newer(p, r)
  /\ \A p, q \in AnyPair : p = q \/ Newer(p, q) \/ Newer(q, p)
<1>1. \A p \in AnyPair : ~Newer(p, p)
  BY DEF AnyPair, Newer
<1>2. \A p, q, r \in AnyPair : Newer(p, q) /\ Newer(q, r) => Newer(p, r)
  BY DEF AnyPair, Newer
<1>3. ASSUME NEW p \in AnyPair, NEW q \in AnyPair, ~Newer(p, q), ~Newer(q, p)
      PROVE  p = q
  <2>1. p.ts = q.ts /\ p.tag = q.tag
    BY <1>3 DEF AnyPair, Newer
  <2>. QED  BY <2>1 DEF AnyPair
<1>. QED  BY <1>1, <1>2, <1>3

\* A finite set with an order R, a set of pairs, has a minimal element.
LEMMA Minimal ==
  ASSUME NEW S, IsFiniteSet(S), S # {}, NEW R,
         \A p \in S : <<p, p>> \notin R,
         \A p, q, r \in S : <<p, q>> \in R /\ <<q, r>> \in R => <<p, r>> \in R
  PROVE  \E m \in S : \A q \in S : <<q, m>> \notin R
<1>. DEFINE Below(p) == {q \in S : <<q, p>> \in R}
            T == {B \in SUBSET S : \E p \in S : B = Below(p)}
<1>1. T \subseteq FiniteSubsetsOf(S)
  <2>1. \A p \in S : Below(p) \in SUBSET S /\ IsFiniteSet(Below(p))
    BY FS_Subset
  <2>. QED  BY <2>1 DEF FiniteSubsetsOf
<1>2. T # {}
  <2>1. PICK p : p \in S
    OBVIOUS
  <2>2. Below(p) \in T
    BY <2>1
  <2>. QED  BY <2>2
<1>3. PICK B \in T : \A C \in T : <<C, B>> \notin StrictSubsetOrdering(S)
  <2>. HIDE DEF T
  <2>. QED  BY <1>1, <1>2, FS_StrictSubsetOrderingWellFounded, WFMin
<1>4. PICK m \in S : B = Below(m)
  BY <1>3
<1>5. ASSUME NEW q \in S, <<q, m>> \in R
      PROVE  FALSE
  <2>1. Below(q) \subseteq B /\ q \in B /\ q \notin Below(q)
    BY <1>4, <1>5
  <2>2. <<Below(q), B>> \in (SUBSET S) \X (SUBSET S) /\ Below(q) \in T
    BY <1>3
  <2>3. <<Below(q), B>> \in StrictSubsetOrdering(S)
    BY <2>1, <2>2 DEF StrictSubsetOrdering
  <2>. QED  BY <1>3, <2>2, <2>3
<1>. QED  BY <1>5

\* The modes of the rules for an image combine to the widest of them.
LEMMA Widest ==
  ASSUME NEW modes \in SUBSET Nat, IsFiniteSet(modes), NEW tags
  PROVE  LET w == WindowOf(modes, tags)
         IN  /\ w.full \in BOOLEAN /\ (w.full <=> Full \in modes)
             /\ w.last \in Nat /\ w.tags = tags
             /\ \A m \in modes : w.last >= m
<1>. DEFINE M == modes \cup {0}
            R == {ss \in M \X M : ss[1] > ss[2]}
            w == WindowOf(modes, tags)
<1>1. M \subseteq Nat /\ M # {} /\ IsFiniteSet(M)
  BY FS_AddElement
<1>2. \A p, q \in M : <<p, q>> \in R <=> p > q
  OBVIOUS
<1>3. /\ \A p \in M : <<p, p>> \notin R
      /\ \A p, q, r \in M : <<p, q>> \in R /\ <<q, r>> \in R => <<p, r>> \in R
  BY <1>1, <1>2
<1>4. \E m \in M : \A q \in M : <<q, m>> \notin R
  <2>. HIDE DEF M, R
  <2>. QED  BY <1>1, <1>3, Minimal
<1>5. \E n \in M : \A m \in modes : n >= m
  <2>1. PICK n \in M : \A m \in M : <<m, n>> \notin R
    BY <1>4
  <2>2. \A m \in M : ~(m > n)
    BY <1>2, <2>1
  <2>3. \A m \in modes : n >= m
    BY <1>1, <2>2
  <2>. QED  BY <2>3
<1>6. w.last = CHOOSE n \in M : \A m \in modes : n >= m
  BY DEF WindowOf
<1>7. w.last \in M /\ \A m \in modes : w.last >= m
  <2>. HIDE DEF M, w
  <2>. QED  BY <1>5, <1>6
<1>8. w.full \in BOOLEAN /\ (w.full <=> Full \in modes) /\ w.tags = tags
  <2>1. w.full = (Full \in modes) /\ w.tags = tags
    BY DEF WindowOf
  <2>. HIDE DEF w
  <2>2. w.full \in BOOLEAN
    BY <2>1
  <2>3. w.full <=> Full \in modes
    BY <2>1, Zenon
  <2>. QED  BY <2>1, <2>2, <2>3
<1>. QED  BY <1>1, <1>7, <1>8

\* The newest pair of a set.
LEMMA Newest ==
  ASSUME NEW S, Pairs(S), S # {}
  PROVE  \E m \in S : \A q \in S : ~Newer(q, m)
<1>. DEFINE R == {ss \in S \X S : Newer(ss[1], ss[2])}
<1>1. \A p, q \in S : <<p, q>> \in R <=> Newer(p, q)
  OBVIOUS
<1>2. /\ \A p \in S : <<p, p>> \notin R
      /\ \A p, q, r \in S : <<p, q>> \in R /\ <<q, r>> \in R => <<p, r>> \in R
  BY <1>1, NewerOrder DEF Pairs
<1>. HIDE DEF R
<1>3. \E m \in S : \A q \in S : <<q, m>> \notin R
  BY <1>2, Minimal DEF Pairs
<1>. QED  BY <1>1, <1>3

\* The oldest pair of a set.
LEMMA Oldest ==
  ASSUME NEW S, Pairs(S), S # {}
  PROVE  \E m \in S : \A q \in S : ~Newer(m, q)
<1>. DEFINE R == {ss \in S \X S : Newer(ss[2], ss[1])}
<1>1. \A p, q \in S : <<p, q>> \in R <=> Newer(q, p)
  OBVIOUS
<1>2. /\ \A p \in S : <<p, p>> \notin R
      /\ \A p, q, r \in S : <<p, q>> \in R /\ <<q, r>> \in R => <<p, r>> \in R
  BY <1>1, NewerOrder DEF Pairs
<1>. HIDE DEF R
<1>3. \E m \in S : \A q \in S : <<q, m>> \notin R
  BY <1>2, Minimal DEF Pairs
<1>. QED  BY <1>1, <1>3

\* Every tag has a newest pair.
LEMMA LatestOf ==
  ASSUME NEW S, Pairs(S), NEW p \in S
  PROVE  \E m \in Latest(S) : m.tag = p.tag /\ (m = p \/ Newer(m, p))
<1>. DEFINE T == {q \in S : q.tag = p.tag}
<1>1. Pairs(T) /\ T # {}
  BY FS_Subset DEF Pairs
<1>. HIDE DEF T
<1>2. PICK m \in T : \A q \in T : ~Newer(q, m)
  BY <1>1, Newest
<1>. QED  BY <1>2, NewerOrder DEF T, Latest, Pairs

\* A pair that is not the newest has another right before it.
LEMMA Predecessor ==
  ASSUME NEW S, Pairs(S), NEW p \in S, NEW q \in S, Newer(q, p)
  PROVE  \E r \in S : Newer(r, p) /\ \A x \in S : ~(Newer(r, x) /\ Newer(x, p))
<1>. DEFINE T == {x \in S : Newer(x, p)}
<1>1. Pairs(T) /\ T # {}
  BY FS_Subset DEF Pairs
<1>. HIDE DEF T
<1>2. PICK r \in T : \A x \in T : ~Newer(r, x)
  BY <1>1, Oldest
<1>. QED  BY <1>2 DEF T

\* A newest pair is not dropped, and a tag has one.
LEMMA LatestKept ==
  ASSUME NEW S, Pairs(S)
  PROVE  Latest(S) \subseteq Deduped(S) /\ Single(Latest(S)) /\ Deduped(S) \subseteq S
<1>1. Latest(S) \subseteq Deduped(S) /\ Deduped(S) \subseteq S
  BY DEF Latest, Deduped
<1>2. Single(Latest(S))
  BY NewerOrder DEF Single, Latest, Pairs
<1>. QED  BY <1>1, <1>2

\* The pairs that stay are finite in number too.
LEMMA KnownParts ==
  ASSUME NEW S, Pairs(S)
  PROVE  Pairs(Latest(S)) /\ Pairs(Deduped(S))
<1>1. Latest(S) \in SUBSET S /\ Deduped(S) \in SUBSET S
  BY DEF Latest, Deduped
<1>. QED  BY <1>1, FS_Subset DEF Pairs

\* Nothing is taken by a window without a width.
LEMMA TakeNone ==
  ASSUME NEW D, Pairs(D)
  PROVE  Take(0, D) = {}
<1>1. \A p \in D : Cardinality({q \in D : Newer(q, p)}) \in Nat
  BY FS_Subset, FS_CardinalityType DEF Pairs
<1>. QED  BY <1>1 DEF Take

\* The first of the sorted pairs.
LEMMA TakeOne ==
  ASSUME NEW D, Pairs(D)
  PROVE  Take(1, D) = {p \in D : \A q \in D : ~Newer(q, p)}
<1>1. ASSUME NEW p \in D
      PROVE  LET N == {q \in D : Newer(q, p)} IN Cardinality(N) < 1 <=> N = {}
  <2>. DEFINE N == {q \in D : Newer(q, p)}
  <2>1. IsFiniteSet(N)
    BY FS_Subset DEF Pairs
  <2>. HIDE DEF N
  <2>2. Cardinality(N) \in Nat /\ (Cardinality(N) = 0 <=> N = {})
    BY <2>1, FS_CardinalityType, FS_EmptySet
  <2>3. Cardinality(N) < 1 <=> N = {}
    BY <2>2
  <2>. QED  BY <2>3 DEF N
<1>. QED  BY <1>1 DEF Take

\* The first two of the sorted pairs.
LEMMA TakeTwo ==
  ASSUME NEW D, Pairs(D)
  PROVE  Take(2, D) = {p \in D : \A q, r \in D : Newer(q, p) /\ Newer(r, p) => q = r}
<1>1. ASSUME NEW p \in D
      PROVE  LET N == {q \in D : Newer(q, p)}
             IN  Cardinality(N) < 2 <=> \A q, r \in N : q = r
  <2>. DEFINE N == {q \in D : Newer(q, p)}
  <2>1. IsFiniteSet(N)
    BY FS_Subset DEF Pairs
  <2>. HIDE DEF N
  <2>2. Cardinality(N) \in Nat
    BY <2>1, FS_CardinalityType
  <2>3. ASSUME NEW q \in N, NEW r \in N, q # r
        PROVE  ~(Cardinality(N) < 2)
    <3>1. IsFiniteSet({q}) /\ Cardinality({q}) = 1
      BY FS_Singleton
    <3>a. Cardinality({q} \cup {r}) =
            IF r \in {q} THEN Cardinality({q}) ELSE Cardinality({q}) + 1
      BY <3>1, FS_AddElement
    <3>b. r \notin {q}
      BY <2>3
    <3>2. Cardinality({q} \cup {r}) = 2
      BY <3>1, <3>a, <3>b
    <3>3. {q} \cup {r} \in SUBSET N
      OBVIOUS
    <3>4. Cardinality({q} \cup {r}) <= Cardinality(N)
      BY <2>1, <3>3, FS_Subset
    <3>. QED  BY <2>2, <3>2, <3>4
  <2>4. ASSUME \A q, r \in N : q = r
        PROVE  Cardinality(N) < 2
    <3>1. CASE N = {}
      BY <3>1, FS_EmptySet
    <3>2. CASE N # {}
      <4>1. PICK q \in N : N = {q}
        BY <2>4, <3>2
      <4>. QED  BY <4>1, FS_Singleton
    <3>. QED  BY <3>1, <3>2
  <2>5. Cardinality(N) < 2 <=> \A q, r \in N : q = r
    BY <2>3, <2>4
  <2>. QED  BY <2>5 DEF N
<1>. QED  BY <1>1 DEF Take

\* p is the newest pair of all, or the newest of its tag with one tag before it.
First(S, p) == \A q \in S : ~Newer(q, p)
Second(S, p) ==
  /\ \A q \in S : Newer(q, p) => q.tag # p.tag
  /\ \A q, r \in S : Newer(q, p) /\ Newer(r, p) => q.tag = r.tag

\* The first pair of the list is the newest, with dedup_by or by definition.
LEMMA TopOne ==
  ASSUME NEW S, Pairs(S)
  PROVE  /\ Take(1, Latest(S)) = {p \in S : First(S, p)}
         /\ Take(1, Deduped(S)) = {p \in S : First(S, p)}
<1>1. ASSUME NEW D, Pairs(D), Latest(S) \subseteq D, D \subseteq S
      PROVE  Take(1, D) = {p \in S : First(S, p)}
  <2>1. ASSUME NEW p \in D, \A q \in D : ~Newer(q, p)
        PROVE  First(S, p)
    <3>1. ASSUME NEW q \in S, Newer(q, p)
          PROVE  FALSE
      <4>1. PICK m \in Latest(S) : m = q \/ Newer(m, q)
        BY LatestOf
      <4>. QED  BY <1>1, <2>1, <3>1, <4>1, NewerOrder DEF Pairs
    <3>. QED  BY <3>1 DEF First
  <2>2. ASSUME NEW p \in S, First(S, p)
        PROVE  p \in D /\ \A q \in D : ~Newer(q, p)
    BY <1>1, <2>2 DEF First, Latest
  <2>. QED  BY <1>1, <2>1, <2>2, TakeOne
<1>. QED  BY <1>1, KnownParts, LatestKept

\* The first two pairs of the list have the two newest tags: between the newest
\* pair and the first one of another tag dedup_by drops everything.
LEMMA TopTwo ==
  ASSUME NEW S, Pairs(S)
  PROVE  /\ Take(2, Latest(S)) = {p \in S : Second(S, p)}
         /\ Take(2, Deduped(S)) = {p \in S : Second(S, p)}
<1>1. ASSUME NEW p \in Latest(S)
      PROVE  (\A q, r \in Latest(S) : Newer(q, p) /\ Newer(r, p) => q = r) <=> Second(S, p)
  <2>1. ASSUME \A q, r \in Latest(S) : Newer(q, p) /\ Newer(r, p) => q = r,
               NEW q \in S, NEW r \in S, Newer(q, p), Newer(r, p)
        PROVE  q.tag = r.tag
    <3>1. PICK m \in Latest(S) : m.tag = q.tag /\ (m = q \/ Newer(m, q))
      BY LatestOf
    <3>2. PICK n \in Latest(S) : n.tag = r.tag /\ (n = r \/ Newer(n, r))
      BY LatestOf
    <3>3. Newer(m, p) /\ Newer(n, p)
      BY <2>1, <3>1, <3>2, NewerOrder DEF Pairs, Latest
    <3>. QED  BY <2>1, <3>1, <3>2, <3>3
  <2>2. \A q \in S : Newer(q, p) => q.tag # p.tag
    BY DEF Latest
  <2>3. ASSUME Second(S, p), NEW q \in Latest(S), NEW r \in Latest(S), Newer(q, p),
               Newer(r, p)
        PROVE  q = r
    <3>1. q.tag = r.tag
      BY <2>3 DEF Second, Latest
    <3>. QED  BY <3>1, LatestKept DEF Single
  <2>. QED  BY <2>1, <2>2, <2>3 DEF Second
<1>2. \A p \in S : Second(S, p) => p \in Latest(S)
  BY DEF Second, Latest
<1>3. Latest(S) \subseteq S /\ Latest(S) \subseteq Deduped(S) /\ Deduped(S) \subseteq S
  BY LatestKept DEF Latest
<1>4. Take(2, Latest(S)) = {p \in S : Second(S, p)}
  BY <1>1, <1>2, <1>3, KnownParts, TakeTwo
<1>5. ASSUME NEW p \in Deduped(S),
             \A q, r \in Deduped(S) : Newer(q, p) /\ Newer(r, p) => q = r
      PROVE  Second(S, p)
  <2>1. PICK m \in Latest(S) : m.tag = p.tag /\ (m = p \/ Newer(m, p))
    BY <1>3, LatestOf
  <2>2. CASE m = p
    BY <1>1, <1>3, <1>5, <2>2
  <2>3. CASE Newer(m, p)
    <3>1. PICK r \in S : Newer(r, p) /\ \A x \in S : ~(Newer(r, x) /\ Newer(x, p))
      BY <1>3, <2>3, Predecessor
    <3>2. r.tag # p.tag
      BY <1>3, <3>1 DEF Deduped
    <3>3. PICK n \in Latest(S) : n.tag = r.tag /\ (n = r \/ Newer(n, r))
      BY LatestOf
    <3>4. Newer(n, p)
      BY <1>3, <3>1, <3>3, NewerOrder DEF Pairs
    <3>. QED  BY <1>3, <1>5, <2>1, <2>3, <3>2, <3>3, <3>4
  <2>. QED  BY <2>1, <2>2, <2>3
<1>6. ASSUME NEW p \in S, Second(S, p), NEW q \in Deduped(S), NEW r \in Deduped(S),
             Newer(q, p), Newer(r, p), Newer(q, r)
      PROVE  FALSE
  <2>1. PICK x \in S : Newer(x, r) /\ \A y \in S : ~(Newer(x, y) /\ Newer(y, r))
    BY <1>3, <1>6, Predecessor
  <2>2. Newer(x, p)
    BY <1>3, <1>6, <2>1, NewerOrder DEF Pairs
  <2>3. x.tag = r.tag
    BY <1>3, <1>6, <2>2 DEF Second
  <2>. QED  BY <2>1, <2>3 DEF Deduped
<1>7. ASSUME NEW p \in S, Second(S, p), NEW q \in Deduped(S), NEW r \in Deduped(S),
             Newer(q, p), Newer(r, p)
      PROVE  q = r
  BY <1>3, <1>6, <1>7, NewerOrder DEF Pairs
<1>8. Take(2, Deduped(S)) = {p \in S : Second(S, p)}
  BY <1>2, <1>3, <1>5, <1>7, KnownParts, TakeTwo
<1>. QED  BY <1>4, <1>8

\* With one pair for each tag there is nothing to drop.
LEMMA SingleKept ==
  ASSUME NEW S, Pairs(S), Single(S)
  PROVE  Deduped(S) = S /\ Latest(S) = S
<1>1. \A p, q \in S : q.tag = p.tag => ~Newer(q, p)
  BY NewerOrder DEF Single, Pairs
<1>. QED  BY <1>1 DEF Deduped, Latest

\* Window::select takes the newest tags, in spite of dedup_by, from a window
\* of at most two or when nothing is to be dropped.
LEMMA TakeExact ==
  ASSUME NEW S, Pairs(S), NEW n \in Nat, n <= 2 \/ Single(S)
  PROVE  Take(n, Deduped(S)) = Take(n, Latest(S))
<1>1. CASE Single(S)
  BY <1>1, SingleKept
<1>2. CASE n = 0
  BY <1>2, KnownParts, TakeNone
<1>3. CASE n = 1
  BY <1>3, TopOne
<1>4. CASE n = 2
  BY <1>4, TopTwo
<1>. QED  BY <1>1, <1>2, <1>3, <1>4
=============================================================================
