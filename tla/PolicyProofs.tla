----------------------------- MODULE PolicyProofs -----------------------------
(***************************************************************************)
(* The policy of a node, for any keys, zones, names, tags and modes: what  *)
(* the rules mean and how requests edit them (PolicyRules), what their     *)
(* retention window makes of the store (Retention), and which key a zone   *)
(* in a rule stands for (DnsTofu).                                         *)
(***************************************************************************)
EXTENDS PolicyRules, Retention, DnsTofu, WindowProofs, SequenceTheorems

(***************************************************************************)
(* The rules.                                                              *)
(***************************************************************************)

\* A seed rule and a follow entry in memory.
Rule == [ref : Ref, mode : Mode]
Entry == [publisher : Slot, mode : Mode]

\* A policy in memory.
IsPolicy(p) ==
  /\ p = [seed |-> p.seed, follow |-> p.follow, pin |-> p.pin,
          alias |-> p.alias, dns |-> p.dns]
  /\ p.seed \subseteq Rule /\ IsFiniteSet(p.seed)
  /\ p.follow \in Seq(Entry)
  /\ p.pin \subseteq {r \in Ref : r.tag # None}
  /\ DOMAIN p.alias \subseteq Alias /\ p.alias \in [DOMAIN p.alias -> Target]
  /\ DOMAIN p.dns \subseteq Zone /\ p.dns \in [DOMAIN p.dns -> Key]

\* Every rule of it names a publisher.
Meaningful(p) ==
  /\ \A e \in p.seed : ParsePublisherArg(p, e.ref.slot) # None
  /\ \A i \in DOMAIN p.follow : ParsePublisherArg(p, p.follow[i].publisher) # None
  /\ \A r \in p.pin : ParsePublisherArg(p, r.slot) # None

-----------------------------------------------------------------------------
\* The modes that rules may have are numbers.
LEMMA ModeType == Mode \subseteq Nat
<1>1. ASSUME NEW t \in ModeText
      PROVE  ParseMode(t) \in Nat \cup {None}
  <2>1. t[1] \in {"full", "all", "latest", "last"} /\ t[2] \in Nat
    BY PolicyRulesAssumption
  <2>. QED  BY <2>1 DEF ParseMode, Full
<1>. QED  BY <1>1 DEF Mode

\* A mode is read back as it was written.
LEMMA ModeReadBack ==
  \A m \in Nat : /\ ModeFromText(ModeToText(m)) = m
                 /\ ModeToText(m) \in {"full", "last"} \X Nat \cup {None}
<1>. SUFFICES ASSUME NEW m \in Nat
              PROVE  /\ ModeFromText(ModeToText(m)) = m
                     /\ ModeToText(m) \in {"full", "last"} \X Nat \cup {None}
  OBVIOUS
<1>1. CASE m = 0
  <2>1. ModeToText(m) = <<"full", 0>>
    BY <1>1 DEF ModeToText, Full
  <2>2. ModeToText(m) # None
    BY <2>1, PolicyRulesAssumption
  <2>. QED  BY <1>1, <2>1, <2>2 DEF ModeFromText, ParseMode, Full
<1>2. CASE m = 1
  <2>1. ModeToText(m) = None
    BY <1>2 DEF ModeToText, Full
  <2>. QED  BY <1>2, <2>1 DEF ModeFromText
<1>3. CASE m \notin {0, 1}
  <2>1. ModeToText(m) = <<"last", m>>
    BY <1>3 DEF ModeToText, Full
  <2>2. ModeToText(m) # None
    BY <2>1, PolicyRulesAssumption
  <2>3. ParseMode(<<"last", m>>) = m
    BY <1>3 DEF ParseMode
  <2>. QED  BY <2>1, <2>2, <2>3 DEF ModeFromText
<1>. QED  BY <1>1, <1>2, <1>3

\* What an assignment to a field does to a policy.
LEMMA Assigned ==
  ASSUME NEW p, NEW A, NEW B,
         p = [seed |-> p.seed, follow |-> p.follow, pin |-> p.pin,
              alias |-> p.alias, dns |-> p.dns]
  PROVE  /\ [p EXCEPT !.seed = A] = [seed |-> A, follow |-> p.follow, pin |-> p.pin,
                                     alias |-> p.alias, dns |-> p.dns]
         /\ [p EXCEPT !.follow = B] = [seed |-> p.seed, follow |-> B, pin |-> p.pin,
                                       alias |-> p.alias, dns |-> p.dns]
         /\ [p EXCEPT !.seed = A, !.follow = B]
              = [seed |-> A, follow |-> B, pin |-> p.pin,
                 alias |-> p.alias, dns |-> p.dns]
         /\ [p EXCEPT !.pin = A] = [seed |-> p.seed, follow |-> p.follow, pin |-> A,
                                    alias |-> p.alias, dns |-> p.dns]
         /\ [p EXCEPT !.alias = A] = [seed |-> p.seed, follow |-> p.follow, pin |-> p.pin,
                                      alias |-> A, dns |-> p.dns]
         /\ [p EXCEPT !.dns = A] = [seed |-> p.seed, follow |-> p.follow, pin |-> p.pin,
                                    alias |-> p.alias, dns |-> A]
<1>. PICK a, b, c, d, e : p = [seed |-> a, follow |-> b, pin |-> c, alias |-> d, dns |-> e]
  OBVIOUS
<1>1. p.seed = a /\ p.follow = b /\ p.pin = c /\ p.alias = d /\ p.dns = e
  OBVIOUS
<1>2. [p EXCEPT !.seed = A] = [seed |-> A, follow |-> b, pin |-> c, alias |-> d, dns |-> e]
  OBVIOUS
<1>3. [p EXCEPT !.follow = B] = [seed |-> a, follow |-> B, pin |-> c, alias |-> d, dns |-> e]
  OBVIOUS
<1>4. [p EXCEPT !.seed = A, !.follow = B]
        = [seed |-> A, follow |-> B, pin |-> c, alias |-> d, dns |-> e]
  <2>1. [p EXCEPT !.seed = A, !.follow = B] = [[p EXCEPT !.seed = A] EXCEPT !.follow = B]
    OBVIOUS
  <2>2. [[seed |-> A, follow |-> b, pin |-> c, alias |-> d, dns |-> e] EXCEPT !.follow = B]
          = [seed |-> A, follow |-> B, pin |-> c, alias |-> d, dns |-> e]
    OBVIOUS
  <2>. QED  BY <1>2, <2>1, <2>2
<1>5. [p EXCEPT !.pin = A] = [seed |-> a, follow |-> b, pin |-> A, alias |-> d, dns |-> e]
  OBVIOUS
<1>6. [p EXCEPT !.alias = A] = [seed |-> a, follow |-> b, pin |-> c, alias |-> A, dns |-> e]
  OBVIOUS
<1>7. [p EXCEPT !.dns = A] = [seed |-> a, follow |-> b, pin |-> c, alias |-> d, dns |-> A]
  OBVIOUS
<1>. QED  BY <1>1, <1>2, <1>3, <1>4, <1>5, <1>6, <1>7

\* policy.toml is read back as it was written, the default modes included.
LEMMA ReadBack ==
  ASSUME NEW p, IsPolicy(p)
  PROVE  Load(Save(p)) = p
<1>1. \A e \in Rule : /\ [[e EXCEPT !.mode = ModeToText(@)] EXCEPT !.mode = ModeFromText(@)] = e
                      /\ [e EXCEPT !.mode = ModeToText(@)].mode = ModeToText(e.mode)
  BY ModeType, ModeReadBack DEF Rule
<1>2. \A e \in Entry : [[e EXCEPT !.mode = ModeToText(@)] EXCEPT !.mode = ModeFromText(@)] = e
  BY ModeType, ModeReadBack DEF Entry
<1>. DEFINE q == Save(p)
            seed == {[e EXCEPT !.mode = ModeFromText(@)] : e \in q.seed}
            follow == [i \in DOMAIN q.follow |->
                         [q.follow[i] EXCEPT !.mode = ModeFromText(@)]]
<1>3. /\ q.seed = {[e EXCEPT !.mode = ModeToText(@)] : e \in p.seed}
      /\ q.follow = [i \in DOMAIN p.follow |->
                       [p.follow[i] EXCEPT !.mode = ModeToText(@)]]
      /\ q.pin = p.pin /\ q.alias = p.alias /\ q.dns = p.dns
      /\ q = [seed |-> q.seed, follow |-> q.follow, pin |-> p.pin,
              alias |-> p.alias, dns |-> p.dns]
  <2>. DEFINE A == {[e EXCEPT !.mode = ModeToText(@)] : e \in p.seed}
              B == [i \in DOMAIN p.follow |-> [p.follow[i] EXCEPT !.mode = ModeToText(@)]]
  <2>1. q = [p EXCEPT !.seed = A, !.follow = B]
    BY DEF Save
  <2>. HIDE DEF A, B
  <2>2. q = [seed |-> A, follow |-> B, pin |-> p.pin, alias |-> p.alias, dns |-> p.dns]
    BY <2>1, Assigned DEF IsPolicy
  <2>3. q.seed = A /\ q.follow = B /\ q.pin = p.pin /\ q.alias = p.alias /\ q.dns = p.dns
    BY <2>2
  <2>. QED  BY <2>2, <2>3 DEF A, B
<1>4. seed = p.seed
  <2>. HIDE DEF q
  <2>1. ASSUME NEW e \in p.seed
        PROVE  e \in seed
    <3>1. [e EXCEPT !.mode = ModeToText(@)] \in q.seed /\ e \in Rule
      BY <1>3 DEF IsPolicy
    <3>. QED  BY <1>1, <3>1
  <2>2. ASSUME NEW e \in seed
        PROVE  e \in p.seed
    <3>1. PICK d \in q.seed : e = [d EXCEPT !.mode = ModeFromText(@)]
      OBVIOUS
    <3>2. PICK c \in p.seed : d = [c EXCEPT !.mode = ModeToText(@)]
      BY <1>3
    <3>3. c \in Rule
      BY DEF IsPolicy
    <3>. QED  BY <1>1, <3>1, <3>2, <3>3
  <2>. QED  BY <2>1, <2>2
<1>5. follow = p.follow
  <2>. HIDE DEF q
  <2>1. p.follow \in Seq(Entry)
    BY DEF IsPolicy
  <2>2. \A i \in DOMAIN p.follow : p.follow[i] \in Entry
    BY <2>1
  <2>3. \A i \in DOMAIN p.follow : follow[i] = p.follow[i]
    BY <1>2, <1>3, <2>2
  <2>4. DOMAIN follow = DOMAIN p.follow
    BY <1>3
  <2>5. p.follow = [i \in DOMAIN p.follow |-> p.follow[i]]
    BY <2>1
  <2>. QED  BY <2>3, <2>4, <2>5
<1>6. Load(q) = [seed |-> seed, follow |-> follow, pin |-> p.pin,
                 alias |-> p.alias, dns |-> p.dns]
  <2>. HIDE DEF q
  <2>1. Load(q) = [q EXCEPT !.seed = seed, !.follow = follow]
    BY DEF Load
  <2>. HIDE DEF seed, follow
  <2>. QED  BY <1>3, <2>1, Assigned
<1>. QED  BY <1>4, <1>5, <1>6 DEF IsPolicy

-----------------------------------------------------------------------------
\* A publisher is a key of the policy, and only a key or a recorded zone is one.
LEMMA PublisherArg ==
  ASSUME NEW p, IsPolicy(p), NEW s \in Slot \cup {NoSlot}
  PROVE  /\ ParsePublisherArg(p, s) \in Key \cup {None}
         /\ IsKey(s) => ParsePublisherArg(p, s) = s.of /\ s.of \in Key
         /\ ParsePublisherArg(p, s) # None =>
              s \in Slot /\ (IsKey(s) \/ (IsDomainName(s) /\ s.of \in DOMAIN p.dns))
<1>1. CASE s \in [form : KeyForm, of : Key]
  <2>1. s.form \in {"hex", "did"} /\ s.of \in Key /\ s \in Slot
    BY <1>1, PolicyRulesAssumption DEF Slot
  <2>2. IsKey(s)
    BY <2>1 DEF IsKey
  <2>3. ParsePublisherArg(p, s) = s.of
    BY <2>1, <2>2 DEF ParsePublisherArg, IsKey, IsDomainName
  <2>. QED  BY <2>1, <2>2, <2>3
<1>2. CASE s \in [form : {"zone"}, of : Zone]
  BY <1>2 DEF ParsePublisherArg, IsKey, IsDomainName, Slot, IsPolicy
<1>3. CASE s \in [form : {"word"}, of : Word] \cup {NoSlot}
  BY <1>3 DEF ParsePublisherArg, IsKey, IsDomainName, NoSlot
<1>. QED  BY <1>1, <1>2, <1>3 DEF Slot

\* A slot is a key, a zone or a word.
LEMMA SlotForm ==
  /\ \A s \in Slot : s.form \in {"hex", "did", "zone", "word"} /\ s # NoSlot
  /\ \A s \in Slot : IsKey(s) => s.of \in Key
  /\ \A s \in Slot : IsDomainName(s) => s \in [form : {"zone"}, of : Zone]
  /\ ~IsKey(NoSlot) /\ ~IsDomainName(NoSlot)
<1>1. \A s \in Slot : s.form \in {"hex", "did", "zone", "word"}
  BY PolicyRulesAssumption DEF Slot
<1>2. NoSlot.form = "none"
  BY DEF NoSlot
<1>3. ASSUME NEW s \in Slot, IsKey(s)
      PROVE  s.of \in Key
  BY <1>3 DEF Slot, IsKey
<1>4. ASSUME NEW s \in Slot, IsDomainName(s)
      PROVE  s \in [form : {"zone"}, of : Zone]
  <2>1. s.form = "zone"
    BY <1>4 DEF IsDomainName
  <2>2. s \notin [form : KeyForm, of : Key]
    BY <2>1, PolicyRulesAssumption
  <2>. QED  BY <2>1, <2>2 DEF Slot
<1>. QED  BY <1>1, <1>2, <1>3, <1>4 DEF IsKey, IsDomainName

\* The image that a rule means.
LEMMA RuleImage ==
  ASSUME NEW p, IsPolicy(p), NEW r \in Ref \cup Written
  PROVE  /\ r.slot \in Slot \cup {NoSlot}
         /\ ParseSeedRule(p, r) = None <=> ParsePublisherArg(p, r.slot) = None
         /\ ParsePublisherArg(p, r.slot) # None =>
              /\ r \in Ref
              /\ ParseSeedRule(p, r) \in Image
              /\ ParseSeedRule(p, r) = [publisher |-> ParsePublisherArg(p, r.slot),
                                        name |-> r.name, tag |-> r.tag]
<1>1. r.slot \in Slot \cup {NoSlot}
  BY DEF Ref, Written
<1>2. ASSUME ParsePublisherArg(p, r.slot) # None
      PROVE  /\ r \in Ref
             /\ ParseSeedRule(p, r) \in Image
             /\ ParseSeedRule(p, r) = [publisher |-> ParsePublisherArg(p, r.slot),
                                       name |-> r.name, tag |-> r.tag]
  <2>1. r.slot \in Slot /\ ParsePublisherArg(p, r.slot) \in Key
    BY <1>1, <1>2, PublisherArg
  <2>2. r.slot # NoSlot
    BY <2>1, SlotForm
  <2>3. r \in Ref
    <3>1. CASE r \in Ref
      BY <3>1
    <3>2. CASE r \in [slot : Slot, name : Name, tag : Tag \cup {None}]
      BY <3>2 DEF Ref, AnyName
    <3>. QED  BY <2>2, <3>1, <3>2 DEF Written
  <2>. QED  BY <1>2, <2>1, <2>3 DEF ParseSeedRule, Image, Ref
<1>3. ASSUME ParsePublisherArg(p, r.slot) = None
      PROVE  ParseSeedRule(p, r) = None
  BY <1>3 DEF ParseSeedRule
<1>. QED  BY <1>1, <1>2, <1>3, PolicyRulesAssumption

\* A recorded zone: the others mean what they meant.
LEMMA Mapped ==
  ASSUME NEW p, IsPolicy(p), NEW s \in Slot \cup {NoSlot}, NEW k \in Key
  PROVE  /\ IsPolicy(SetDnsMapping(p, s, k))
         /\ SetDnsMapping(p, s, k).seed = p.seed
         /\ SetDnsMapping(p, s, k).follow = p.follow
         /\ SetDnsMapping(p, s, k).pin = p.pin
         /\ SetDnsMapping(p, s, k).alias = p.alias
         /\ \A t \in Slot \cup {NoSlot} :
              ParsePublisherArg(SetDnsMapping(p, s, k), t)
                = IF IsDomainName(s) /\ t = s THEN k ELSE ParsePublisherArg(p, t)
<1>1. CASE ~IsDomainName(s)
  BY <1>1 DEF SetDnsMapping
<1>2. CASE IsDomainName(s)
  <2>. DEFINE dns == Insert(p.dns, s.of, k)
              q == SetDnsMapping(p, s, k)
  <2>1. s \in [form : {"zone"}, of : Zone]
    BY <1>2, PolicyRulesAssumption DEF IsDomainName, Slot, NoSlot
  <2>2. q = [p EXCEPT !.dns = dns]
    BY <1>2 DEF SetDnsMapping
  <2>3. q = [seed |-> p.seed, follow |-> p.follow, pin |-> p.pin, alias |-> p.alias,
             dns |-> dns]
    <3>. HIDE DEF dns
    <3>. QED  BY <2>2, Assigned DEF IsPolicy
  <2>4. /\ DOMAIN dns = DOMAIN p.dns \cup {s.of} /\ dns[s.of] = k
        /\ \A z \in DOMAIN p.dns : z # s.of => dns[z] = p.dns[z]
        /\ dns \in [DOMAIN dns -> Key]
    BY DEF Insert, IsPolicy
  <2>. HIDE DEF dns, q
  <2>5. /\ q.seed = p.seed /\ q.follow = p.follow /\ q.pin = p.pin /\ q.alias = p.alias
        /\ q.dns = dns
    BY <2>3
  <2>6. IsPolicy(q)
    BY <2>1, <2>3, <2>4, <2>5 DEF IsPolicy
  <2>7. ASSUME NEW t \in Slot \cup {NoSlot}
        PROVE  ParsePublisherArg(q, t) = IF t = s THEN k ELSE ParsePublisherArg(p, t)
    <3>1. CASE t = s
      BY <2>1, <2>4, <2>5, <3>1 DEF ParsePublisherArg, IsKey, IsDomainName
    <3>2. CASE t # s /\ IsDomainName(t)
      <4>1. t \in [form : {"zone"}, of : Zone] /\ t.of # s.of
        BY <2>1, <3>2, PolicyRulesAssumption DEF IsDomainName, Slot, NoSlot
      <4>. QED  BY <2>4, <2>5, <3>2, <4>1 DEF ParsePublisherArg, IsKey, IsDomainName
    <3>3. CASE t # s /\ ~IsDomainName(t)
      BY <3>3 DEF ParsePublisherArg
    <3>. QED  BY <3>1, <3>2, <3>3
  <2>. QED  BY <1>2, <2>5, <2>6, <2>7 DEF q
<1>. QED  BY <1>1, <1>2

\* Recording a zone leaves no rule without a publisher.
LEMMA MappedMeaningful ==
  ASSUME NEW p, IsPolicy(p), Meaningful(p), NEW s \in Slot \cup {NoSlot}, NEW k \in Key
  PROVE  Meaningful(SetDnsMapping(p, s, k))
<1>. DEFINE q == SetDnsMapping(p, s, k)
<1>1. /\ q.seed = p.seed /\ q.follow = p.follow /\ q.pin = p.pin
      /\ \A t \in Slot \cup {NoSlot} :
           ParsePublisherArg(p, t) # None => ParsePublisherArg(q, t) # None
  BY Mapped, PolicyRulesAssumption
<1>. HIDE DEF q
<1>2. /\ \A e \in p.seed : e.ref.slot \in Slot
      /\ \A i \in DOMAIN p.follow : p.follow[i].publisher \in Slot
      /\ \A r \in p.pin : r.slot \in Slot
  <2>1. \A i \in DOMAIN p.follow : p.follow[i] \in Entry
    BY DEF IsPolicy
  <2>. QED  BY <2>1 DEF IsPolicy, Rule, Entry, Ref
<1>3. Meaningful(q)
  BY <1>1, <1>2 DEF Meaningful
<1>. QED  BY <1>3 DEF q

-----------------------------------------------------------------------------
\* The lists of config.rs: the first of some entries, and what retain leaves.

\* A non-empty finite set of numbers has a least element.
LEMMA LeastOf ==
  ASSUME NEW S \in SUBSET Nat, IsFiniteSet(S), S # {}
  PROVE  \E i \in S : \A j \in S : i <= j
<1>. DEFINE R == {ss \in S \X S : ss[1] < ss[2]}
<1>1. \A p, q \in S : <<p, q>> \in R <=> p < q
  OBVIOUS
<1>2. /\ \A p \in S : <<p, p>> \notin R
      /\ \A p, q, r \in S : <<p, q>> \in R /\ <<q, r>> \in R => <<p, r>> \in R
  BY <1>1
<1>. HIDE DEF R
<1>3. PICK i \in S : \A j \in S : <<j, i>> \notin R
  BY <1>2, Minimal
<1>4. \A j \in S : ~(j < i)
  BY <1>1, <1>3
<1>5. \A j \in S : i <= j
  BY <1>4
<1>. QED  BY <1>5

\* The i-th of a finite set of numbers exists.
LEMMA Ranked ==
  ASSUME NEW S \in SUBSET Nat, IsFiniteSet(S), NEW i \in 1 .. Cardinality(S)
  PROVE  \E j \in S : Cardinality({h \in S : h <= j}) = i
<1>. DEFINE Below(j) == {h \in S : h <= j}
            n == Cardinality(S)
            f == [j \in S |-> Cardinality(Below(j))]
<1>1. n \in Nat /\ IsFiniteSet(1 .. n) /\ Cardinality(1 .. n) = n
  BY FS_CardinalityType, FS_Interval
<1>2. ASSUME NEW j \in S
      PROVE  IsFiniteSet(Below(j)) /\ Cardinality(Below(j)) \in 1 .. n
  <2>1. IsFiniteSet(Below(j)) /\ Cardinality(Below(j)) <= n
    BY FS_Subset
  <2>2. Cardinality(Below(j)) \in Nat
    BY <2>1, FS_CardinalityType
  <2>3. Cardinality(Below(j)) # 0
    <3>1. j \in Below(j)
      OBVIOUS
    <3>. HIDE DEF Below
    <3>. QED  BY <2>1, <3>1, FS_EmptySet
  <2>. QED  BY <1>1, <2>1, <2>2, <2>3
<1>3. ASSUME NEW j \in S, NEW k \in S, j < k, f[j] = f[k]
      PROVE  FALSE
  <2>1. Below(j) \in SUBSET Below(k) /\ k \in Below(k) /\ k \notin Below(j)
    <3>1. j < k
      BY <1>3
    <3>2. \A h \in S : h <= j => h <= k
      BY <3>1
    <3>3. k <= k /\ ~(k <= j)
      BY <3>1
    <3>. QED  BY <3>2, <3>3
  <2>. HIDE DEF Below
  <2>2. Cardinality(Below(k)) = Cardinality(Below(j)) /\ IsFiniteSet(Below(k))
    BY <1>2, <1>3
  <2>3. Below(k) = Below(j)
    BY <2>1, <2>2, FS_Subset
  <2>. QED  BY <2>1, <2>3
<1>. HIDE DEF Below, n
<1>4. f \in Injection(S, 1 .. n)
  BY <1>2, <1>3 DEF Injection, IsInjective
<1>5. f \in Surjection(S, 1 .. n)
  <2>. HIDE DEF f
  <2>. QED  BY <1>1, <1>4, FS_Injection DEF n
<1>. QED  BY <1>5 DEF Surjection, n, Below

\* retain leaves entries of the list only.
LEMMA Retained ==
  ASSUME NEW E, NEW entries \in Seq(E), NEW S \in SUBSET DOMAIN entries
  PROVE  /\ Retain(entries, S) \in Seq(E)
         /\ \A i \in DOMAIN Retain(entries, S) :
              \E j \in S : Retain(entries, S)[i] = entries[j]
<1>1. S \in SUBSET Nat /\ S \in SUBSET (1 .. Len(entries))
  OBVIOUS
<1>2. IsFiniteSet(S) /\ Cardinality(S) \in Nat
  <2>1. IsFiniteSet(1 .. Len(entries))
    BY FS_Interval
  <2>. QED  BY <1>1, <2>1, FS_Subset, FS_CardinalityType
<1>. DEFINE at(i) == CHOOSE j \in S : Cardinality({h \in S : h <= j}) = i
<1>3. ASSUME NEW i \in 1 .. Cardinality(S)
      PROVE  at(i) \in S
  BY <1>1, <1>2, Ranked
<1>4. Retain(entries, S) = [i \in 1 .. Cardinality(S) |-> entries[at(i)]]
  BY DEF Retain
<1>. HIDE DEF at
<1>5. \A i \in 1 .. Cardinality(S) : entries[at(i)] \in E
  BY <1>1, <1>3
<1>6. Retain(entries, S) \in Seq(E)
  BY <1>2, <1>4, <1>5, IsASeq
<1>. QED  BY <1>3, <1>4, <1>6

-----------------------------------------------------------------------------
\* The editors: an edited policy is a policy in which every rule means something.

\* Publishers and images are read with the table of zones only.
LEMMA SameZones ==
  ASSUME NEW p, NEW q, q.dns = p.dns
  PROVE  /\ \A s : ParsePublisherArg(q, s) = ParsePublisherArg(p, s)
         /\ \A r : ParseSeedRule(q, r) = ParseSeedRule(p, r)
<1>1. \A s : ParsePublisherArg(q, s) = ParsePublisherArg(p, s)
  BY DEF ParsePublisherArg
<1>. QED  BY <1>1 DEF ParseSeedRule

\* The seeds are replaced.
LEMMA SeedsReplaced ==
  ASSUME NEW p, IsPolicy(p), Meaningful(p), NEW S, S \subseteq Rule, IsFiniteSet(S),
         \A e \in S : ParsePublisherArg(p, e.ref.slot) # None
  PROVE  LET q == [p EXCEPT !.seed = S]
         IN  /\ IsPolicy(q) /\ Meaningful(q)
             /\ q.seed = S /\ q.follow = p.follow /\ q.pin = p.pin
             /\ q.alias = p.alias /\ q.dns = p.dns
<1>. DEFINE q == [p EXCEPT !.seed = S]
<1>1. q = [seed |-> S, follow |-> p.follow, pin |-> p.pin, alias |-> p.alias, dns |-> p.dns]
  BY Assigned DEF IsPolicy
<1>. HIDE DEF q
<1>2. /\ q.seed = S /\ q.follow = p.follow /\ q.pin = p.pin
      /\ q.alias = p.alias /\ q.dns = p.dns
  BY <1>1
<1>3. IsPolicy(q)
  BY <1>1, <1>2 DEF IsPolicy
<1>4. Meaningful(q)
  BY <1>2, SameZones DEF Meaningful
<1>. QED  BY <1>2, <1>3, <1>4 DEF q

\* The follows are replaced.
LEMMA FollowsReplaced ==
  ASSUME NEW p, IsPolicy(p), Meaningful(p), NEW F \in Seq(Entry),
         \A i \in DOMAIN F : ParsePublisherArg(p, F[i].publisher) # None
  PROVE  LET q == [p EXCEPT !.follow = F]
         IN  /\ IsPolicy(q) /\ Meaningful(q)
             /\ q.seed = p.seed /\ q.follow = F /\ q.pin = p.pin
             /\ q.alias = p.alias /\ q.dns = p.dns
<1>. DEFINE q == [p EXCEPT !.follow = F]
<1>1. q = [seed |-> p.seed, follow |-> F, pin |-> p.pin, alias |-> p.alias, dns |-> p.dns]
  BY Assigned DEF IsPolicy
<1>. HIDE DEF q
<1>2. /\ q.seed = p.seed /\ q.follow = F /\ q.pin = p.pin
      /\ q.alias = p.alias /\ q.dns = p.dns
  BY <1>1
<1>3. IsPolicy(q)
  BY <1>1, <1>2 DEF IsPolicy
<1>4. Meaningful(q)
  BY <1>2, SameZones DEF Meaningful
<1>. QED  BY <1>2, <1>3, <1>4 DEF q

\* The pins are replaced.
LEMMA PinsReplaced ==
  ASSUME NEW p, IsPolicy(p), Meaningful(p), NEW S, S \subseteq {r \in Ref : r.tag # None},
         \A r \in S : ParsePublisherArg(p, r.slot) # None
  PROVE  LET q == [p EXCEPT !.pin = S]
         IN  /\ IsPolicy(q) /\ Meaningful(q)
             /\ q.seed = p.seed /\ q.follow = p.follow /\ q.pin = S
             /\ q.alias = p.alias /\ q.dns = p.dns
<1>. DEFINE q == [p EXCEPT !.pin = S]
<1>1. q = [seed |-> p.seed, follow |-> p.follow, pin |-> S, alias |-> p.alias, dns |-> p.dns]
  BY Assigned DEF IsPolicy
<1>. HIDE DEF q
<1>2. /\ q.seed = p.seed /\ q.follow = p.follow /\ q.pin = S
      /\ q.alias = p.alias /\ q.dns = p.dns
  BY <1>1
<1>3. IsPolicy(q)
  BY <1>1, <1>2 DEF IsPolicy
<1>4. Meaningful(q)
  BY <1>2, SameZones DEF Meaningful
<1>. QED  BY <1>2, <1>3, <1>4 DEF q

\* set_alias and its removal.
LEMMA AliasEdited ==
  ASSUME NEW p, IsPolicy(p), Meaningful(p), NEW a \in Alias
  PROVE  /\ \A t \in Target : IsPolicy(SetAlias(p, a, t)) /\ Meaningful(SetAlias(p, a, t))
         /\ IsPolicy(RemoveAlias(p, a)) /\ Meaningful(RemoveAlias(p, a))
<1>1. ASSUME NEW A, DOMAIN A \subseteq Alias, A \in [DOMAIN A -> Target]
      PROVE  IsPolicy([p EXCEPT !.alias = A]) /\ Meaningful([p EXCEPT !.alias = A])
  <2>. DEFINE q == [p EXCEPT !.alias = A]
  <2>1. q = [seed |-> p.seed, follow |-> p.follow, pin |-> p.pin, alias |-> A, dns |-> p.dns]
    BY Assigned DEF IsPolicy
  <2>. HIDE DEF q
  <2>2. /\ q.seed = p.seed /\ q.follow = p.follow /\ q.pin = p.pin
        /\ q.alias = A /\ q.dns = p.dns
    BY <2>1
  <2>3. IsPolicy(q)
    BY <1>1, <2>1, <2>2 DEF IsPolicy
  <2>4. Meaningful(q)
    BY <2>2, SameZones DEF Meaningful
  <2>. QED  BY <2>3, <2>4 DEF q
<1>2. \A t \in Target :
        /\ DOMAIN Insert(p.alias, a, t) \subseteq Alias
        /\ Insert(p.alias, a, t) \in [DOMAIN Insert(p.alias, a, t) -> Target]
  BY DEF Insert, IsPolicy
<1>3. /\ DOMAIN Remove(p.alias, a) \subseteq Alias
      /\ Remove(p.alias, a) \in [DOMAIN Remove(p.alias, a) -> Target]
  BY DEF Remove, IsPolicy
<1>. QED  BY <1>1, <1>2, <1>3 DEF SetAlias, RemoveAlias

\* add_seed: the rule is there once, with the mode asked for.
LEMMA SeedAdded ==
  ASSUME NEW p, IsPolicy(p), Meaningful(p), NEW r \in Ref \cup Written, NEW m \in Mode,
         AddSeed(p, r, m) # None
  PROVE  LET q == AddSeed(p, r, m)
         IN  /\ IsPolicy(q) /\ Meaningful(q)
             /\ r \in Ref /\ ParsePublisherArg(p, r.slot) # None
             /\ q.seed = {e \in p.seed : e.ref # r} \cup {[ref |-> r, mode |-> m]}
             /\ q.follow = p.follow /\ q.pin = p.pin
             /\ q.alias = p.alias /\ q.dns = p.dns
<1>. DEFINE Kept == {e \in p.seed : e.ref # r}
            S == Kept \cup {[ref |-> r, mode |-> m]}
<1>1. ParseSeedRule(p, r) # None
  BY DEF AddSeed
<1>2. AddSeed(p, r, m) = [p EXCEPT !.seed = S]
  BY <1>1 DEF AddSeed
<1>3. r \in Ref /\ ParsePublisherArg(p, r.slot) # None
  BY <1>1, RuleImage
<1>4. S \subseteq Rule
  BY <1>3 DEF IsPolicy, Rule
<1>5. IsFiniteSet(S)
  <2>1. Kept \in SUBSET p.seed /\ IsFiniteSet(p.seed)
    BY DEF IsPolicy
  <2>. HIDE DEF Kept
  <2>. QED  BY <2>1, FS_Subset, FS_AddElement
<1>6. \A e \in S : ParsePublisherArg(p, e.ref.slot) # None
  BY <1>3 DEF Meaningful
<1>. HIDE DEF S
<1>7. LET q == [p EXCEPT !.seed = S]
      IN  /\ IsPolicy(q) /\ Meaningful(q)
          /\ q.seed = S /\ q.follow = p.follow /\ q.pin = p.pin
          /\ q.alias = p.alias /\ q.dns = p.dns
  BY <1>4, <1>5, <1>6, SeedsReplaced
<1>. QED  BY <1>2, <1>3, <1>7 DEF S

\* remove_seed: no rule for the image, or for the release, is left.
LEMMA SeedRemoved ==
  ASSUME NEW p, IsPolicy(p), Meaningful(p), NEW r \in Ref \cup Written,
         RemoveSeed(p, r) # None
  PROVE  LET q == RemoveSeed(p, r)
         IN  /\ IsPolicy(q) /\ Meaningful(q)
             /\ ParsePublisherArg(p, r.slot) # None
             /\ q.seed \subseteq p.seed
             /\ \A e \in q.seed :
                  ~ /\ ParsePublisherArg(p, e.ref.slot) = ParsePublisherArg(p, r.slot)
                    /\ e.ref.name = r.name
                    /\ r.tag \in {None, e.ref.tag}
             /\ q.follow = p.follow /\ q.pin = p.pin
             /\ q.alias = p.alias /\ q.dns = p.dns
<1>. DEFINE image == ParseSeedRule(p, r)
            Goes(e) == LET q == ParseSeedRule(p, e.ref)
                       IN  /\ q # None
                           /\ q.publisher = image.publisher /\ q.name = image.name
                           /\ image.tag \in {None, q.tag}
            S == {e \in p.seed : ~Goes(e)}
<1>1. ParseSeedRule(p, r) # None
  BY DEF RemoveSeed
<1>2. RemoveSeed(p, r) = [p EXCEPT !.seed = S]
  BY <1>1 DEF RemoveSeed
<1>3. /\ ParsePublisherArg(p, r.slot) # None
      /\ image = [publisher |-> ParsePublisherArg(p, r.slot), name |-> r.name,
                  tag |-> r.tag]
  BY <1>1, RuleImage
<1>4. \A e \in p.seed :
        /\ e.ref \in Ref
        /\ ParseSeedRule(p, e.ref) # None
        /\ ParseSeedRule(p, e.ref) = [publisher |-> ParsePublisherArg(p, e.ref.slot),
                                      name |-> e.ref.name, tag |-> e.ref.tag]
  <2>1. \A e \in p.seed : e.ref \in Ref /\ ParsePublisherArg(p, e.ref.slot) # None
    BY DEF IsPolicy, Meaningful, Rule
  <2>. QED  BY <2>1, RuleImage
<1>5. \A e \in S :
        ~ /\ ParsePublisherArg(p, e.ref.slot) = ParsePublisherArg(p, r.slot)
          /\ e.ref.name = r.name
          /\ r.tag \in {None, e.ref.tag}
  <2>1. image.publisher = ParsePublisherArg(p, r.slot) /\ image.name = r.name
        /\ image.tag = r.tag
    BY <1>3
  <2>. SUFFICES ASSUME NEW e \in S,
                       ParsePublisherArg(p, e.ref.slot) = ParsePublisherArg(p, r.slot),
                       e.ref.name = r.name, r.tag \in {None, e.ref.tag}
                PROVE  FALSE
    OBVIOUS
  <2>2. e \in p.seed /\ ~Goes(e)
    OBVIOUS
  <2>. HIDE DEF S, image
  <2>. DEFINE j == ParseSeedRule(p, e.ref)
  <2>. DEFINE k == ParsePublisherArg(p, e.ref.slot)
  <2>3. /\ j # None /\ j.publisher = k
        /\ j.name = e.ref.name /\ j.tag = e.ref.tag
    <3>1. j # None /\ j = [publisher |-> k, name |-> e.ref.name, tag |-> e.ref.tag]
      BY <1>4, <2>2
    <3>. HIDE DEF j, k
    <3>. QED  BY <3>1
  <2>. QED  BY <2>1, <2>2, <2>3
<1>6. S \subseteq Rule /\ S \in SUBSET p.seed /\ IsFiniteSet(p.seed)
  BY DEF IsPolicy
<1>. HIDE DEF S
<1>7. IsFiniteSet(S)
  BY <1>6, FS_Subset
<1>8. \A e \in S : ParsePublisherArg(p, e.ref.slot) # None
  BY <1>6 DEF Meaningful
<1>9. LET q == [p EXCEPT !.seed = S]
      IN  /\ IsPolicy(q) /\ Meaningful(q)
          /\ q.seed = S /\ q.follow = p.follow /\ q.pin = p.pin
          /\ q.alias = p.alias /\ q.dns = p.dns
  BY <1>6, <1>7, <1>8, SeedsReplaced
<1>. QED  BY <1>2, <1>3, <1>5, <1>6, <1>9

\* The mode of a publisher is that of the first entry that means it.
LEMMA FirstFollow ==
  ASSUME NEW p, IsPolicy(p), NEW k,
         NEW i \in {j \in DOMAIN p.follow : ParsePublisherArg(p, p.follow[j].publisher) = k},
         \A j \in DOMAIN p.follow :
           ParsePublisherArg(p, p.follow[j].publisher) = k => i <= j
  PROVE  FollowMode(p, k) = p.follow[i].mode
<1>. DEFINE at == {j \in DOMAIN p.follow :
                     ParsePublisherArg(p, p.follow[j].publisher) = k}
<1>1. at \subseteq Nat /\ i \in at /\ \A j \in at : i <= j
  BY DEF IsPolicy
<1>2. FollowMode(p, k) = p.follow[CHOOSE h \in at : \A j \in at : h <= j].mode
  BY <1>1 DEF FollowMode
<1>. HIDE DEF at
<1>3. \A h \in at : (\A j \in at : h <= j) => h = i
  <2>1. \A h \in at : h <= i /\ i <= h => h = i
    BY <1>1
  <2>. QED  BY <1>1, <2>1
<1>4. (CHOOSE h \in at : \A j \in at : h <= j) = i
  BY <1>1, <1>3
<1>. QED  BY <1>2, <1>4

\* There is a first entry if there is one, and its mode is a number.
LEMMA FollowModeType ==
  ASSUME NEW p, IsPolicy(p), NEW k
  PROVE  FollowMode(p, k) \in Mode \cup {None}
<1>. DEFINE at == {j \in DOMAIN p.follow :
                     ParsePublisherArg(p, p.follow[j].publisher) = k}
<1>1. CASE at = {}
  BY <1>1 DEF FollowMode
<1>2. CASE at # {}
  <2>1. /\ at \in SUBSET Nat /\ at \in SUBSET (1 .. Len(p.follow))
        /\ IsFiniteSet(1 .. Len(p.follow))
    <3>1. p.follow \in Seq(Entry)
      BY DEF IsPolicy
    <3>2. Len(p.follow) \in Nat /\ DOMAIN p.follow = 1 .. Len(p.follow)
      BY <3>1, LenProperties
    <3>. QED  BY <3>2, FS_Interval
  <2>2. IsFiniteSet(at)
    <3>. HIDE DEF at
    <3>. QED  BY <2>1, FS_Subset
  <2>3. PICK i \in at : \A j \in at : i <= j
    <3>. HIDE DEF at
    <3>. QED  BY <1>2, <2>1, <2>2, LeastOf
  <2>4. FollowMode(p, k) = p.follow[i].mode
    BY <2>3, FirstFollow
  <2>5. p.follow[i] \in Entry
    BY <2>3 DEF IsPolicy
  <2>. QED  BY <2>4, <2>5 DEF Entry
<1>. QED  BY <1>1, <1>2

\* add_follow: the first entry for the publisher has the mode asked for.
LEMMA FollowAdded ==
  ASSUME NEW p, IsPolicy(p), Meaningful(p), NEW s \in Slot, NEW m \in Mode,
         AddFollow(p, s, m) # None
  PROVE  LET q == AddFollow(p, s, m)
         IN  /\ IsPolicy(q) /\ Meaningful(q)
             /\ FollowMode(q, ParsePublisherArg(p, s)) = m
             /\ q.seed = p.seed /\ q.pin = p.pin
             /\ q.alias = p.alias /\ q.dns = p.dns
<1>. DEFINE k == ParsePublisherArg(p, s)
            at == {i \in DOMAIN p.follow :
                     ParsePublisherArg(p, p.follow[i].publisher) = k}
<1>1. k \in Key /\ k # None
  <2>1. k # None
    BY DEF AddFollow
  <2>. QED  BY <2>1, PublisherArg
<1>2. /\ p.follow \in Seq(Entry)
      /\ Len(p.follow) \in Nat /\ DOMAIN p.follow = 1 .. Len(p.follow)
      /\ \A i \in DOMAIN p.follow : p.follow[i] \in Entry
  <2>1. p.follow \in Seq(Entry)
    BY DEF IsPolicy
  <2>. QED  BY <2>1, LenProperties
<1>3. ASSUME NEW F \in Seq(Entry), NEW i \in DOMAIN F,
             \A j \in DOMAIN F : ParsePublisherArg(p, F[j].publisher) # None,
             ParsePublisherArg(p, F[i].publisher) = k, F[i].mode = m,
             \A j \in DOMAIN F : ParsePublisherArg(p, F[j].publisher) = k => i <= j,
             AddFollow(p, s, m) = [p EXCEPT !.follow = F]
      PROVE  LET q == AddFollow(p, s, m)
             IN  /\ IsPolicy(q) /\ Meaningful(q)
                 /\ FollowMode(q, k) = m
                 /\ q.seed = p.seed /\ q.pin = p.pin
                 /\ q.alias = p.alias /\ q.dns = p.dns
  <2>. DEFINE q == AddFollow(p, s, m)
  <2>1. /\ IsPolicy(q) /\ Meaningful(q)
        /\ q.seed = p.seed /\ q.follow = F /\ q.pin = p.pin
        /\ q.alias = p.alias /\ q.dns = p.dns
    BY <1>3, FollowsReplaced
  <2>. HIDE DEF q, k
  <2>2. FollowMode(q, k) = q.follow[i].mode
    BY <1>3, <2>1, FirstFollow, SameZones
  <2>. QED  BY <1>3, <2>1, <2>2 DEF q
<1>4. CASE at = {}
  <2>. DEFINE e == [publisher |-> s, mode |-> m]
              F == Append(p.follow, e)
  <2>1. e \in Entry
    BY DEF Entry
  <2>2. /\ F \in Seq(Entry) /\ DOMAIN F = 1 .. (Len(p.follow) + 1)
        /\ F[Len(p.follow) + 1] = e
        /\ \A j \in DOMAIN p.follow : F[j] = p.follow[j]
    <3>. HIDE DEF e
    <3>. QED  BY <1>2, <2>1
  <2>3. AddFollow(p, s, m) = [p EXCEPT !.follow = F]
    BY <1>1, <1>4 DEF AddFollow
  <2>. DEFINE i == Len(p.follow) + 1
  <2>4. /\ i \in DOMAIN F
        /\ \A j \in DOMAIN F : j = i \/ j \in DOMAIN p.follow
    BY <1>2, <2>2
  <2>5. F[i].publisher = s /\ F[i].mode = m
    BY <2>2
  <2>. HIDE DEF F, i
  <2>6. \A j \in DOMAIN p.follow : /\ ParsePublisherArg(p, F[j].publisher) # None
                                   /\ ParsePublisherArg(p, F[j].publisher) # k
    BY <1>4, <2>2 DEF Meaningful
  <2>7. i <= i
    BY <1>2 DEF i
  <2>8. /\ \A j \in DOMAIN F : ParsePublisherArg(p, F[j].publisher) # None
        /\ \A j \in DOMAIN F : ParsePublisherArg(p, F[j].publisher) = k => i <= j
    BY <1>1, <2>4, <2>5, <2>6, <2>7
  <2>. HIDE DEF k
  <2>. QED  BY <1>3, <2>2, <2>3, <2>4, <2>5, <2>8 DEF k
<1>5. CASE at # {}
  <2>. DEFINE i == CHOOSE h \in at : \A j \in at : h <= j
              e == [publisher |-> p.follow[i].publisher, mode |-> m]
              F == [p.follow EXCEPT ![i] = e]
  <2>1. at \in SUBSET Nat /\ IsFiniteSet(at)
    <3>1. at \in SUBSET (1 .. Len(p.follow)) /\ at \in SUBSET Nat
      BY <1>2
    <3>2. IsFiniteSet(1 .. Len(p.follow))
      BY <1>2, FS_Interval
    <3>. HIDE DEF at
    <3>. QED  BY <3>1, <3>2, FS_Subset
  <2>2. i \in at /\ \A j \in at : i <= j
    <3>1. \E h \in at : \A j \in at : h <= j
      <4>. HIDE DEF at
      <4>. QED  BY <1>5, <2>1, LeastOf
    <3>. HIDE DEF at
    <3>. QED  BY <3>1
  <2>. HIDE DEF i
  <2>3. /\ i \in DOMAIN p.follow /\ ParsePublisherArg(p, p.follow[i].publisher) = k
        /\ \A j \in DOMAIN p.follow :
             ParsePublisherArg(p, p.follow[j].publisher) = k => i <= j
    BY <2>2
  <2>4. [p.follow[i] EXCEPT !.mode = m] = e /\ e \in Entry
    BY <1>2, <2>3 DEF Entry
  <2>5. AddFollow(p, s, m) = [p EXCEPT !.follow[i].mode = m]
    BY <1>1, <1>5 DEF AddFollow, i
  <2>6. AddFollow(p, s, m) = [p EXCEPT !.follow = F]
    BY <2>4, <2>5
  <2>7. e.publisher = p.follow[i].publisher /\ e.mode = m
    OBVIOUS
  <2>. HIDE DEF e, at
  <2>8. /\ F \in Seq(Entry) /\ DOMAIN F = DOMAIN p.follow /\ F[i] = e
        /\ \A j \in DOMAIN p.follow : j # i => F[j] = p.follow[j]
    BY <1>2, <2>3, <2>4, ExceptSeq
  <2>. HIDE DEF F, k
  <2>9. \A j \in DOMAIN F : F[j].publisher = p.follow[j].publisher
    BY <2>7, <2>8
  <2>10. \A j \in DOMAIN F : ParsePublisherArg(p, F[j].publisher) # None
    BY <2>8, <2>9 DEF Meaningful
  <2>11. /\ i \in DOMAIN F /\ ParsePublisherArg(p, F[i].publisher) = k /\ F[i].mode = m
         /\ \A j \in DOMAIN F : ParsePublisherArg(p, F[j].publisher) = k => i <= j
    BY <2>3, <2>7, <2>8, <2>9
  <2>. QED  BY <1>3, <2>6, <2>8, <2>10, <2>11 DEF k
<1>. QED  BY <1>4, <1>5

\* remove_follow: no entry that means the publisher is left.
LEMMA FollowRemoved ==
  ASSUME NEW p, IsPolicy(p), Meaningful(p), NEW s \in Slot,
         RemoveFollow(p, s) # None
  PROVE  LET q == RemoveFollow(p, s)
             k == ParsePublisherArg(p, s)
         IN  /\ IsPolicy(q) /\ Meaningful(q)
             /\ FollowMode(q, k) = None
             /\ \A i \in DOMAIN q.follow : q.follow[i].publisher # s
             /\ q.seed = p.seed /\ q.pin = p.pin
             /\ q.alias = p.alias /\ q.dns = p.dns
<1>. DEFINE k == ParsePublisherArg(p, s)
            stay == {i \in DOMAIN p.follow :
                       ParsePublisherArg(p, p.follow[i].publisher) # k}
            F == Retain(p.follow, stay)
            q == RemoveFollow(p, s)
<1>1. k # None /\ q = [p EXCEPT !.follow = F]
  BY DEF RemoveFollow
<1>2. p.follow \in Seq(Entry) /\ stay \in SUBSET DOMAIN p.follow
  BY DEF IsPolicy
<1>3. F \in Seq(Entry) /\ \A i \in DOMAIN F : \E j \in stay : F[i] = p.follow[j]
  <2>. HIDE DEF stay
  <2>. QED  BY <1>2, Retained
<1>4. \A i \in DOMAIN F : /\ ParsePublisherArg(p, F[i].publisher) # None
                          /\ ParsePublisherArg(p, F[i].publisher) # k
  <2>1. \A j \in stay : /\ ParsePublisherArg(p, p.follow[j].publisher) # None
                        /\ ParsePublisherArg(p, p.follow[j].publisher) # k
    BY DEF Meaningful
  <2>. HIDE DEF stay, F, k
  <2>. QED  BY <1>3, <2>1
<1>. HIDE DEF F
<1>5. /\ IsPolicy(q) /\ Meaningful(q)
      /\ q.seed = p.seed /\ q.follow = F /\ q.pin = p.pin
      /\ q.alias = p.alias /\ q.dns = p.dns
  <2>. HIDE DEF q
  <2>. QED  BY <1>1, <1>3, <1>4, FollowsReplaced
<1>. HIDE DEF q
<1>6. \A i \in DOMAIN q.follow : /\ q.follow[i].publisher # s
                                 /\ ParsePublisherArg(q, q.follow[i].publisher) # k
  <2>1. \A x : ParsePublisherArg(q, x) = ParsePublisherArg(p, x)
    BY <1>5, SameZones
  <2>. QED  BY <1>4, <1>5, <2>1
<1>7. FollowMode(q, k) = None
  BY <1>6 DEF FollowMode
<1>. QED  BY <1>5, <1>6, <1>7 DEF q

\* add_pin: a release, never an image without a tag.
LEMMA PinAdded ==
  ASSUME NEW p, IsPolicy(p), Meaningful(p), NEW r \in Ref \cup Written,
         AddPin(p, r) # None
  PROVE  LET q == AddPin(p, r)
         IN  /\ IsPolicy(q) /\ Meaningful(q)
             /\ r \in Ref /\ r.tag # None /\ ParsePublisherArg(p, r.slot) # None
             /\ q.pin = p.pin \cup {r}
             /\ q.seed = p.seed /\ q.follow = p.follow
             /\ q.alias = p.alias /\ q.dns = p.dns
<1>. DEFINE S == p.pin \cup {r}
<1>1. ParseSeedRule(p, r) # None /\ r.tag # None /\ AddPin(p, r) = [p EXCEPT !.pin = S]
  BY DEF AddPin
<1>2. r \in Ref /\ ParsePublisherArg(p, r.slot) # None
  BY <1>1, RuleImage
<1>3. S \subseteq {x \in Ref : x.tag # None}
  BY <1>1, <1>2 DEF IsPolicy
<1>4. \A x \in S : ParsePublisherArg(p, x.slot) # None
  BY <1>2 DEF Meaningful
<1>. HIDE DEF S
<1>5. LET q == [p EXCEPT !.pin = S]
      IN  /\ IsPolicy(q) /\ Meaningful(q)
          /\ q.seed = p.seed /\ q.follow = p.follow /\ q.pin = S
          /\ q.alias = p.alias /\ q.dns = p.dns
  BY <1>3, <1>4, PinsReplaced
<1>. QED  BY <1>1, <1>2, <1>5 DEF S

\* remove_pin.
LEMMA PinRemoved ==
  ASSUME NEW p, IsPolicy(p), Meaningful(p), NEW r \in Ref \cup Written,
         RemovePin(p, r) # None
  PROVE  LET q == RemovePin(p, r)
         IN  /\ IsPolicy(q) /\ Meaningful(q)
             /\ q.seed = p.seed /\ q.follow = p.follow
             /\ q.alias = p.alias /\ q.dns = p.dns
<1>. DEFINE S == p.pin \ {r, [r EXCEPT !.slot = Hex(ParseSeedRule(p, r).publisher)]}
<1>1. RemovePin(p, r) = [p EXCEPT !.pin = S]
  BY DEF RemovePin
<1>2. /\ S \subseteq {x \in Ref : x.tag # None}
      /\ \A x \in S : ParsePublisherArg(p, x.slot) # None
  BY DEF IsPolicy, Meaningful
<1>. HIDE DEF S
<1>3. LET q == [p EXCEPT !.pin = S]
      IN  /\ IsPolicy(q) /\ Meaningful(q)
          /\ q.seed = p.seed /\ q.follow = p.follow /\ q.pin = S
          /\ q.alias = p.alias /\ q.dns = p.dns
  BY <1>2, PinsReplaced
<1>. QED  BY <1>1, <1>3

-----------------------------------------------------------------------------
\* The requests.

\* The keys whose rules change meaning when the lookup of a zone answers
\* another key than the policy records for it.
Moved(p, s, a) ==
  IF IsDomainName(s) /\ ParsePublisherArg(p, s) # a
  THEN {a, ParsePublisherArg(p, s)} ELSE {}

\* A lookup answers a key or nothing.
LEMMA AnswerType ==
  \A s \in Slot \cup {NoSlot} : Answer(s) \subseteq Key \cup {None}
<1>1. ASSUME NEW s \in Slot \cup {NoSlot}, IsDomainName(s)
      PROVE  Published[s.of] \subseteq Key
  <2>1. s \in Slot
    BY <1>1, SlotForm
  <2>2. s.of \in Zone
    BY <1>1, <2>1, SlotForm
  <2>. QED  BY <2>2, PolicyRulesAssumption
<1>. QED  BY <1>1 DEF Answer

\* The reference of a request has a slot or none.
LEMMA WrittenSlot ==
  \A r \in Written : /\ r.slot \in Slot \cup {NoSlot} /\ r.name \in AnyName
                     /\ r.tag \in Tag \cup {None}
                     /\ r.slot # NoSlot => r.name \in Name
BY DEF Written, AnyName

\* The zone of a rule is recorded before the rule is added: the rule then means
\* the image of the request, and only the rules of the zone change meaning.
LEMMA RuleMapped ==
  ASSUME NEW p, IsPolicy(p), Meaningful(p), NEW r \in Written, NEW a \in Answer(r.slot),
         ResolveRule(p, r, a).image # None
  PROVE  LET i == ResolveRule(p, r, a).image
             q == SetDnsMapping(p, r.slot, i.publisher)
         IN  /\ IsPolicy(q) /\ Meaningful(q)
             /\ q.seed = p.seed /\ q.follow = p.follow /\ q.pin = p.pin
             /\ ParsePublisherArg(q, r.slot) # None =>
                  i = [publisher |-> ParsePublisherArg(q, r.slot), name |-> r.name,
                       tag |-> r.tag]
             /\ \A t \in Slot \cup {NoSlot} : \A k \in Key \ Moved(p, r.slot, a) :
                  ParsePublisherArg(q, t) = k <=> ParsePublisherArg(p, t) = k
<1>. DEFINE i == ResolveRule(p, r, a).image
            q == SetDnsMapping(p, r.slot, i.publisher)
<1>1. r.slot \in Slot \cup {NoSlot} /\ a \in Key \cup {None}
  BY AnswerType, WrittenSlot
<1>2. CASE IsDomainName(r.slot)
  <2>1. a # None /\ i = [publisher |-> a, name |-> r.name, tag |-> r.tag]
    BY <1>2 DEF ResolveRule
  <2>2. a \in Key /\ i.publisher = a
    BY <1>1, <2>1
  <2>. HIDE DEF i
  <2>3. /\ IsPolicy(q)
        /\ q.seed = p.seed /\ q.follow = p.follow /\ q.pin = p.pin
        /\ \A t \in Slot \cup {NoSlot} :
             ParsePublisherArg(q, t)
               = IF IsDomainName(r.slot) /\ t = r.slot THEN a ELSE ParsePublisherArg(p, t)
    <3>. HIDE DEF q
    <3>1. q = SetDnsMapping(p, r.slot, a)
      BY <2>2 DEF q
    <3>2. r.slot \in Slot \cup {NoSlot} /\ a \in Key
      BY <1>1, <2>2
    <3>. QED  BY <3>1, <3>2, Mapped
  <2>4. Meaningful(q)
    BY <1>1, <2>2, MappedMeaningful
  <2>. HIDE DEF q
  <2>5. ParsePublisherArg(q, r.slot) = a
    BY <1>1, <1>2, <2>3
  <2>6. ASSUME NEW t \in Slot \cup {NoSlot}, NEW k \in Key \ Moved(p, r.slot, a)
        PROVE  ParsePublisherArg(q, t) = k <=> ParsePublisherArg(p, t) = k
    BY <1>2, <2>3 DEF Moved
  <2>. QED  BY <2>1, <2>3, <2>4, <2>5, <2>6 DEF q, i
<1>3. CASE ~IsDomainName(r.slot)
  <2>1. q = p /\ i = ParseImageRef(p, r)
    BY <1>3 DEF SetDnsMapping, ResolveRule
  <2>2. ParsePublisherArg(p, r.slot) # None =>
          ParseImageRef(p, r) = [publisher |-> ParsePublisherArg(p, r.slot),
                                 name |-> r.name, tag |-> r.tag]
    BY DEF ParseImageRef
  <2>. HIDE DEF q, i
  <2>. QED  BY <2>1, <2>2 DEF q, i
<1>. QED  BY <1>2, <1>3

\* POST /_ocid/policy/seed.
LEMMA DaemonSeeded ==
  ASSUME NEW p, IsPolicy(p), Meaningful(p), NEW r \in Written, NEW m \in Mode,
         NEW a \in Answer(r.slot), DaemonSeed(p, r, m, a) # None
  PROVE  LET q == DaemonSeed(p, r, m, a)
             i == ResolveRule(p, r, a).image
         IN  /\ IsPolicy(q) /\ Meaningful(q) /\ r \in Ref
             /\ ParsePublisherArg(q, r.slot) \in Key
             /\ i = [publisher |-> ParsePublisherArg(q, r.slot), name |-> r.name,
                     tag |-> r.tag]
             /\ q.seed = {e \in p.seed : e.ref # r} \cup {[ref |-> r, mode |-> m]}
             /\ q.follow = p.follow /\ q.pin = p.pin
             /\ \A t \in Slot \cup {NoSlot} : \A k \in Key \ Moved(p, r.slot, a) :
                  ParsePublisherArg(q, t) = k <=> ParsePublisherArg(p, t) = k
<1>. DEFINE i == ResolveRule(p, r, a).image
            z == SetDnsMapping(p, r.slot, i.publisher)
            q == DaemonSeed(p, r, m, a)
<1>1. i # None /\ q = AddSeed(z, r, m) /\ q # None
  BY DEF DaemonSeed
<1>2. /\ IsPolicy(z) /\ Meaningful(z)
      /\ z.seed = p.seed /\ z.follow = p.follow /\ z.pin = p.pin
      /\ ParsePublisherArg(z, r.slot) # None =>
           i = [publisher |-> ParsePublisherArg(z, r.slot), name |-> r.name,
                tag |-> r.tag]
      /\ \A t \in Slot \cup {NoSlot} : \A k \in Key \ Moved(p, r.slot, a) :
           ParsePublisherArg(z, t) = k <=> ParsePublisherArg(p, t) = k
  BY <1>1, RuleMapped
<1>. HIDE DEF i, z, q
<1>3. /\ IsPolicy(q) /\ Meaningful(q)
      /\ r \in Ref /\ ParsePublisherArg(z, r.slot) # None
      /\ q.seed = {e \in z.seed : e.ref # r} \cup {[ref |-> r, mode |-> m]}
      /\ q.follow = z.follow /\ q.pin = z.pin /\ q.dns = z.dns
  BY <1>1, <1>2, SeedAdded
<1>4. \A t : ParsePublisherArg(q, t) = ParsePublisherArg(z, t)
  BY <1>3, SameZones
<1>5. ParsePublisherArg(z, r.slot) \in Key
  BY <1>2, <1>3, PublisherArg, WrittenSlot
<1>. QED  BY <1>2, <1>3, <1>4, <1>5 DEF i, q

\* POST /_ocid/policy/pin.
LEMMA DaemonPinned ==
  ASSUME NEW p, IsPolicy(p), Meaningful(p), NEW r \in Written,
         NEW a \in Answer(r.slot), DaemonPin(p, r, a) # None
  PROVE  LET q == DaemonPin(p, r, a)
             i == ResolveRule(p, r, a).image
         IN  /\ IsPolicy(q) /\ Meaningful(q) /\ r \in Ref /\ r.tag # None
             /\ ParsePublisherArg(q, r.slot) \in Key
             /\ i = [publisher |-> ParsePublisherArg(q, r.slot), name |-> r.name,
                     tag |-> r.tag]
             /\ q.pin = p.pin \cup {r}
             /\ q.follow = p.follow /\ q.seed = p.seed
             /\ \A t \in Slot \cup {NoSlot} : \A k \in Key \ Moved(p, r.slot, a) :
                  ParsePublisherArg(q, t) = k <=> ParsePublisherArg(p, t) = k
<1>. DEFINE i == ResolveRule(p, r, a).image
            z == SetDnsMapping(p, r.slot, i.publisher)
            q == DaemonPin(p, r, a)
<1>1. i # None /\ q = AddPin(z, r) /\ q # None
  BY DEF DaemonPin
<1>2. /\ IsPolicy(z) /\ Meaningful(z)
      /\ z.seed = p.seed /\ z.follow = p.follow /\ z.pin = p.pin
      /\ ParsePublisherArg(z, r.slot) # None =>
           i = [publisher |-> ParsePublisherArg(z, r.slot), name |-> r.name,
                tag |-> r.tag]
      /\ \A t \in Slot \cup {NoSlot} : \A k \in Key \ Moved(p, r.slot, a) :
           ParsePublisherArg(z, t) = k <=> ParsePublisherArg(p, t) = k
  BY <1>1, RuleMapped
<1>. HIDE DEF i, z, q
<1>3. /\ IsPolicy(q) /\ Meaningful(q)
      /\ r \in Ref /\ r.tag # None /\ ParsePublisherArg(z, r.slot) # None
      /\ q.pin = z.pin \cup {r}
      /\ q.seed = z.seed /\ q.follow = z.follow /\ q.dns = z.dns
  BY <1>1, <1>2, PinAdded
<1>4. \A t : ParsePublisherArg(q, t) = ParsePublisherArg(z, t)
  BY <1>3, SameZones
<1>5. ParsePublisherArg(z, r.slot) \in Key
  BY <1>2, <1>3, PublisherArg, WrittenSlot
<1>. QED  BY <1>2, <1>3, <1>4, <1>5 DEF i, q

\* POST /_ocid/policy/follow.
LEMMA DaemonFollowed ==
  ASSUME NEW p, IsPolicy(p), Meaningful(p), NEW s \in Slot, NEW m \in Mode,
         NEW a \in Answer(s), DaemonFollow(p, s, m, a) # None
  PROVE  LET q == DaemonFollow(p, s, m, a)
         IN  /\ IsPolicy(q) /\ Meaningful(q)
             /\ FollowMode(q, ResolvePublisherRule(p, s, a)) = m
<1>. DEFINE k == ResolvePublisherRule(p, s, a)
            z == SetDnsMapping(p, s, k)
            q == DaemonFollow(p, s, m, a)
<1>1. k # None /\ q = AddFollow(z, s, m) /\ q # None
  BY DEF DaemonFollow
<1>2. k \in Key
  <2>1. a \in Key \cup {None} /\ (IsKey(s) => s.of \in Key)
    BY AnswerType, SlotForm
  <2>2. \A w \in DOMAIN p.alias : p.alias[w].publisher \in Key
    BY PolicyRulesAssumption DEF IsPolicy, Target
  <2>. QED  BY <1>1, <2>1, <2>2 DEF ResolvePublisherRule
<1>3. IsKey(s) => k = s.of
  BY DEF ResolvePublisherRule
<1>. HIDE DEF k
<1>4. /\ IsPolicy(z)
      /\ ParsePublisherArg(z, s) = IF IsDomainName(s) THEN k ELSE ParsePublisherArg(p, s)
  BY <1>2, Mapped
<1>5. Meaningful(z)
  BY <1>2, MappedMeaningful
<1>. HIDE DEF z, q
<1>6. /\ IsPolicy(q) /\ Meaningful(q)
      /\ FollowMode(q, ParsePublisherArg(z, s)) = m
  BY <1>1, <1>4, <1>5, FollowAdded
<1>7. ParsePublisherArg(z, s) # None
  BY <1>1 DEF AddFollow
<1>8. ParsePublisherArg(z, s) = k
  BY <1>3, <1>4, <1>7, PublisherArg
<1>. QED  BY <1>6, <1>8 DEF q, k

\* Without a daemon a rule is kept as the image it means.
LEMMA OfflineRule ==
  ASSUME NEW p, IsPolicy(p), NEW r \in Written, ResolveOffline(p, r).image # None
  PROVE  ResolveOffline(p, r).rule \in Ref
<1>. DEFINE i == ParseImageRef(p, r)
            key == ParsePublisherArg(p, r.slot)
            alias == IF r.slot = NoSlot THEN r.name[1] ELSE r.slot.of
            target == IF alias \in DOMAIN p.alias THEN p.alias[alias] ELSE None
<1>1. /\ ~IsDomainName(r.slot) /\ i # None
      /\ ResolveOffline(p, r).rule
           = [slot |-> Hex(i.publisher), name |-> i.name, tag |-> i.tag]
  BY DEF ResolveOffline
<1>2. /\ r.slot \in Slot \cup {NoSlot} /\ r.name \in AnyName /\ r.tag \in Tag \cup {None}
      /\ r.slot # NoSlot => r.name \in Name
  BY WrittenSlot
<1>3. i \in Image
  <2>1. CASE key # None
    <3>1. i = [publisher |-> key, name |-> r.name, tag |-> r.tag]
      BY <2>1 DEF ParseImageRef
    <3>2. key \in Key
      BY <1>2, <2>1, PublisherArg
    <3>. QED  BY <1>2, <3>1, <3>2 DEF Image
  <2>2. CASE key = None /\ target # None /\ r.slot = NoSlot /\ target.name # None
    <3>1. i = [publisher |-> target.publisher, name |-> target.name, tag |-> r.tag]
      BY <2>2 DEF ParseImageRef
    <3>2. target \in Target
      BY <2>2 DEF IsPolicy
    <3>3. target.publisher \in Key /\ target.name \in Name
      BY <2>2, <3>2, PolicyRulesAssumption DEF Target
    <3>4. target.name \in AnyName
      BY <3>3 DEF AnyName
    <3>. HIDE DEF i, target
    <3>. QED  BY <1>2, <3>1, <3>3, <3>4 DEF Image
  <2>3. CASE key = None /\ target # None /\ target.name = None
    <3>1. /\ r.slot # NoSlot
          /\ i = [publisher |-> target.publisher, name |-> r.name, tag |-> r.tag]
      BY <1>1, <2>3 DEF ParseImageRef
    <3>2. target \in Target
      BY <2>3 DEF IsPolicy
    <3>3. target.publisher \in Key
      BY <3>2, PolicyRulesAssumption DEF Target
    <3>. QED  BY <1>2, <3>1, <3>3 DEF Image
  <2>4. CASE /\ key = None
             /\ ~(target # None /\ r.slot = NoSlot /\ target.name # None)
             /\ ~(target # None /\ target.name = None)
    <3>. DEFINE n == IF r.slot = NoSlot THEN r.name ELSE <<r.slot.of>> \o r.name
    <3>1. i = [publisher |-> Self, name |-> n, tag |-> r.tag]
      BY <2>4 DEF ParseImageRef
    <3>2. n \in AnyName
      <4>1. CASE r.slot = NoSlot
        BY <1>2, <4>1
      <4>2. CASE r.slot # NoSlot
        <5>1. ~IsKey(r.slot)
          BY <1>2, <2>4, <4>2, PublisherArg, PolicyRulesAssumption
        <5>2. r.slot \in [form : {"word"}, of : Word]
          BY <1>1, <1>2, <4>2, <5>1, PolicyRulesAssumption DEF Slot, IsKey, IsDomainName
        <5>3. n = <<r.slot.of>> \o r.name /\ r.slot.of \in Word /\ r.name \in Name
          BY <1>2, <4>2, <5>2
        <5>. QED  BY <5>3 DEF AnyName
      <4>. QED  BY <4>1, <4>2
    <3>. HIDE DEF n
    <3>. QED  BY <1>2, <3>1, <3>2, PolicyRulesAssumption DEF Image
  <2>. QED  BY <2>1, <2>2, <2>3, <2>4
<1>4. Hex(i.publisher) \in Slot
  BY <1>3, PolicyRulesAssumption DEF Hex, Slot, Image
<1>. QED  BY <1>1, <1>3, <1>4 DEF Ref, Image

-----------------------------------------------------------------------------
\* The invariant: policy.toml is the text of a policy without idle rules.
RulesInv == IsPolicy(policy) /\ Meaningful(policy) /\ file = Save(policy)

\* The requests of a running daemon leave a policy.
LEMMA DaemonKeeps ==
  ASSUME NEW p, IsPolicy(p), Meaningful(p),
         NEW r \in Written, NEW a \in Answer(r.slot),
         NEW q \in {DaemonUnseed(p, r, a), DaemonPin(p, r, a), DaemonUnpin(p, r, a)}
                     \cup {DaemonSeed(p, r, m, a) : m \in Mode}, q # None
  PROVE  IsPolicy(q) /\ Meaningful(q)
<1>1. ASSUME NEW m \in Mode, q = DaemonSeed(p, r, m, a)
      PROVE  IsPolicy(q) /\ Meaningful(q)
  BY <1>1, DaemonSeeded
<1>2. CASE q = DaemonUnseed(p, r, a)
  <2>1. q = RemoveSeed(p, r)
    BY <1>2 DEF DaemonUnseed
  <2>. QED  BY <2>1, SeedRemoved
<1>3. CASE q = DaemonPin(p, r, a)
  BY <1>3, DaemonPinned
<1>4. CASE q = DaemonUnpin(p, r, a)
  <2>1. q = RemovePin(p, r)
    BY <1>4 DEF DaemonUnpin
  <2>. QED  BY <2>1, PinRemoved
<1>. QED  BY <1>1, <1>2, <1>3, <1>4

\* So do the commands without a daemon.
LEMMA OfflineKeeps ==
  ASSUME NEW p, IsPolicy(p), Meaningful(p), NEW r \in Written,
         NEW q \in {OfflineUnseed(p, r), OfflinePin(p, r), OfflineUnpin(p, r)}
                     \cup {OfflineSeed(p, r, m) : m \in Mode}, q # None
  PROVE  IsPolicy(q) /\ Meaningful(q)
<1>. DEFINE rule == ResolveOffline(p, r).rule
<1>1. /\ ResolveOffline(p, r).image # None
      /\ \/ q \in {RemoveSeed(p, rule), AddPin(p, rule), RemovePin(p, rule)}
         \/ \E m \in Mode : q = AddSeed(p, rule, m)
  BY DEF OfflineSeed, OfflineUnseed, OfflinePin, OfflineUnpin
<1>2. rule \in Ref
  BY <1>1, OfflineRule
<1>. HIDE DEF rule
<1>3. ASSUME NEW m \in Mode, q = AddSeed(p, rule, m)
      PROVE  IsPolicy(q) /\ Meaningful(q)
  BY <1>2, <1>3, SeedAdded
<1>4. CASE q = RemoveSeed(p, rule)
  BY <1>2, <1>4, SeedRemoved
<1>5. CASE q = AddPin(p, rule)
  BY <1>2, <1>5, PinAdded
<1>6. CASE q = RemovePin(p, rule)
  BY <1>2, <1>6, PinRemoved
<1>. QED  BY <1>1, <1>3, <1>4, <1>5, <1>6

\* And follow and unfollow, with and without a daemon.
LEMMA FollowKeeps ==
  ASSUME NEW p, IsPolicy(p), Meaningful(p),
         NEW s \in Slot, NEW a \in Answer(s),
         NEW q \in {DaemonUnfollow(p, s, a), OfflineUnfollow(p, s)}
                     \cup {DaemonFollow(p, s, m, a) : m \in Mode}
                     \cup {OfflineFollow(p, s, m) : m \in Mode}, q # None
  PROVE  IsPolicy(q) /\ Meaningful(q)
<1>1. IsKey(s) => Hex(s.of) \in Slot
  BY SlotForm, PolicyRulesAssumption DEF Hex, Slot
<1>2. ASSUME NEW m \in Mode, q = DaemonFollow(p, s, m, a)
      PROVE  IsPolicy(q) /\ Meaningful(q)
  BY <1>2, DaemonFollowed
<1>3. ASSUME NEW m \in Mode, q = OfflineFollow(p, s, m)
      PROVE  IsPolicy(q) /\ Meaningful(q)
  <2>1. IsKey(s) /\ q = AddFollow(p, Hex(s.of), m)
    BY <1>3 DEF OfflineFollow
  <2>. QED  BY <1>1, <2>1, FollowAdded
<1>4. CASE q = DaemonUnfollow(p, s, a)
  <2>1. q = RemoveFollow(p, s)
    BY <1>4 DEF DaemonUnfollow
  <2>. QED  BY <2>1, FollowRemoved
<1>5. CASE q = OfflineUnfollow(p, s)
  <2>1. IsKey(s) /\ q = RemoveFollow(p, Hex(s.of))
    BY <1>5 DEF OfflineUnfollow
  <2>. QED  BY <1>1, <2>1, FollowRemoved
<1>. QED  BY <1>2, <1>3, <1>4, <1>5

\* A saved policy is the policy of the node.
LEMMA Saved ==
  ASSUME NEW q, IsPolicy(q), Meaningful(q), Saves(q)
  PROVE  RulesInv'
<1>1. file' = Save(q)
  BY DEF Saves
<1>2. Load(file') = q
  BY <1>1, ReadBack
<1>. QED  BY <1>1, <1>2 DEF RulesInv, policy

\* `ocictl init` writes a policy without rules.
LEMMA RulesInit == Init => RulesInv
<1>1. IsPolicy(NoRules) /\ Meaningful(NoRules)
  <2>1. <<>> \in Seq(Entry) /\ DOMAIN <<>> = {} /\ IsFiniteSet({})
    BY EmptySeq, FS_EmptySet
  <2>. QED  BY <2>1 DEF IsPolicy, Meaningful, NoRules
<1>2. Load(Save(NoRules)) = NoRules
  BY <1>1, ReadBack
<1>. QED  BY <1>1, <1>2 DEF Init, RulesInv, policy

\* Every request keeps the invariant.
LEMMA RulesStep == RulesInv /\ [Next]_file => RulesInv'
<1>. SUFFICES ASSUME RulesInv, [Next]_file
              PROVE  RulesInv'
  OBVIOUS
<1>. DEFINE p == policy
<1>1. IsPolicy(p) /\ Meaningful(p)
  BY DEF RulesInv
<1>. HIDE DEF p
<1>2. \A t \in ModeText : ParseMode(t) # None => ParseMode(t) \in Mode
  BY DEF Mode
<1>3. CASE Seed \/ Unseed \/ Pin \/ Unpin
  <2>1. PICK r \in Written : \E a \in Answer(r.slot) :
          \E q \in {DaemonUnseed(p, r, a), DaemonPin(p, r, a), DaemonUnpin(p, r, a),
                    OfflineUnseed(p, r), OfflinePin(p, r), OfflineUnpin(p, r)}
                     \cup {DaemonSeed(p, r, m, a) : m \in Mode}
                     \cup {OfflineSeed(p, r, m) : m \in Mode} : Saves(q)
    <3>1. CASE Seed
      BY <1>2, <3>1 DEF Seed, p
    <3>2. CASE Unseed \/ Pin \/ Unpin
      BY <3>2 DEF Unseed, Pin, Unpin, p
    <3>. QED  BY <1>3, <3>1, <3>2
  <2>2. PICK a \in Answer(r.slot) :
          \E q \in {DaemonUnseed(p, r, a), DaemonPin(p, r, a), DaemonUnpin(p, r, a),
                    OfflineUnseed(p, r), OfflinePin(p, r), OfflineUnpin(p, r)}
                     \cup {DaemonSeed(p, r, m, a) : m \in Mode}
                     \cup {OfflineSeed(p, r, m) : m \in Mode} : Saves(q)
    BY <2>1
  <2>3. PICK q \in {DaemonUnseed(p, r, a), DaemonPin(p, r, a), DaemonUnpin(p, r, a),
                    OfflineUnseed(p, r), OfflinePin(p, r), OfflineUnpin(p, r)}
                     \cup {DaemonSeed(p, r, m, a) : m \in Mode}
                     \cup {OfflineSeed(p, r, m) : m \in Mode} : Saves(q)
    BY <2>2
  <2>4. q # None
    BY <2>3 DEF Saves
  <2>5. IsPolicy(q) /\ Meaningful(q)
    BY <1>1, <2>4, DaemonKeeps, OfflineKeeps
  <2>. QED  BY <2>3, <2>5, Saved
<1>4. CASE Follow \/ Unfollow
  <2>1. PICK s \in Slot : \E a \in Answer(s) :
          \E q \in {DaemonUnfollow(p, s, a), OfflineUnfollow(p, s)}
                     \cup {DaemonFollow(p, s, m, a) : m \in Mode}
                     \cup {OfflineFollow(p, s, m) : m \in Mode} : Saves(q)
    <3>1. CASE Follow
      BY <1>2, <3>1 DEF Follow, p
    <3>2. CASE Unfollow
      BY <3>2 DEF Unfollow, p
    <3>. QED  BY <1>4, <3>1, <3>2
  <2>2. PICK a \in Answer(s) :
          \E q \in {DaemonUnfollow(p, s, a), OfflineUnfollow(p, s)}
                     \cup {DaemonFollow(p, s, m, a) : m \in Mode}
                     \cup {OfflineFollow(p, s, m) : m \in Mode} : Saves(q)
    BY <2>1
  <2>3. PICK q \in {DaemonUnfollow(p, s, a), OfflineUnfollow(p, s)}
                     \cup {DaemonFollow(p, s, m, a) : m \in Mode}
                     \cup {OfflineFollow(p, s, m) : m \in Mode} : Saves(q)
    BY <2>2
  <2>4. q # None
    BY <2>3 DEF Saves
  <2>5. IsPolicy(q) /\ Meaningful(q)
    BY <1>1, <2>4, FollowKeeps
  <2>. QED  BY <2>3, <2>5, Saved
<1>5. CASE Track
  <2>1. PICK b \in Alias, t \in Target : Saves(SetAlias(p, b, t))
    BY <1>5 DEF Track, p
  <2>2. IsPolicy(SetAlias(p, b, t)) /\ Meaningful(SetAlias(p, b, t))
    BY <1>1, AliasEdited
  <2>. QED  BY <2>1, <2>2, Saved
<1>6. CASE Untrack
  <2>1. PICK b \in Alias : Saves(RemoveAlias(p, b))
    BY <1>6 DEF Untrack, p
  <2>2. IsPolicy(RemoveAlias(p, b)) /\ Meaningful(RemoveAlias(p, b))
    BY <1>1, AliasEdited
  <2>. QED  BY <2>1, <2>2, Saved
<1>7. CASE UNCHANGED file
  BY <1>7 DEF RulesInv, policy
<1>. QED  BY <1>3, <1>4, <1>5, <1>6, <1>7 DEF Next

\* It holds in every state.
LEMMA RulesAlways == Spec => []RulesInv
BY RulesInit, RulesStep, PTL DEF Spec

\* No sequence of requests leaves a rule in policy.toml that the node would
\* ignore with a warning when it reads the file: neither a zone that a rule was
\* written with ever loses its mapping, nor does a rule without a publisher
\* get in.
THEOREM NoRuleIsEverIgnored == Spec => []NoRuleIgnored
<1>1. RulesInv => NoRuleIgnored
  <2>. SUFFICES ASSUME RulesInv
                PROVE  NoRuleIgnored
    OBVIOUS
  <2>. DEFINE p == policy
  <2>1. IsPolicy(p) /\ Meaningful(p)
    BY DEF RulesInv
  <2>. HIDE DEF p
  <2>2. /\ \A e \in p.seed : e.ref \in Ref
        /\ \A r \in p.pin : r \in Ref
    BY <2>1 DEF IsPolicy, Rule
  <2>3. /\ \A e \in p.seed : ParseSeedRule(p, e.ref) # None
        /\ \A r \in p.pin : ParseSeedRule(p, r) # None
    BY <2>1, <2>2, RuleImage DEF Meaningful
  <2>. QED  BY <2>1, <2>3 DEF NoRuleIgnored, p, Meaningful
<1>. QED  BY <1>1, RulesAlways, PTL

\* The file of any sequence of requests is a policy.
THEOREM RulesAreTyped == Spec => []TypeOK
<1>1. RulesInv => TypeOK
  <2>. SUFFICES ASSUME RulesInv
                PROVE  TypeOK
    OBVIOUS
  <2>. DEFINE p == policy
              Text == {ModeToText(m) : m \in Mode}
              A == {[e EXCEPT !.mode = ModeToText(@)] : e \in p.seed}
              B == [i \in DOMAIN p.follow |-> [p.follow[i] EXCEPT !.mode = ModeToText(@)]]
  <2>1. IsPolicy(p) /\ file = Save(p)
    BY DEF RulesInv
  <2>2. file = [p EXCEPT !.seed = A, !.follow = B]
    BY <2>1 DEF Save
  <2>. HIDE DEF p
  <2>3. A \subseteq [ref : Ref, mode : Text]
    <3>1. \A e \in Rule : [e EXCEPT !.mode = ModeToText(@)] \in [ref : Ref, mode : Text]
      BY DEF Rule
    <3>. QED  BY <2>1, <3>1 DEF IsPolicy
  <2>4. B \in Seq([publisher : Slot, mode : Text])
    <3>1. \A e \in Entry :
            [e EXCEPT !.mode = ModeToText(@)] \in [publisher : Slot, mode : Text]
      BY DEF Entry
    <3>2. /\ Len(p.follow) \in Nat /\ DOMAIN p.follow = 1 .. Len(p.follow)
          /\ \A i \in DOMAIN p.follow : p.follow[i] \in Entry
      <4>1. p.follow \in Seq(Entry)
        BY <2>1 DEF IsPolicy
      <4>. QED  BY <4>1, LenProperties
    <3>. DEFINE e(i) == [p.follow[i] EXCEPT !.mode = ModeToText(@)]
    <3>3. /\ B = [i \in 1 .. Len(p.follow) |-> e(i)]
          /\ \A i \in 1 .. Len(p.follow) : e(i) \in [publisher : Slot, mode : Text]
      BY <3>1, <3>2
    <3>. HIDE DEF B, e, Text
    <3>. QED  BY <3>2, <3>3, IsASeq
  <2>. HIDE DEF A, B
  <2>5. file = [seed |-> A, follow |-> B, pin |-> p.pin, alias |-> p.alias, dns |-> p.dns]
    BY <2>1, <2>2, Assigned DEF IsPolicy
  <2>6. /\ file.seed = A /\ file.follow = B /\ file.pin = p.pin
        /\ file.alias = p.alias /\ file.dns = p.dns
    BY <2>5
  <2>. QED  BY <2>1, <2>3, <2>4, <2>6 DEF TypeOK, IsPolicy
<1>. QED  BY <1>1, RulesAlways, PTL

-----------------------------------------------------------------------------
\* What a policy keeps of an image.

\* The seeds of an image.
SeedsOf(p, k, n) == {e \in p.seed : ParsePublisherArg(p, e.ref.slot) = k /\ e.ref.name = n}

\* The pins of an image.
PinsOf(p, k, n) == {r \in p.pin : ParsePublisherArg(p, r.slot) = k /\ r.name = n}

\* A release is pinned by a pin that means it.
LEMMA PinnedBy ==
  ASSUME NEW p, IsPolicy(p), NEW k \in Key, NEW n, NEW t
  PROVE  IsPinned(p, k, n, t) <=> \E r \in PinsOf(p, k, n) : r.tag = t
<1>1. k # None
  BY PolicyRulesAssumption
<1>2. \A r \in p.pin :
        ParsePublisherArg(p, r.slot) # None =>
          /\ ParseSeedRule(p, r) # None
          /\ ParseSeedRule(p, r) = [publisher |-> ParsePublisherArg(p, r.slot),
                                    name |-> r.name, tag |-> r.tag]
  <2>1. \A r \in p.pin : r \in Ref
    BY DEF IsPolicy
  <2>. QED  BY <2>1, RuleImage
<1>3. \A r \in p.pin : ParsePublisherArg(p, r.slot) = None => ParseSeedRule(p, r) = None
  BY DEF ParseSeedRule
<1>4. ASSUME NEW r \in p.pin, ParsePublisherArg(p, r.slot) = k, r.name = n, r.tag = t
      PROVE  IsPinned(p, k, n, t)
  <2>1. ParseSeedRule(p, r) # None /\ ParseSeedRule(p, r) = [publisher |-> k, name |-> n, tag |-> t]
    BY <1>1, <1>2, <1>4
  <2>. QED  BY <2>1 DEF IsPinned, Pins
<1>5. ASSUME IsPinned(p, k, n, t)
      PROVE  \E r \in PinsOf(p, k, n) : r.tag = t
  <2>1. PICK r \in p.pin : /\ ParseSeedRule(p, r) # None
                           /\ ParseSeedRule(p, r) = [publisher |-> k, name |-> n, tag |-> t]
    BY <1>5 DEF IsPinned, Pins
  <2>2. [publisher |-> ParsePublisherArg(p, r.slot), name |-> r.name, tag |-> r.tag]
          = [publisher |-> k, name |-> n, tag |-> t]
    BY <1>2, <1>3, <2>1
  <2>. HIDE DEF ParsePublisherArg
  <2>3. ParsePublisherArg(p, r.slot) = k /\ r.name = n /\ r.tag = t
    BY <2>2
  <2>. QED  BY <2>3 DEF PinsOf
<1>. QED  BY <1>4, <1>5 DEF PinsOf

\* The window of an image is made of the mode of its publisher and of its
\* seeds and pins.
LEMMA WindowMade ==
  ASSUME NEW p, IsPolicy(p), NEW k \in Key, NEW n
  PROVE  PolicyWindow(p, k, n)
           = WindowOf(({FollowMode(p, k)} \ {None})
                        \cup {e.mode : e \in {e \in SeedsOf(p, k, n) : e.ref.tag = None}},
                      {e.ref.tag : e \in {e \in SeedsOf(p, k, n) : e.ref.tag # None}}
                        \cup {t \in Tag : \E r \in PinsOf(p, k, n) : r.tag = t})
<1>. DEFINE of == {e \in SeedRules(p) :
                     LET r == ParseSeedRule(p, e.ref)
                     IN  r.publisher = k /\ r.name = n}
            P == {t \in Tag : IsPinned(p, k, n, t)}
<1>1. PolicyWindow(p, k, n)
        = WindowOf(({FollowMode(p, k)} \ {None})
                     \cup {e.mode : e \in {e \in of : e.ref.tag = None}},
                   {e.ref.tag : e \in {e \in of : e.ref.tag # None}} \cup P)
  BY DEF PolicyWindow
<1>2. P = {t \in Tag : \E r \in PinsOf(p, k, n) : r.tag = t}
  BY PinnedBy
<1>3. ASSUME NEW e \in p.seed
      PROVE  e \in of <=> e \in SeedsOf(p, k, n)
  <2>1. e.ref \in Ref /\ k # None
    BY PolicyRulesAssumption DEF IsPolicy, Rule
  <2>2. CASE ParsePublisherArg(p, e.ref.slot) = None
    <3>1. ParseSeedRule(p, e.ref) = None
      BY <2>2 DEF ParseSeedRule
    <3>. QED  BY <2>1, <2>2, <3>1 DEF SeedsOf, SeedRules
  <2>3. CASE ParsePublisherArg(p, e.ref.slot) # None
    <3>1. /\ ParseSeedRule(p, e.ref) # None
          /\ ParseSeedRule(p, e.ref) = [publisher |-> ParsePublisherArg(p, e.ref.slot),
                                        name |-> e.ref.name, tag |-> e.ref.tag]
      BY <2>1, <2>3, RuleImage
    <3>2. /\ ParseSeedRule(p, e.ref).publisher = ParsePublisherArg(p, e.ref.slot)
          /\ ParseSeedRule(p, e.ref).name = e.ref.name
      BY <3>1
    <3>. QED  BY <3>1, <3>2 DEF SeedsOf, SeedRules
  <2>. QED  BY <2>2, <2>3
<1>4. of = SeedsOf(p, k, n)
  <2>1. of \subseteq p.seed /\ SeedsOf(p, k, n) \subseteq p.seed
    BY DEF SeedsOf, SeedRules
  <2>. HIDE DEF of
  <2>. QED  BY <1>3, <2>1
<1>. HIDE DEF of, P
<1>. QED  BY <1>1, <1>2, <1>4

\* The modes that make a window are finite in number.
LEMMA WindowModes ==
  ASSUME NEW p, IsPolicy(p), NEW k, NEW n
  PROVE  LET M == ({FollowMode(p, k)} \ {None})
                    \cup {e.mode : e \in {e \in SeedsOf(p, k, n) : e.ref.tag = None}}
         IN  M \in SUBSET Nat /\ IsFiniteSet(M)
<1>. DEFINE S == {e \in SeedsOf(p, k, n) : e.ref.tag = None}
            T == {e.mode : e \in S}
            U == {FollowMode(p, k)} \ {None}
            f == [e \in S |-> e.mode]
<1>1. S \in SUBSET p.seed /\ IsFiniteSet(p.seed) /\ p.seed \subseteq Rule
  BY DEF SeedsOf, IsPolicy
<1>2. f \in Surjection(S, T)
  BY DEF Surjection
<1>3. T \subseteq Mode
  BY <1>1 DEF Rule
<1>4. IsFiniteSet(S)
  <2>. HIDE DEF S
  <2>. QED  BY <1>1, FS_Subset
<1>5. IsFiniteSet(T)
  <2>. HIDE DEF S, T, f
  <2>. QED  BY <1>2, <1>4, FS_Surjection
<1>6. U \subseteq Mode
  BY FollowModeType
<1>7. IsFiniteSet(U)
  <2>1. IsFiniteSet({FollowMode(p, k)}) /\ U \in SUBSET {FollowMode(p, k)}
    BY FS_Singleton
  <2>. HIDE DEF U
  <2>. QED  BY <2>1, FS_Subset
<1>8. IsFiniteSet(U \cup T)
  <2>. HIDE DEF U, T
  <2>. QED  BY <1>5, <1>7, FS_Union
<1>9. U \cup T \subseteq Nat
  <2>. HIDE DEF U, T
  <2>. QED  BY <1>3, <1>6, ModeType
<1>. QED  BY <1>8, <1>9

\* Two policies with the same rules for an image keep the same of it.
LEMMA SameWindow ==
  ASSUME NEW p, IsPolicy(p), NEW q, IsPolicy(q), NEW k \in Key, NEW n,
         q.follow = p.follow,
         \A i \in DOMAIN p.follow :
           ParsePublisherArg(q, p.follow[i].publisher) = k
             <=> ParsePublisherArg(p, p.follow[i].publisher) = k,
         SeedsOf(q, k, n) = SeedsOf(p, k, n), PinsOf(q, k, n) = PinsOf(p, k, n)
  PROVE  PolicyWindow(q, k, n) = PolicyWindow(p, k, n)
<1>1. FollowMode(q, k) = FollowMode(p, k)
  <2>. DEFINE A == {i \in DOMAIN p.follow : ParsePublisherArg(p, p.follow[i].publisher) = k}
              B == {i \in DOMAIN p.follow : ParsePublisherArg(q, p.follow[i].publisher) = k}
              Mode1(at) == IF at = {} THEN None
                           ELSE p.follow[CHOOSE i \in at : \A j \in at : i <= j].mode
  <2>1. \A i : i \in A <=> i \in B
    OBVIOUS
  <2>2. FollowMode(p, k) = Mode1(A)
    BY DEF FollowMode
  <2>3. FollowMode(q, k) = Mode1(B)
    BY DEF FollowMode
  <2>4. A = B
    <3>. HIDE DEF A, B
    <3>. QED  BY <2>1
  <2>. HIDE DEF A, B
  <2>. QED  BY <2>2, <2>3, <2>4
<1>. DEFINE M(f, S) == ({f} \ {None}) \cup {e.mode : e \in {e \in S : e.ref.tag = None}}
            T(S, P) == {e.ref.tag : e \in {e \in S : e.ref.tag # None}}
                         \cup {t \in Tag : \E r \in P : r.tag = t}
<1>2. PolicyWindow(p, k, n) = WindowOf(M(FollowMode(p, k), SeedsOf(p, k, n)),
                                       T(SeedsOf(p, k, n), PinsOf(p, k, n)))
  BY WindowMade
<1>3. PolicyWindow(q, k, n) = WindowOf(M(FollowMode(q, k), SeedsOf(q, k, n)),
                                       T(SeedsOf(q, k, n), PinsOf(q, k, n)))
  BY WindowMade
<1>. HIDE DEF M, T
<1>. QED  BY <1>1, <1>2, <1>3

\* The rules that mean an image stay the same where no publisher moved and
\* no rule for it was added or replaced.
LEMMA SameRules ==
  ASSUME NEW p, IsPolicy(p), NEW q, IsPolicy(q), NEW k \in Key, NEW n, NEW r \in Ref,
         \A t \in Slot : ParsePublisherArg(q, t) = k <=> ParsePublisherArg(p, t) = k,
         ~(ParsePublisherArg(q, r.slot) = k /\ r.name = n),
         q.follow = p.follow,
         \A e \in p.seed \cup q.seed : e.ref # r => (e \in q.seed <=> e \in p.seed),
         \A s \in p.pin \cup q.pin : s # r => (s \in q.pin <=> s \in p.pin)
  PROVE  PolicyWindow(q, k, n) = PolicyWindow(p, k, n)
<1>1. /\ r.slot \in Slot
      /\ \A e \in p.seed \cup q.seed : e.ref.slot \in Slot
      /\ \A s \in p.pin \cup q.pin : s.slot \in Slot
      /\ \A i \in DOMAIN p.follow : p.follow[i].publisher \in Slot
  <2>1. \A i \in DOMAIN p.follow : p.follow[i] \in Entry
    BY DEF IsPolicy
  <2>. QED  BY <2>1 DEF IsPolicy, Rule, Entry, Ref
<1>2. SeedsOf(q, k, n) = SeedsOf(p, k, n)
  BY <1>1 DEF SeedsOf
<1>3. PinsOf(q, k, n) = PinsOf(p, k, n)
  BY <1>1 DEF PinsOf
<1>4. \A i \in DOMAIN p.follow :
        ParsePublisherArg(q, p.follow[i].publisher) = k
          <=> ParsePublisherArg(p, p.follow[i].publisher) = k
  BY <1>1
<1>. QED  BY <1>2, <1>3, <1>4, SameWindow

\* Whatever rules there are already, the request that was answered is in
\* force: the first entry for a followed publisher has the mode, in whatever
\* form it is written, a seeded image is in the window, a pinned release is
\* pinned; so it is when policy.toml is read again.
THEOREM WhatWasAskedIsInForce == Spec => []AskedIsInForce
<1>. DEFINE p == policy
<1>1. RulesInv => IsPolicy(p) /\ Meaningful(p)
  BY DEF RulesInv
<1>. HIDE DEF p
<1>2. ASSUME RulesInv, NEW s \in Slot, NEW m \in Mode, NEW a \in Answer(s)
      PROVE  LET q == DaemonFollow(p, s, m, a)
             IN  q # None =>
                   FollowMode(Reloaded(q), ResolvePublisherRule(p, s, a)) = m
  BY <1>1, <1>2, DaemonFollowed, ReadBack DEF Reloaded
<1>3. ASSUME RulesInv, NEW r \in Written, NEW a \in Answer(r.slot)
      PROVE  LET i == ResolveRule(p, r, a).image
                 q == DaemonPin(p, r, a)
             IN  q # None => IsPinned(Reloaded(q), i.publisher, i.name, i.tag)
  <2>. DEFINE i == ResolveRule(p, r, a).image
              q == DaemonPin(p, r, a)
  <2>. SUFFICES ASSUME q # None
                PROVE  IsPinned(Reloaded(q), i.publisher, i.name, i.tag)
    OBVIOUS
  <2>. DEFINE k == ParsePublisherArg(q, r.slot)
  <2>1. /\ IsPolicy(q) /\ k \in Key /\ r \in q.pin
        /\ i = [publisher |-> k, name |-> r.name, tag |-> r.tag]
    BY <1>1, <1>3, DaemonPinned
  <2>2. Reloaded(q) = q
    BY <2>1, ReadBack DEF Reloaded
  <2>. HIDE DEF i, q
  <2>3. i.publisher = k /\ i.name = r.name /\ i.tag = r.tag
    BY <2>1
  <2>4. r \in PinsOf(q, k, r.name)
    BY <2>1 DEF PinsOf
  <2>. HIDE DEF k
  <2>. QED  BY <2>1, <2>2, <2>3, <2>4, PinnedBy
<1>4. ASSUME RulesInv, NEW r \in Written, NEW a \in Answer(r.slot), NEW m \in Mode
      PROVE  LET i == ResolveRule(p, r, a).image
                 q == DaemonSeed(p, r, m, a)
                 w == PolicyWindow(Reloaded(q), i.publisher, i.name)
             IN  q # None => IF r.tag = None THEN AtLeast(w, m) ELSE r.tag \in w.tags
  <2>. DEFINE i == ResolveRule(p, r, a).image
              q == DaemonSeed(p, r, m, a)
              w == PolicyWindow(Reloaded(q), i.publisher, i.name)
  <2>. SUFFICES ASSUME q # None
                PROVE  IF r.tag = None THEN AtLeast(w, m) ELSE r.tag \in w.tags
    OBVIOUS
  <2>. DEFINE k == ParsePublisherArg(q, r.slot)
              n == r.name
              e == [ref |-> r, mode |-> m]
              M == ({FollowMode(q, k)} \ {None})
                     \cup {d.mode : d \in {d \in SeedsOf(q, k, n) : d.ref.tag = None}}
              T == {d.ref.tag : d \in {d \in SeedsOf(q, k, n) : d.ref.tag # None}}
                     \cup {t \in Tag : \E s \in PinsOf(q, k, n) : s.tag = t}
  <2>1. /\ IsPolicy(q) /\ k \in Key /\ e \in q.seed
        /\ i = [publisher |-> k, name |-> r.name, tag |-> r.tag]
    BY <1>1, <1>4, DaemonSeeded
  <2>2. Reloaded(q) = q
    BY <2>1, ReadBack DEF Reloaded
  <2>3. i.publisher = k /\ i.name = n
    <3>. HIDE DEF i, k
    <3>. QED  BY <2>1
  <2>. HIDE DEF i, q
  <2>4. w = PolicyWindow(q, k, n)
    BY <2>2, <2>3
  <2>5. e \in SeedsOf(q, k, n) /\ e.ref.tag = r.tag /\ e.mode = m
    BY <2>1 DEF SeedsOf
  <2>. HIDE DEF k, w, n, e
  <2>6. w = WindowOf(M, T)
    BY <2>1, <2>4, WindowMade
  <2>7. M \in SUBSET Nat /\ IsFiniteSet(M)
    BY <2>1, WindowModes
  <2>8. (r.tag = None => m \in M) /\ (r.tag # None => r.tag \in T)
    BY <2>5
  <2>. HIDE DEF M, T
  <2>9. /\ (w.full <=> Full \in M) /\ w.tags = T
        /\ \A x \in M : w.last >= x
    BY <2>6, <2>7, Widest
  <2>. QED  BY <2>8, <2>9 DEF AtLeast
<1>5. RulesInv => AskedIsInForce
  <2>. SUFFICES ASSUME RulesInv
                PROVE  AskedIsInForce
    OBVIOUS
  <2>. QED  BY <1>2, <1>3, <1>4 DEF AskedIsInForce, p
<1>. QED  BY <1>5, RulesAlways, PTL

\* An accepted unfollow or unseed leaves no rule that means what was named,
\* however that rule was written and whatever the zone answers by now.
THEOREM WhatWasRemovedIsGone == Spec => []RemovedIsGone
<1>. DEFINE p == policy
<1>1. RulesInv => IsPolicy(p) /\ Meaningful(p)
  BY DEF RulesInv
<1>. HIDE DEF p
<1>2. ASSUME RulesInv, NEW s \in Slot, NEW a \in Answer(s)
      PROVE  LET q == DaemonUnfollow(p, s, a)
             IN  q # None => /\ FollowMode(q, ParsePublisherArg(p, s)) = None
                             /\ \A i \in DOMAIN q.follow : q.follow[i].publisher # s
  <2>1. DaemonUnfollow(p, s, a) # None => DaemonUnfollow(p, s, a) = RemoveFollow(p, s)
    BY DEF DaemonUnfollow
  <2>. QED  BY <1>1, <1>2, <2>1, FollowRemoved
<1>3. ASSUME RulesInv, NEW r \in Written, NEW a \in Answer(r.slot),
             DaemonUnseed(p, r, a) # None,
             NEW e \in SeedRules(DaemonUnseed(p, r, a))
      PROVE  LET i == ParseSeedRule(p, r)
                 j == ParseSeedRule(DaemonUnseed(p, r, a), e.ref)
             IN  j.publisher = i.publisher /\ j.name = i.name => i.tag \notin {None, j.tag}
  <2>. DEFINE q == DaemonUnseed(p, r, a)
              i == ParseSeedRule(p, r)
              j == ParseSeedRule(q, e.ref)
  <2>1. q = RemoveSeed(p, r) /\ e \in q.seed
    BY <1>3 DEF DaemonUnseed, SeedRules
  <2>2. /\ IsPolicy(q) /\ Meaningful(q) /\ q.dns = p.dns
        /\ ParsePublisherArg(p, r.slot) # None
        /\ ~ /\ ParsePublisherArg(p, e.ref.slot) = ParsePublisherArg(p, r.slot)
             /\ e.ref.name = r.name
             /\ r.tag \in {None, e.ref.tag}
    BY <1>1, <1>3, <2>1, SeedRemoved
  <2>3. i = [publisher |-> ParsePublisherArg(p, r.slot), name |-> r.name, tag |-> r.tag]
    BY <1>1, <1>3, <2>2, RuleImage
  <2>4. i.publisher = ParsePublisherArg(p, r.slot) /\ i.name = r.name /\ i.tag = r.tag
    <3>. HIDE DEF i
    <3>. QED  BY <2>3
  <2>. HIDE DEF q
  <2>5. e.ref \in Ref /\ ParsePublisherArg(q, e.ref.slot) # None
    BY <2>1, <2>2 DEF IsPolicy, Meaningful, Rule
  <2>6. j = [publisher |-> ParsePublisherArg(q, e.ref.slot), name |-> e.ref.name,
             tag |-> e.ref.tag]
    BY <2>2, <2>5, RuleImage
  <2>7. ParsePublisherArg(q, e.ref.slot) = ParsePublisherArg(p, e.ref.slot)
    BY <2>2, SameZones
  <2>. HIDE DEF i, j
  <2>8. /\ j.publisher = ParsePublisherArg(p, e.ref.slot) /\ j.name = e.ref.name
        /\ j.tag = e.ref.tag
    BY <2>6, <2>7
  <2>9. j.publisher = i.publisher /\ j.name = i.name => i.tag \notin {None, j.tag}
    BY <2>2, <2>4, <2>8
  <2>. QED  BY <2>9 DEF i, j, q
<1>4. RulesInv => RemovedIsGone
  <2>. SUFFICES ASSUME RulesInv
                PROVE  RemovedIsGone
    OBVIOUS
  <2>. QED  BY <1>2, <1>3 DEF RemovedIsGone, p
<1>. QED  BY <1>4, RulesAlways, PTL

\* An accepted seed or pin changes what is kept of the image it names only,
\* unless a zone moved to another key.
THEOREM NothingElseChanges == Spec => []OnlyWhatWasAsked
<1>. DEFINE p == policy
<1>1. RulesInv => IsPolicy(p) /\ Meaningful(p)
  BY DEF RulesInv
<1>. HIDE DEF p
<1>2. ASSUME RulesInv, NEW r \in Written, NEW a \in Answer(r.slot),
             NEW q \in {DaemonSeed(p, r, m, a) : m \in Mode} \cup {DaemonPin(p, r, a)},
             q # None, NEW k \in Key \ Moved(p, r.slot, a), NEW n,
             PolicyWindow(q, k, n) # PolicyWindow(p, k, n)
      PROVE  k = ResolveRule(p, r, a).image.publisher /\ n = ResolveRule(p, r, a).image.name
  <2>. DEFINE i == ResolveRule(p, r, a).image
  <2>1. /\ IsPolicy(q) /\ r \in Ref
        /\ i = [publisher |-> ParsePublisherArg(q, r.slot), name |-> r.name, tag |-> r.tag]
        /\ q.follow = p.follow
        /\ \A e \in p.seed \cup q.seed : e.ref # r => (e \in q.seed <=> e \in p.seed)
        /\ \A s \in p.pin \cup q.pin : s # r => (s \in q.pin <=> s \in p.pin)
        /\ \A t \in Slot : ParsePublisherArg(q, t) = k <=> ParsePublisherArg(p, t) = k
    <3>1. ASSUME NEW m \in Mode, q = DaemonSeed(p, r, m, a)
          PROVE  <2>1
      BY <1>1, <1>2, <3>1, DaemonSeeded
    <3>2. CASE q = DaemonPin(p, r, a)
      BY <1>1, <1>2, <3>2, DaemonPinned
    <3>. QED  BY <3>1, <3>2
  <2>. HIDE DEF i
  <2>2. i.publisher = ParsePublisherArg(q, r.slot) /\ i.name = r.name
    BY <2>1
  <2>3. ParsePublisherArg(q, r.slot) = k /\ r.name = n
    BY <1>1, <1>2, <2>1, SameRules
  <2>. QED  BY <2>2, <2>3 DEF i
<1>3. RulesInv => OnlyWhatWasAsked
  <2>. SUFFICES ASSUME RulesInv
                PROVE  OnlyWhatWasAsked
    OBVIOUS
  <2>. QED  BY <1>2 DEF OnlyWhatWasAsked, Moved, p
<1>. QED  BY <1>3, RulesAlways, PTL

\* A reference whose zone is looked up as k names an image of k.
LEMMA PulledAs ==
  ASSUME NEW p, NEW r \in Ref, IsDomainName(r.slot), NEW k \in Key
  PROVE  ResolveImageRef(p, r, k) = [publisher |-> k, name |-> r.name, tag |-> r.tag]
<1>. DEFINE h == [r EXCEPT !.slot = Hex(k)]
<1>1. k # None
  BY PolicyRulesAssumption
<1>2. h.slot = Hex(k) /\ h.name = r.name /\ h.tag = r.tag
  <2>. PICK x, y, z : r = [slot |-> x, name |-> y, tag |-> z]
    BY DEF Ref
  <2>1. h = [slot |-> Hex(k), name |-> y, tag |-> z] /\ r.name = y /\ r.tag = z
    OBVIOUS
  <2>. HIDE DEF h
  <2>. QED  BY <2>1
<1>3. ParsePublisherArg(p, Hex(k)) = k
  BY DEF ParsePublisherArg, IsKey, IsDomainName, Hex
<1>4. ResolveImageRef(p, r, k) = ParseImageRef(p, h)
  BY <1>1 DEF ResolveImageRef
<1>. HIDE DEF h
<1>. QED  BY <1>1, <1>2, <1>3, <1>4 DEF ParseImageRef

\* After a seed, a pin or a follow the zone means what it was looked up as.
LEMMA ZoneRecorded ==
  ASSUME NEW p, IsPolicy(p), Meaningful(p), NEW s \in Slot, IsDomainName(s),
         NEW a \in Answer(s) \ {None}, NEW q \in Recorded(p, s, a)
  PROVE  IsPolicy(q) /\ Meaningful(q) /\ a \in Key /\ ParsePublisherArg(q, s) = a
<1>1. a \in Key /\ a # None
  BY AnswerType
<1>2. ASSUME NEW r \in Written, r.slot = s
      PROVE  ResolveRule(p, r, a).image.publisher = a
  <2>1. ResolveRule(p, r, a).image = [publisher |-> a, name |-> r.name, tag |-> r.tag]
    BY <1>1, <1>2 DEF ResolveRule
  <2>. QED  BY <2>1
<1>3. ASSUME NEW r \in Written, r.slot = s, NEW m \in Mode,
             q = DaemonSeed(p, r, m, a), q # None
      PROVE  IsPolicy(q) /\ Meaningful(q) /\ ParsePublisherArg(q, s) = a
  <2>1. /\ IsPolicy(q) /\ Meaningful(q)
        /\ ResolveRule(p, r, a).image = [publisher |-> ParsePublisherArg(q, r.slot),
                                         name |-> r.name, tag |-> r.tag]
    BY <1>3, DaemonSeeded
  <2>2. ParsePublisherArg(q, r.slot) = ResolveRule(p, r, a).image.publisher
    BY <2>1
  <2>. QED  BY <1>2, <1>3, <2>1, <2>2
<1>4. ASSUME NEW r \in Written, r.slot = s, q = DaemonPin(p, r, a), q # None
      PROVE  IsPolicy(q) /\ Meaningful(q) /\ ParsePublisherArg(q, s) = a
  <2>1. /\ IsPolicy(q) /\ Meaningful(q)
        /\ ResolveRule(p, r, a).image = [publisher |-> ParsePublisherArg(q, r.slot),
                                         name |-> r.name, tag |-> r.tag]
    BY <1>4, DaemonPinned
  <2>2. ParsePublisherArg(q, r.slot) = ResolveRule(p, r, a).image.publisher
    BY <2>1
  <2>. QED  BY <1>2, <1>4, <2>1, <2>2
<1>5. ASSUME NEW m \in Mode, ~IsPublisherAlias(p, s),
             q = DaemonFollow(p, s, m, a), q # None
      PROVE  IsPolicy(q) /\ Meaningful(q) /\ ParsePublisherArg(q, s) = a
  <2>1. ResolvePublisherRule(p, s, a) = a
    BY <1>5 DEF ResolvePublisherRule, IsKey, IsDomainName, IsPublisherAlias
  <2>. DEFINE z == SetDnsMapping(p, s, a)
  <2>2. q = AddFollow(z, s, m)
    BY <1>1, <1>5, <2>1 DEF DaemonFollow
  <2>3. IsPolicy(z) /\ Meaningful(z) /\ ParsePublisherArg(z, s) = a
    BY <1>1, Mapped, MappedMeaningful
  <2>. HIDE DEF z
  <2>4. q.dns = z.dns
    BY <1>5, <2>2, <2>3, FollowAdded
  <2>5. ParsePublisherArg(q, s) = ParsePublisherArg(z, s)
    BY <2>4 DEF ParsePublisherArg
  <2>. QED  BY <1>5, <2>3, <2>5, DaemonFollowed
<1>. QED  BY <1>1, <1>3, <1>4, <1>5 DEF Recorded

\* A pull by the text of a rule gets what the rule replicates, or the image of
\* the same name of the publisher that the zone of the rule names by now; and
\* the next seed, pin or follow of the zone brings the two together again
\* (rewrite_dns_publisher, set_dns_mapping).
THEOREM PullsAlwaysFollowTheRecord == Spec => []PullsFollowTheRecord
<1>. DEFINE p == policy
<1>1. RulesInv => IsPolicy(p) /\ Meaningful(p)
  BY DEF RulesInv
<1>. HIDE DEF p
<1>2. ASSUME RulesInv, NEW r \in RuleTexts(p), NEW a \in Answer(r.slot)
      PROVE  ResolveImageRef(p, r, a) =
               [ParseSeedRule(p, r) EXCEPT !.publisher = IF a = None THEN @ ELSE a]
  <2>1. r \in Ref /\ ParsePublisherArg(p, r.slot) # None
    BY <1>1, <1>2 DEF IsPolicy, Meaningful, Rule, RuleTexts
  <2>2. ParseSeedRule(p, r) = [publisher |-> ParsePublisherArg(p, r.slot),
                               name |-> r.name, tag |-> r.tag]
    BY <1>1, <1>2, <2>1, RuleImage
  <2>3. CASE a = None
    <3>1. ResolveImageRef(p, r, a) = ParseImageRef(p, r)
      BY <2>3 DEF ResolveImageRef
    <3>2. ParseImageRef(p, r) = [publisher |-> ParsePublisherArg(p, r.slot),
                                 name |-> r.name, tag |-> r.tag]
      BY <2>1 DEF ParseImageRef
    <3>. QED  BY <2>2, <2>3, <3>1, <3>2
  <2>4. CASE a # None
    <3>1. IsDomainName(r.slot)
      BY <2>4 DEF Answer
    <3>2. a \in Key
      BY <2>1, <2>4, AnswerType DEF Ref
    <3>. QED  BY <2>1, <2>2, <2>4, <3>1, <3>2, PulledAs
  <2>. QED  BY <2>3, <2>4
<1>3. ASSUME RulesInv, NEW s \in Slot, IsDomainName(s), NEW a \in Answer(s) \ {None},
             NEW q \in Recorded(p, s, a), NEW r \in RuleTexts(q), r.slot = s
      PROVE  ResolveImageRef(q, r, a) = ParseSeedRule(q, r)
  <2>1. IsPolicy(q) /\ Meaningful(q) /\ a \in Key /\ ParsePublisherArg(q, s) = a
    BY <1>1, <1>3, ZoneRecorded
  <2>2. r \in Ref /\ ParsePublisherArg(q, r.slot) # None
    BY <1>3, <2>1 DEF IsPolicy, Meaningful, Rule, RuleTexts
  <2>3. ParseSeedRule(q, r) = [publisher |-> a, name |-> r.name, tag |-> r.tag]
    BY <1>3, <2>1, <2>2, RuleImage
  <2>. QED  BY <1>3, <2>1, <2>2, <2>3, PulledAs
<1>4. RulesInv => PullsFollowTheRecord
  <2>. SUFFICES ASSUME RulesInv
                PROVE  PullsFollowTheRecord
    OBVIOUS
  <2>. QED  BY <1>2, <1>3 DEF PullsFollowTheRecord, p
<1>. QED  BY <1>4, RulesAlways, PTL

-----------------------------------------------------------------------------
(***************************************************************************)
(* Retention windows: what a sync fetches the enforcement keeps, and a     *)
(* window of at most two names the newest tags although dedup_by looks at  *)
(* neighbors only.                                                         *)
(***************************************************************************)

\* RetentionTypeOK, and that the store and the inventory are finite.
RetentionInv == RetentionTypeOK /\ IsFiniteSet(local) /\ IsFiniteSet(remote)

\* The widest of finitely many modes.
LEMMA WindowType ==
  ASSUME RetentionTypeOK
  PROVE  window.last \in Nat /\ window.full \in BOOLEAN /\ window.tags = tags
<1>1. modes \in SUBSET Nat /\ IsFiniteSet(modes)
  BY RetentionAssumption, FS_Subset DEF RetentionTypeOK
<1>. QED  BY <1>1, Widest DEF window

\* A pair has numbers.
LEMMA PairType == Pair \subseteq AnyPair
<1>1. ASSUME NEW p \in Pair
      PROVE  p \in AnyPair
  <2>1. p = [tag |-> p.tag, ts |-> p.ts] /\ p.tag \in Tag /\ p.ts \in 1 .. MaxTime
    BY DEF Pair
  <2>2. p.tag \in Nat /\ p.ts \in Nat
    BY <2>1, RetentionAssumption
  <2>. QED  BY <2>1, <2>2 DEF AnyPair
<1>. QED  BY <1>1

\* What is held after the fetches: one pair of a tag, all of them known before.
LEMMA FetchedType ==
  ASSUME RetentionInv
  PROVE  /\ Pairs(local \cup remote) /\ Pairs(Fetched) /\ Pairs(local)
         /\ Wanted \subseteq remote /\ Fetched \subseteq local \cup remote
         /\ Single(Fetched)
<1>1. Wanted \subseteq remote /\ Fetched \subseteq local \cup remote
  BY DEF Wanted, Fetched
<1>2. Pairs(local \cup remote) /\ Pairs(local)
  BY PairType, FS_Union DEF RetentionInv, RetentionTypeOK, Pairs
<1>3. Pairs(Fetched)
  BY <1>1, <1>2, FS_Subset DEF Pairs
<1>4. Single(Fetched)
  <2>1. ASSUME NEW p \in Fetched, NEW q \in Fetched, p.tag = q.tag
        PROVE  p = q
    <3>1. CASE p \in Wanted /\ q \in Wanted
      BY <1>1, <2>1, <3>1 DEF RetentionInv, RetentionTypeOK, Single
    <3>2. CASE p \notin Wanted /\ q \notin Wanted
      BY <2>1, <3>2 DEF Fetched, RetentionInv, RetentionTypeOK, Single
    <3>3. CASE p \in Wanted /\ q \notin Wanted
      BY <2>1, <3>3 DEF Fetched, TagsOf
    <3>4. CASE p \notin Wanted /\ q \in Wanted
      BY <2>1, <3>4 DEF Fetched, TagsOf
    <3>. QED  BY <3>1, <3>2, <3>3, <3>4
  <2>. QED  BY <2>1 DEF Single
<1>. QED  BY <1>1, <1>2, <1>3, <1>4

\* Nothing is known at first.
LEMMA RetentionInvInit == RetentionInit => RetentionInv
  BY FS_EmptySet DEF RetentionInit, RetentionInv, RetentionTypeOK, Single

\* Every step keeps the types and one pair for each tag.
LEMMA RetentionInvStep == RetentionInv /\ [RetentionNext]_retentionVars => RetentionInv'
<1>. SUFFICES ASSUME RetentionInv, [RetentionNext]_retentionVars
              PROVE  RetentionInv'
  OBVIOUS
<1>1. CASE AddMode
  BY <1>1 DEF AddMode, RetentionInv, RetentionTypeOK
<1>2. CASE DropMode
  BY <1>2 DEF DropMode, RetentionInv, RetentionTypeOK
<1>3. CASE AddTag
  BY <1>3 DEF AddTag, RetentionInv, RetentionTypeOK
<1>4. CASE DropTag
  BY <1>4 DEF DropTag, RetentionInv, RetentionTypeOK
<1>5. CASE Report
  <2>1. PICK s \in Pair : s.tag \notin TagsOf(remote) /\ remote' = remote \cup {s}
    BY <1>5 DEF Report
  <2>2. Single(remote')
    BY <2>1 DEF RetentionInv, RetentionTypeOK, Single, TagsOf
  <2>3. IsFiniteSet(remote')
    BY <2>1, FS_AddElement DEF RetentionInv
  <2>. QED  BY <1>5, <2>1, <2>2, <2>3 DEF Report, RetentionInv, RetentionTypeOK
<1>6. CASE Sync
  <2>1. Enforced(Fetched) \subseteq Fetched
    BY DEF Enforced
  <2>2. \/ local' = local
        \/ local' \subseteq Fetched
    BY <1>6, <2>1 DEF Sync
  <2>3. local' \subseteq Pair /\ Single(local') /\ IsFiniteSet(local')
    BY <2>2, FetchedType, FS_Subset DEF RetentionInv, RetentionTypeOK, Single, Pairs
  <2>4. Single(remote') /\ IsFiniteSet(remote') /\ remote' \subseteq Pair
    BY <1>6, FS_EmptySet DEF Sync, Single
  <2>. QED  BY <1>6, <2>3, <2>4 DEF Sync, RetentionInv, RetentionTypeOK
<1>7. CASE Pull
  <2>1. PICK s \in Pair : s.tag \notin TagsOf(local) /\ local' = local \cup {s}
    BY <1>7 DEF Pull
  <2>2. Single(local')
    BY <2>1 DEF RetentionInv, RetentionTypeOK, Single, TagsOf
  <2>3. IsFiniteSet(local')
    BY <2>1, FS_AddElement DEF RetentionInv
  <2>. QED  BY <1>7, <2>1, <2>2, <2>3 DEF Pull, RetentionInv, RetentionTypeOK
<1>8. CASE UNCHANGED retentionVars
  BY <1>8 DEF retentionVars, RetentionInv, RetentionTypeOK
<1>. QED
  BY <1>1, <1>2, <1>3, <1>4, <1>5, <1>6, <1>7, <1>8 DEF RetentionNext

\* So they hold in every state.
LEMMA RetentionAlways == RetentionSpec => []RetentionInv
  BY RetentionInvInit, RetentionInvStep, PTL DEF RetentionSpec

\* Window::select names the fixed tags and the newest ones, as many as the
\* window is wide, whenever it is at most two wide or no tag is known twice.
THEOREM SelectAlwaysExact == RetentionSpec => []SelectExact
<1>1. RetentionInv => SelectExact
  <2>. SUFFICES ASSUME RetentionInv, window.last <= 2 \/ Single(local \cup remote)
                PROVE  Select(window, local \cup remote) = InWindow(window, local \cup remote)
    BY DEF SelectExact
  <2>1. Take(window.last, Deduped(local \cup remote))
          = Take(window.last, Latest(local \cup remote))
    BY WindowType, FetchedType, TakeExact DEF RetentionInv
  <2>. QED  BY <2>1 DEF Select, InWindow
<1>. QED  BY <1>1, RetentionAlways, PTL

\* Of a store with one pair of a tag, no more pairs are before s than there
\* are in the list of Window::select before a pair that s replaces.
LEMMA NoMoreBefore ==
  ASSUME NEW S, Pairs(S), NEW F \in SUBSET S, Single(F),
         NEW p \in S, NEW s \in S, s = p \/ Newer(s, p)
  PROVE  Cardinality({q \in F : Newer(q, s)})
           <= Cardinality({q \in Deduped(S) : Newer(q, p)})
<1>. DEFINE A == {q \in F : Newer(q, s)}
            B == {q \in Deduped(S) : Newer(q, p)}
            Top(q) == CHOOSE m \in Latest(S) : m.tag = q.tag /\ (m = q \/ Newer(m, q))
            f == [q \in A |-> Top(q)]
<1>1. ASSUME NEW q \in A
      PROVE  Top(q) \in B /\ Top(q).tag = q.tag
  <2>1. q \in S /\ Newer(q, s)
    OBVIOUS
  <2>2. \E m \in Latest(S) : m.tag = q.tag /\ (m = q \/ Newer(m, q))
    BY <2>1, LatestOf
  <2>3. Top(q) \in Latest(S) /\ Top(q).tag = q.tag /\ (Top(q) = q \/ Newer(Top(q), q))
    BY <2>2
  <2>. HIDE DEF Top
  <2>4. /\ Top(q) \in Deduped(S) /\ Top(q) \in AnyPair
        /\ q \in AnyPair /\ s \in AnyPair /\ p \in AnyPair
    BY <2>1, <2>3, LatestKept DEF Pairs
  <2>5. Newer(q, p)
    BY <2>1, <2>4, NewerOrder
  <2>6. Newer(Top(q), p)
    BY <2>3, <2>4, <2>5, NewerOrder
  <2>. QED  BY <2>3, <2>4, <2>6
<1>2. \A q, r \in A : q.tag = r.tag => q = r
  BY DEF Single
<1>3. IsFiniteSet(B)
  BY KnownParts, FS_Subset DEF Pairs
<1>. HIDE DEF A, B, Top
<1>4. f \in Injection(A, B)
  BY <1>1, <1>2 DEF Injection, IsInjective
<1>5. Cardinality(A) <= Cardinality(B)
  BY <1>3, <1>4, FS_Injection
<1>. QED  BY <1>5 DEF A, B

\* What is wanted is in the window of the store that it is fetched into.
LEMMA WantedKept ==
  ASSUME RetentionInv, NEW s \in Wanted
  PROVE  s.tag \in Select(window, Fetched)
<1>. DEFINE S == local \cup remote
<1>1. s \in remote /\ s \in Fetched /\ s.tag \in Select(window, S)
  BY DEF Wanted, Fetched
<1>2. CASE s.tag \in window.tags \/ window.full
  BY <1>1, <1>2 DEF Select, TagsOf
<1>3. CASE s.tag \notin window.tags /\ ~window.full
  <2>1. PICK p \in Take(window.last, Deduped(S)) : p.tag = s.tag
    BY <1>1, <1>3 DEF Select, TagsOf
  <2>2. p \in S /\ Cardinality({q \in Deduped(S) : Newer(q, p)}) < window.last
    BY <2>1, FetchedType, LatestKept DEF Take
  <2>3. s = p \/ Newer(s, p)
    BY <1>1, <2>1, <2>2 DEF Wanted, Newer, RetentionInv, RetentionTypeOK, Single
  <2>4. Pairs(S) /\ Pairs(Fetched) /\ Fetched \in SUBSET S /\ Single(Fetched) /\ s \in S
    BY <1>1, FetchedType
  <2>. HIDE DEF S
  <2>5. Cardinality({q \in Fetched : Newer(q, s)})
          <= Cardinality({q \in Deduped(S) : Newer(q, p)})
    BY <2>2, <2>3, <2>4, NoMoreBefore
  <2>6. Cardinality({q \in Fetched : Newer(q, s)}) < window.last
    <3>1. /\ IsFiniteSet({q \in Fetched : Newer(q, s)})
          /\ IsFiniteSet({q \in Deduped(S) : Newer(q, p)})
      BY <2>4, KnownParts, FS_Subset DEF Pairs
    <3>2. /\ Cardinality({q \in Fetched : Newer(q, s)}) \in Nat
          /\ Cardinality({q \in Deduped(S) : Newer(q, p)}) \in Nat
      BY <3>1, FS_CardinalityType
    <3>. QED  BY <2>2, <2>5, <3>2, WindowType DEF RetentionInv
  <2>7. s \in Take(window.last, Deduped(Fetched))
    BY <1>1, <2>4, <2>6, SingleKept DEF Take
  <2>. QED  BY <1>3, <2>7 DEF Select, TagsOf
<1>. QED  BY <1>2, <1>3

\* What a sync fetches (select_wanted), the enforcement right after it keeps
\* (enforce_window), for windows of any width and although dedup_by may let a
\* tag take two places of the list that the choice is made from.
THEOREM NeverThrashes == RetentionSpec => []NoThrash
<1>1. RetentionInv => NoThrash
  <2>. SUFFICES ASSUME RetentionInv, NEW s \in Wanted
                PROVE  s \in Enforced(Fetched)
    BY DEF NoThrash
  <2>. QED  BY WantedKept DEF Enforced, Fetched
<1>. QED  BY <1>1, RetentionAlways, PTL

\* The newest pair of a tag in the window is held after the fetches.
LEMMA LatestFetched ==
  ASSUME RetentionInv, ~IsEmpty(window), NEW l \in Latest(local \cup remote),
         l.tag \in Select(window, local \cup remote)
  PROVE  l \in Fetched
<1>. DEFINE S == local \cup remote
<1>1. S \subseteq AnyPair /\ l \in S /\ \A q \in S : q.tag = l.tag => ~Newer(q, l)
  BY FetchedType DEF Latest, Pairs
<1>2. CASE l \in local
  <2>1. ASSUME l.tag \in TagsOf(Wanted)
        PROVE  FALSE
    <3>1. PICK w \in Wanted : w.tag = l.tag
      BY <2>1 DEF TagsOf
    <3>2. w \in S /\ w.ts > l.ts
      BY <1>2, <3>1 DEF Wanted
    <3>. QED  BY <1>1, <3>1, <3>2 DEF Newer
  <2>. QED  BY <1>2, <2>1 DEF Fetched
<1>3. CASE l \notin local
  <2>1. ASSUME NEW p \in local, p.tag = l.tag
        PROVE  l.ts > p.ts
    <3>1. p \in S /\ p # l /\ ~Newer(p, l)
      BY <1>1, <1>3, <2>1
    <3>2. Newer(l, p)
      BY <1>1, <3>1, NewerOrder
    <3>. QED  BY <1>1, <2>1, <3>1, <3>2 DEF Newer, AnyPair
  <2>. QED  BY <1>1, <1>3, <2>1 DEF Fetched, Wanted
<1>. QED  BY <1>2, <1>3

\* A narrow window keeps it there: who is before it is no more than before.
LEMMA LatestHeld ==
  ASSUME RetentionInv, ~IsEmpty(window), window.last <= 2, NEW l \in Latest(local \cup remote),
         l.tag \in Select(window, local \cup remote)
  PROVE  l \in Enforced(Fetched)
<1>. DEFINE S == local \cup remote
<1>1. l \in Fetched /\ l \in S
  BY LatestFetched DEF Latest
<1>2. Pairs(S) /\ Pairs(Fetched) /\ Fetched \subseteq S
  BY FetchedType
<1>3. CASE l.tag \in window.tags \/ window.full
  BY <1>1, <1>3 DEF Enforced, Select, TagsOf
<1>4. CASE l.tag \notin window.tags /\ ~window.full
  <2>1. PICK x \in Take(window.last, Deduped(S)) : x.tag = l.tag
    BY <1>4 DEF Select, TagsOf
  <2>2. window.last \in {0, 1, 2}
    BY WindowType DEF RetentionInv
  <2>3. x \in S
    BY <1>2, <2>1, LatestKept DEF Take
  <2>4. l \in Latest(S) /\ S \subseteq AnyPair
    BY <1>2 DEF Pairs
  <2>. HIDE DEF S
  <2>5. CASE window.last = 0
    BY <1>2, <2>1, <2>5, KnownParts, TakeNone
  <2>6. CASE window.last = 1
    <3>1. First(S, x)
      BY <1>2, <2>1, <2>6, TopOne
    <3>2. x = l
      BY <1>1, <2>1, <2>3, <2>4, <3>1, NewerOrder DEF First, Latest
    <3>3. First(Fetched, l)
      BY <1>2, <3>1, <3>2 DEF First
    <3>4. l \in Take(1, Deduped(Fetched))
      BY <1>1, <1>2, <3>3, TopOne
    <3>. QED  BY <1>1, <1>4, <2>6, <3>4 DEF Enforced, Select, TagsOf
  <2>7. CASE window.last = 2
    <3>1. Second(S, x)
      BY <1>2, <2>1, <2>7, TopTwo
    <3>2. x = l
      BY <1>1, <2>1, <2>3, <2>4, <3>1, NewerOrder DEF Second, Latest
    <3>3. Second(Fetched, l)
      BY <1>2, <3>1, <3>2 DEF Second
    <3>4. l \in Take(2, Deduped(Fetched))
      BY <1>1, <1>2, <3>3, TopTwo
    <3>. QED  BY <1>1, <1>4, <2>7, <3>4 DEF Enforced, Select, TagsOf
  <2>. QED  BY <2>2, <2>5, <2>6, <2>7
<1>. QED  BY <1>3, <1>4

\* A tag that comes into a narrow window with the enforcement was in it before.
LEMMA NothingNew ==
  ASSUME RetentionInv, ~IsEmpty(window), window.last <= 2, NEW s \in remote,
         s.tag \in Select(window, Enforced(Fetched) \cup remote)
  PROVE  s.tag \in Select(window, local \cup remote)
<1>. DEFINE S == local \cup remote
            after == Enforced(Fetched)
            A == after \cup remote
<1>1. CASE s.tag \in window.tags \/ window.full
  BY <1>1 DEF Select, TagsOf
<1>2. CASE s.tag \notin window.tags /\ ~window.full
  <2>1. after \subseteq Fetched /\ A \subseteq S /\ Pairs(S)
    BY FetchedType DEF Enforced
  <2>2. Pairs(A)
    BY <2>1, FS_Subset DEF Pairs
  <2>3. PICK x \in Take(window.last, Deduped(A)) : x.tag = s.tag
    BY <1>2 DEF Select, TagsOf
  <2>4. x \in A /\ x \in S /\ S \subseteq AnyPair /\ s \in S
    BY <2>1, <2>2, <2>3, LatestKept DEF Take, Pairs
  <2>5. window.last \in {0, 1, 2}
    BY WindowType DEF RetentionInv
  <2>6. \A l \in Latest(S) : l.tag \in Select(window, S) => l \in A
    BY LatestHeld
  <2>7. PICK m \in S : \A q \in S : ~Newer(q, m)
    BY <2>1, <2>4, Newest
  <2>8. First(S, m) /\ Second(S, m) /\ m \in Latest(S)
    BY <2>7 DEF First, Second, Latest
  <2>. HIDE DEF S, A
  <2>9. CASE window.last = 0
    BY <2>2, <2>3, <2>9, KnownParts, TakeNone
  <2>10. CASE window.last = 1
    <3>1. m \in Take(1, Deduped(S))
      BY <2>1, <2>7, <2>8, TopOne
    <3>2. m.tag \in Select(window, S)
      BY <1>2, <2>10, <3>1 DEF Select, TagsOf
    <3>3. First(A, x)
      BY <2>2, <2>3, <2>10, TopOne
    <3>4. x = m
      BY <2>4, <2>6, <2>7, <2>8, <3>2, <3>3, NewerOrder DEF First
    <3>. QED  BY <2>3, <3>2, <3>4 DEF S
  <2>11. CASE window.last = 2
    <3>1. \A p \in S : Second(S, p) => p.tag \in Select(window, S)
      <4>1. \A p \in S : Second(S, p) => p \in Take(2, Deduped(S))
        BY <2>1, TopTwo
      <4>. QED  BY <1>2, <2>11, <4>1 DEF Select, TagsOf
    <3>2. SUFFICES ASSUME s.tag \notin Select(window, S)
                   PROVE  FALSE
      BY DEF S
    <3>3. m.tag \in Select(window, S) /\ m \in A /\ s.tag # m.tag
      BY <2>6, <2>7, <2>8, <3>1, <3>2
    <3>. DEFINE R == {p \in S : p.tag # m.tag}
    <3>4. Pairs(R) /\ R # {} /\ x \in R
      BY <2>1, <2>3, <2>4, <3>3, FS_Subset DEF Pairs
    <3>5. PICK n \in R : \A q \in R : ~Newer(q, n)
      <4>. HIDE DEF R
      <4>. QED  BY <3>4, Newest
    <3>6. Second(S, n) /\ n \in Latest(S)
      BY <3>5 DEF Second, Latest
    <3>7. n.tag \in Select(window, S) /\ n \in A
      BY <2>6, <3>1, <3>5, <3>6
    <3>8. Newer(n, x) /\ Newer(m, x)
      BY <2>3, <2>4, <2>7, <3>2, <3>3, <3>4, <3>5, <3>7, NewerOrder
    <3>9. Second(A, x)
      BY <2>2, <2>3, <2>11, TopTwo
    <3>. QED  BY <3>3, <3>5, <3>7, <3>8, <3>9 DEF Second
  <2>. QED  BY <2>5, <2>9, <2>10, <2>11
<1>. QED  BY <1>1, <1>2

\* A second sync_with on the same inventory finds what it wants already held,
\* for windows of at most two.
THEOREM SyncAlwaysSettles == RetentionSpec => []SyncSettles
<1>1. RetentionInv => SyncSettles
  <2>. SUFFICES ASSUME RetentionInv, window.last <= 2, Wanted # {}, NEW s \in remote,
                       s.tag \in Select(window, Enforced(Fetched) \cup remote)
                PROVE  \E p \in Enforced(Fetched) : p.tag = s.tag /\ p.ts >= s.ts
    BY DEF SyncSettles
  <2>1. ~IsEmpty(window)
    BY DEF Wanted
  <2>2. s.tag \in Select(window, local \cup remote)
    BY <2>1, NothingNew
  <2>3. PICK l \in Latest(local \cup remote) : l.tag = s.tag /\ (l = s \/ Newer(l, s))
    BY FetchedType, LatestOf
  <2>4. l \in Enforced(Fetched)
    BY <2>1, <2>2, <2>3, LatestHeld
  <2>5. l \in AnyPair /\ s \in AnyPair
    BY <2>3, FetchedType DEF Latest, Pairs
  <2>6. l.ts >= s.ts
    BY <2>3, <2>5 DEF Newer, AnyPair
  <2>. QED  BY <2>3, <2>4, <2>6
<1>. QED  BY <1>1, RetentionAlways, PTL

-----------------------------------------------------------------------------
(***************************************************************************)
(* Trust on first use: one key per pin, and no accepted key that a restart *)
(* would forget.                                                           *)
(***************************************************************************)

\* What the requests, the lock, the pins and the file have to do with each other.
DnsInv == DnsTypeOK /\ StepInv /\ PinnedInv /\ SavedInv

\* The daemon starts without pins, requests and history.
LEMMA DnsInvInit == DnsInit => DnsInv
  BY DnsAssumption DEF DnsInit, DnsInv, DnsTypeOK, StepInv, PinnedInv, SavedInv

\* Every step keeps the types and the steps of the requests.
LEMMA DnsTypeStep == DnsTypeOK /\ StepInv /\ [DnsNext]_dnsVars => DnsTypeOK' /\ StepInv'
<1>. SUFFICES ASSUME DnsTypeOK, StepInv, [DnsNext]_dnsVars
              PROVE  DnsTypeOK' /\ StepInv'
  OBVIOUS
<1>. USE DnsAssumption DEF DnsTypeOK, StepInv
<1>1. ASSUME NEW t \in Task, NEW z \in Domain, CacheMiss(t, z)
      PROVE  DnsTypeOK' /\ StepInv'
  BY <1>1 DEF CacheMiss, stores, history
<1>2. ASSUME NEW t \in Task, Lookup(t)
      PROVE  DnsTypeOK' /\ StepInv'
  BY <1>2 DEF Lookup, stores, history
<1>3. ASSUME NEW t \in Task, LookupNothing(t)
      PROVE  DnsTypeOK' /\ StepInv'
  BY <1>3 DEF LookupNothing, Return, history
<1>4. ASSUME NEW t \in Task, Refuse(t)
      PROVE  DnsTypeOK' /\ StepInv'
  BY <1>4 DEF Refuse, Return, stores, history
<1>5. ASSUME NEW t \in Task, Confirm(t)
      PROVE  DnsTypeOK' /\ StepInv'
  BY <1>5 DEF Confirm, stores
<1>6. ASSUME NEW t \in Task, PinKey(t)
      PROVE  DnsTypeOK' /\ StepInv'
  BY <1>6 DEF PinKey, history
<1>7. ASSUME NEW t \in Task, SavePins(t)
      PROVE  DnsTypeOK' /\ StepInv'
  BY <1>7 DEF SavePins
<1>8. ASSUME NEW t \in Task, SaveFail(t)
      PROVE  DnsTypeOK' /\ StepInv'
  BY <1>8 DEF SaveFail, Return, stores
<1>9. ASSUME NEW t \in Task, CacheKey(t)
      PROVE  DnsTypeOK' /\ StepInv'
  BY <1>9 DEF CacheKey, Return, history
<1>10. ASSUME NEW t \in Task, NEW z \in Domain, UnpinZone(t, z)
       PROVE  DnsTypeOK' /\ StepInv'
  BY <1>10 DEF UnpinZone
<1>11. ASSUME NEW t \in Task, Forget(t)
       PROVE  DnsTypeOK' /\ StepInv'
  BY <1>11 DEF Forget, Return, history
<1>12. ASSUME NEW t \in Task, NEW z \in Domain, UnpinFail(t, z)
       PROVE  DnsTypeOK' /\ StepInv'
  BY <1>12 DEF UnpinFail
<1>13. ASSUME NEW z \in Domain, Publish(z)
       PROVE  DnsTypeOK' /\ StepInv'
  BY <1>13 DEF Publish, stores, history
<1>14. ASSUME NEW z \in Domain, Expire(z)
       PROVE  DnsTypeOK' /\ StepInv'
  BY <1>14 DEF Expire, history
<1>15. CASE Restart
  BY <1>15 DEF Restart
<1>16. CASE UNCHANGED dnsVars
  BY <1>16 DEF dnsVars, stores, history
<1>. QED
  BY <1>1, <1>2, <1>3, <1>4, <1>5, <1>6, <1>7, <1>8, <1>9, <1>10, <1>11, <1>12,
     <1>13, <1>14, <1>15, <1>16 DEF DnsNext

\* Every step keeps the pins in line with the accepted keys and with the file.
LEMMA PinStep == DnsInv /\ [DnsNext]_dnsVars => PinnedInv' /\ SavedInv'
<1>. SUFFICES ASSUME DnsInv, [DnsNext]_dnsVars
              PROVE  PinnedInv' /\ SavedInv'
  OBVIOUS
<1>. USE DnsAssumption DEF DnsInv, DnsTypeOK, StepInv, PinnedInv, SavedInv
<1>a. ASSUME UNCHANGED <<pins, disk, lock, history>>,
             NEW t \in Task,
             \A u \in Task \ {t} : pc'[u] = pc[u] /\ zone'[u] = zone[u] /\ found'[u] = found[u],
             pc[t] # "save", pc'[t] # "save"
      PROVE  PinnedInv' /\ SavedInv'
  BY <1>a DEF history
<1>1. ASSUME NEW t \in Task, NEW z \in Domain, CacheMiss(t, z)
      PROVE  PinnedInv' /\ SavedInv'
  BY <1>1, <1>a DEF CacheMiss, stores, history
<1>2. ASSUME NEW t \in Task, Lookup(t)
      PROVE  PinnedInv' /\ SavedInv'
  BY <1>2, <1>a DEF Lookup, stores, history
<1>3. ASSUME NEW t \in Task, LookupNothing(t)
      PROVE  PinnedInv' /\ SavedInv'
  BY <1>3, <1>a DEF LookupNothing, Return, history
<1>4. ASSUME NEW t \in Task, Refuse(t)
      PROVE  PinnedInv' /\ SavedInv'
  BY <1>4, <1>a DEF Refuse, Return, stores, history
<1>5. ASSUME NEW t \in Task, Confirm(t)
      PROVE  PinnedInv' /\ SavedInv'
  BY <1>5 DEF Confirm, stores
<1>6. ASSUME NEW t \in Task, PinKey(t)
      PROVE  PinnedInv' /\ SavedInv'
  BY <1>6 DEF PinKey, history
<1>7. ASSUME NEW t \in Task, SavePins(t)
      PROVE  PinnedInv' /\ SavedInv'
  BY <1>7 DEF SavePins
<1>8. ASSUME NEW t \in Task, SaveFail(t)
      PROVE  PinnedInv' /\ SavedInv'
  BY <1>8 DEF SaveFail, Return, stores
<1>9. ASSUME NEW t \in Task, CacheKey(t)
      PROVE  PinnedInv' /\ SavedInv'
  BY <1>9, <1>a DEF CacheKey, Return, history
<1>10. ASSUME NEW t \in Task, NEW z \in Domain, UnpinZone(t, z)
       PROVE  PinnedInv' /\ SavedInv'
  BY <1>10 DEF UnpinZone
<1>11. ASSUME NEW t \in Task, Forget(t)
       PROVE  PinnedInv' /\ SavedInv'
  BY <1>11 DEF Forget, Return, history
<1>12. ASSUME NEW t \in Task, NEW z \in Domain, UnpinFail(t, z)
       PROVE  PinnedInv' /\ SavedInv'
  BY <1>12 DEF UnpinFail
<1>13. ASSUME NEW z \in Domain, Publish(z)
       PROVE  PinnedInv' /\ SavedInv'
  BY <1>13 DEF Publish, stores, history
<1>14. ASSUME NEW z \in Domain, Expire(z)
       PROVE  PinnedInv' /\ SavedInv'
  BY <1>14 DEF Expire, history
<1>15. CASE Restart
  BY <1>15 DEF Restart
<1>16. CASE UNCHANGED dnsVars
  BY <1>16 DEF dnsVars, stores, history
<1>. QED
  BY <1>1, <1>2, <1>3, <1>4, <1>5, <1>6, <1>7, <1>8, <1>9, <1>10, <1>11, <1>12,
     <1>13, <1>14, <1>15, <1>16 DEF DnsNext

\* The invariant holds in every reachable state.
LEMMA DnsAlways == DnsSpec => []DnsInv
<1>1. DnsInv /\ [DnsNext]_dnsVars => DnsInv'
  BY DnsTypeStep, PinStep DEF DnsInv
<1>. QED  BY <1>1, DnsInvInit, PTL DEF DnsSpec

\* resolve_zone and unpin keep the types of the cache, the pins and the requests.
THEOREM DnsIsTyped == DnsSpec => []DnsTypeOK
<1>1. DnsInv => DnsTypeOK
  BY DEF DnsInv
<1>. QED  BY <1>1, DnsAlways, PTL

\* resolve_zone accepts one key for a zone from one unpin to the next, however
\* many requests race and whatever the zone publishes, unless a restart lost a
\* pin that could not be written.
THEOREM OneKey == DnsSpec => []OneKeyPerPin
<1>1. DnsInv => OneKeyPerPin
  BY DEF DnsInv, PinnedInv, OneKeyPerPin
<1>. QED  BY <1>1, DnsAlways, PTL

\* resolve_zone returns a key only once it is in dns-pins.json.
THEOREM AnswersAreDurable == DnsSpec => []AnswersDurable
<1>1. DnsInv => AnswersDurable
  BY DEF DnsInv, PinnedInv, SavedInv, StepInv, DnsTypeOK, AnswersDurable
<1>. QED  BY <1>1, DnsAlways, PTL
=============================================================================
