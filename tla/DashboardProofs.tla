--------------------------- MODULE DashboardProofs ---------------------------
(***************************************************************************)
(* ocitop and the stream of live events, for any list of releases, any     *)
(* capacities of the channels, any chunks and any keys.                    *)
(***************************************************************************)
EXTENDS Dashboard, FiniteSetTheorems, SequenceTheorems, TLAPS

-----------------------------------------------------------------------------
\* Sequences of tokens: the events in them, and that these are in order.
Events(s) == {e \in ToSet(s) : e > 0}

\* Every event of A was emitted before every one of B.
Before(A, B) == \A a \in A, b \in B : a < b

\* From the oldest event to the newest, and the other way.
Rising(s) ==
  \A i, j \in DOMAIN s : i < j /\ s[i] > 0 /\ s[j] > 0 => s[i] < s[j]
Falling(s) ==
  \A i, j \in DOMAIN s : i < j /\ s[i] > 0 /\ s[j] > 0 => s[j] < s[i]

\* Every frame of a stream is whole.
Framed(s) ==
  /\ 1 \in DOMAIN s => s[1] \in {DataField, Comment}
  /\ \A i \in DOMAIN s : s[i] = DataField =>
       /\ i + 3 \in DOMAIN s
       /\ s[i + 1] > 0 /\ s[i + 2] = NL /\ s[i + 3] = NL
       /\ i + 4 \in DOMAIN s => s[i + 4] \in {DataField, Comment}
  /\ \A i \in DOMAIN s : s[i] = Comment =>
       /\ i + 2 \in DOMAIN s
       /\ s[i + 1] = NL /\ s[i + 2] = NL
       /\ i + 3 \in DOMAIN s => s[i + 3] \in {DataField, Comment}

\* Parts of a stream are joined in any order.
LEMMA JoinedThrice ==
  ASSUME NEW a \in Seq(Int), NEW b \in Seq(Int), NEW c \in Seq(Int)
  PROVE  (a \o b) \o c = a \o (b \o c)
BY ConcatAssociative

\* Two parts of a stream.
LEMMA Joined ==
  ASSUME NEW s \in Seq(Int), NEW t \in Seq(Int)
  PROVE  /\ s \o t \in Seq(Int) /\ Len(s \o t) = Len(s) + Len(t)
         /\ DOMAIN (s \o t) = 1 .. Len(s) + Len(t)
         /\ \A i \in DOMAIN s : i \in DOMAIN (s \o t) /\ (s \o t)[i] = s[i]
         /\ \A i \in DOMAIN t : /\ Len(s) + i \in DOMAIN (s \o t)
                                /\ (s \o t)[Len(s) + i] = t[i]
         /\ \A i \in DOMAIN (s \o t) :
              i \in DOMAIN s \/ \E j \in DOMAIN t : i = Len(s) + j
<1>1. /\ Len(s) \in Nat /\ DOMAIN s = 1 .. Len(s)
      /\ Len(t) \in Nat /\ DOMAIN t = 1 .. Len(t)
  BY LenProperties
<1>2. /\ s \o t \in Seq(Int) /\ Len(s \o t) = Len(s) + Len(t)
      /\ \A i \in 1 .. Len(s) + Len(t) :
           (s \o t)[i] = IF i <= Len(s) THEN s[i] ELSE t[i - Len(s)]
  BY ConcatProperties
<1>3. DOMAIN (s \o t) = 1 .. Len(s) + Len(t)
  BY <1>2, LenProperties
<1>4. \A i \in DOMAIN s : i \in DOMAIN (s \o t) /\ (s \o t)[i] = s[i]
  BY <1>1, <1>2, <1>3
<1>5. ASSUME NEW i \in DOMAIN t
      PROVE  Len(s) + i \in DOMAIN (s \o t) /\ (s \o t)[Len(s) + i] = t[i]
  <2>1. Len(s) + i \in 1 .. Len(s) + Len(t) /\ ~(Len(s) + i <= Len(s))
        /\ (Len(s) + i) - Len(s) = i
    BY <1>1
  <2>. QED  BY <1>2, <1>3, <2>1
<1>6. ASSUME NEW i \in DOMAIN (s \o t), i \notin DOMAIN s
      PROVE  \E j \in DOMAIN t : i = Len(s) + j
  <2>1. i - Len(s) \in DOMAIN t /\ i = Len(s) + (i - Len(s))
    BY <1>1, <1>3, <1>6
  <2>. QED  BY <2>1
<1>. QED  BY <1>2, <1>3, <1>4, <1>5, <1>6

\* The events of two parts, and their order.
LEMMA JoinedEvents ==
  ASSUME NEW s \in Seq(Int), NEW t \in Seq(Int)
  PROVE  /\ Events(s \o t) = Events(s) \cup Events(t)
         /\ ToSet(s \o t) = ToSet(s) \cup ToSet(t)
<1>1. \A x \in ToSet(s) \cup ToSet(t) : x \in ToSet(s \o t)
  <2>1. ASSUME NEW x \in ToSet(s)
        PROVE  x \in ToSet(s \o t)
    <3>1. PICK i \in DOMAIN s : x = s[i]
      BY DEF ToSet
    <3>. QED  BY <3>1, Joined DEF ToSet
  <2>2. ASSUME NEW x \in ToSet(t)
        PROVE  x \in ToSet(s \o t)
    <3>1. PICK i \in DOMAIN t : x = t[i]
      BY DEF ToSet
    <3>2. Len(s) + i \in DOMAIN (s \o t) /\ (s \o t)[Len(s) + i] = x
      BY <3>1, Joined
    <3>. QED  BY <3>2 DEF ToSet
  <2>. QED  BY <2>1, <2>2
<1>2. ASSUME NEW x \in ToSet(s \o t)
      PROVE  x \in ToSet(s) \cup ToSet(t)
  <2>1. PICK i \in DOMAIN (s \o t) : x = (s \o t)[i]
    BY DEF ToSet
  <2>2. CASE i \in DOMAIN s
    BY <2>1, <2>2, Joined DEF ToSet
  <2>3. CASE i \notin DOMAIN s
    <3>1. PICK j \in DOMAIN t : i = Len(s) + j
      BY <2>3, Joined
    <3>2. x = t[j]
      BY <2>1, <3>1, Joined
    <3>. QED  BY <3>2 DEF ToSet
  <2>. QED  BY <2>2, <2>3
<1>3. ToSet(s \o t) = ToSet(s) \cup ToSet(t)
  BY <1>1, <1>2
<1>. QED  BY <1>3 DEF Events

\* The parts are in order if the first is before the second.
LEMMA JoinedRising ==
  ASSUME NEW s \in Seq(Int), NEW t \in Seq(Int), Rising(s), Rising(t),
         Before(Events(s), Events(t))
  PROVE  Rising(s \o t)
<1>. SUFFICES ASSUME NEW i \in DOMAIN (s \o t), NEW j \in DOMAIN (s \o t), i < j,
                     (s \o t)[i] > 0, (s \o t)[j] > 0
              PROVE  (s \o t)[i] < (s \o t)[j]
  BY DEF Rising
<1>1. /\ Len(s) \in Nat /\ DOMAIN s = 1 .. Len(s)
      /\ Len(t) \in Nat /\ DOMAIN t = 1 .. Len(t)
  BY LenProperties
<1>2. CASE j \in DOMAIN s
  <2>1. i \in DOMAIN s
    BY <1>1, <1>2, Joined
  <2>2. (s \o t)[i] = s[i] /\ (s \o t)[j] = s[j]
    BY <1>2, <2>1, Joined
  <2>. QED  BY <1>2, <2>1, <2>2 DEF Rising
<1>3. CASE j \notin DOMAIN s /\ i \in DOMAIN s
  <2>1. PICK h \in DOMAIN t : j = Len(s) + h
    BY <1>3, Joined
  <2>2. (s \o t)[i] = s[i] /\ (s \o t)[j] = t[h]
    BY <1>3, <2>1, Joined
  <2>3. s[i] \in Events(s) /\ t[h] \in Events(t)
    BY <1>3, <2>1, <2>2 DEF Events, ToSet
  <2>. QED  BY <2>2, <2>3 DEF Before
<1>4. CASE j \notin DOMAIN s /\ i \notin DOMAIN s
  <2>1. PICK g \in DOMAIN t : i = Len(s) + g
    BY <1>4, Joined
  <2>2. PICK h \in DOMAIN t : j = Len(s) + h
    BY <1>4, Joined
  <2>3. (s \o t)[i] = t[g] /\ (s \o t)[j] = t[h]
    BY <2>1, <2>2, Joined
  <2>4. g < h
    BY <1>1, <2>1, <2>2
  <2>. QED  BY <2>3, <2>4 DEF Rising
<1>. QED  BY <1>2, <1>3, <1>4

\* What is left when the first n tokens are taken.
LEMMA Cut ==
  ASSUME NEW s \in Seq(Int), NEW n \in 0 .. Len(s)
  PROVE  LET u == SubSeq(s, n + 1, Len(s))
         IN  /\ u \in Seq(Int) /\ Len(u) = Len(s) - n /\ DOMAIN u = 1 .. Len(s) - n
             /\ \A i \in DOMAIN u : n + i \in DOMAIN s /\ u[i] = s[n + i]
             /\ ToSet(u) \subseteq ToSet(s) /\ Events(u) \subseteq Events(s)
             /\ Rising(s) => Rising(u)
<1>. DEFINE u == SubSeq(s, n + 1, Len(s))
<1>1. Len(s) \in Nat /\ DOMAIN s = 1 .. Len(s) /\ n \in Nat /\ n <= Len(s)
  BY LenProperties
<1>2. \A i \in n + 1 .. Len(s) : s[i] \in Int
  BY <1>1, ElementOfSeq
<1>3. /\ u \in Seq(Int)
      /\ Len(u) = IF n + 1 <= Len(s) THEN Len(s) - (n + 1) + 1 ELSE 0
      /\ \A i \in 1 .. Len(s) - (n + 1) + 1 : u[i] = s[(n + 1) + i - 1]
  <2>1. n + 1 \in Int /\ Len(s) \in Int
    BY <1>1
  <2>. HIDE DEF u
  <2>. QED  BY <1>2, <2>1, SubSeqProperties DEF u
<1>. HIDE DEF u
<1>4. Len(u) = Len(s) - n
  <2>1. \A a, b \in Nat : a <= b => (IF a + 1 <= b THEN b - (a + 1) + 1 ELSE 0) = b - a
    OBVIOUS
  <2>. QED  BY <1>1, <1>3, <2>1
<1>5. DOMAIN u = 1 .. Len(s) - n
  BY <1>3, <1>4, LenProperties
<1>6. ASSUME NEW i \in DOMAIN u
      PROVE  n + i \in DOMAIN s /\ u[i] = s[n + i]
  <2>1. i \in 1 .. Len(s) - (n + 1) + 1 /\ (n + 1) + i - 1 = n + i /\ n + i \in 1 .. Len(s)
    BY <1>1, <1>5
  <2>. QED  BY <1>1, <1>3, <2>1
<1>7. ToSet(u) \subseteq ToSet(s)
  BY <1>6 DEF ToSet
<1>8. Events(u) \subseteq Events(s)
  BY <1>7 DEF Events
<1>9. ASSUME Rising(s), NEW i \in DOMAIN u, NEW j \in DOMAIN u, i < j, u[i] > 0, u[j] > 0
      PROVE  u[i] < u[j]
  <2>1. n + i < n + j
    BY <1>1, <1>5, <1>9
  <2>. QED  BY <1>6, <1>9, <2>1 DEF Rising
<1>10. Rising(s) => Rising(u)
  BY <1>9 DEF Rising
<1>. QED  BY <1>3, <1>4, <1>5, <1>6, <1>7, <1>8, <1>10 DEF u

\* A stream is its first token and the rest.
LEMMA Headed ==
  ASSUME NEW s \in Seq(Int), s # <<>>
  PROVE  /\ Head(s) \in Int /\ Tail(s) \in Seq(Int) /\ Len(Tail(s)) = Len(s) - 1
         /\ ToSet(s) = {Head(s)} \cup ToSet(Tail(s))
         /\ Events(s) = {e \in {Head(s)} : e > 0} \cup Events(Tail(s))
         /\ Rising(s) => Rising(Tail(s))
         /\ Rising(s) /\ Head(s) > 0 => Before({Head(s)}, Events(Tail(s)))
<1>1. /\ Len(s) \in Nat /\ DOMAIN s = 1 .. Len(s) /\ Len(s) # 0
  BY LenProperties, EmptySeq
<1>2. /\ Tail(s) = SubSeq(s, 2, Len(s)) /\ Head(s) = s[1] /\ Head(s) \in Int
      /\ 1 \in DOMAIN s
  BY <1>1, TailIsSubSeq
<1>. DEFINE u == SubSeq(s, 1 + 1, Len(s))
<1>3. /\ u \in Seq(Int) /\ Len(u) = Len(s) - 1 /\ DOMAIN u = 1 .. Len(s) - 1
      /\ \A i \in DOMAIN u : 1 + i \in DOMAIN s /\ u[i] = s[1 + i]
      /\ ToSet(u) \subseteq ToSet(s) /\ Events(u) \subseteq Events(s)
      /\ Rising(s) => Rising(u)
  <2>1. 1 \in 0 .. Len(s)
    BY <1>1
  <2>. QED  BY <2>1, Cut
<1>4. Tail(s) = u
  BY <1>2
<1>. HIDE DEF u
<1>5. ToSet(s) \subseteq {s[1]} \cup ToSet(u)
  <2>1. ASSUME NEW i \in DOMAIN s, i # 1
        PROVE  s[i] \in ToSet(u)
    <3>1. i - 1 \in DOMAIN u /\ 1 + (i - 1) = i
      BY <1>1, <1>3, <2>1
    <3>2. u[i - 1] = s[i]
      BY <1>3, <3>1
    <3>. QED  BY <3>1, <3>2 DEF ToSet
  <2>. QED  BY <2>1 DEF ToSet
<1>6. ToSet(s) = {s[1]} \cup ToSet(u)
  BY <1>2, <1>3, <1>5 DEF ToSet
<1>7. Events(s) = {e \in {s[1]} : e > 0} \cup Events(u)
  BY <1>6 DEF Events
<1>8. ASSUME Rising(s), s[1] > 0, NEW b \in Events(u)
      PROVE  s[1] < b
  <2>1. PICK i \in DOMAIN u : b = u[i] /\ u[i] > 0
    BY DEF Events, ToSet
  <2>2. 1 < 1 + i
    BY <1>3
  <2>. QED  BY <1>2, <1>3, <1>8, <2>1, <2>2 DEF Rising
<1>. QED  BY <1>2, <1>3, <1>4, <1>6, <1>7, <1>8 DEF Before

\* The oldest entry leaves a full log, and it is before what stays.
LEMMA LogEvents ==
  ASSUME NEW s \in Seq(Nat), Len(s) <= LogCap, Falling(s), NEW e \in Nat,
         e = 0 \/ Before(Events(s), {e})
  PROVE  LET l == Logged(s, e)
         IN  /\ l \in Seq(Nat) /\ Len(l) <= LogCap /\ Falling(l)
             /\ ToSet(l) \subseteq {e} \cup ToSet(s)
             /\ Events(l) \subseteq {e} \cup Events(s)
             /\ e > 0 => e \in Events(l)
             /\ Before(Events(s) \ Events(l), Events(l))
<1>. DEFINE full == Len(s) >= LogCap
            n == IF full THEN Len(s) - 1 ELSE Len(s)
            k == IF full THEN Front(s) ELSE s
            l == Logged(s, e)
<1>1. Len(s) \in Nat /\ DOMAIN s = 1 .. Len(s) /\ LogCap \in Nat /\ LogCap > 0
  BY LenProperties, DashboardAssumption
<1>2. /\ n \in 0 .. Len(s) /\ k = SubSeq(s, 1, n)
      /\ n < LogCap /\ Len(s) <= n + 1
  <2>1. ~full => s = SubSeq(s, 1, Len(s))
    BY SubSeqFull
  <2>2. full => k = SubSeq(s, 1, Len(s) - 1)
    BY DEF Front
  <2>. QED  BY <1>1, <2>1, <2>2
<1>3. k \in Seq(Nat) /\ Len(k) = n /\ \A i \in 1 .. n : i \in DOMAIN s /\ k[i] = s[i]
  <2>1. n \in Nat /\ n <= Len(s)
    BY <1>1, <1>2
  <2>. HIDE DEF n, k
  <2>2. \A i \in 1 .. n : i \in DOMAIN s /\ s[i] \in Nat
    BY <1>1, <2>1, ElementOfSeq
  <2>3. /\ SubSeq(s, 1, n) \in Seq(Nat)
        /\ Len(SubSeq(s, 1, n)) = IF 1 <= n THEN n - 1 + 1 ELSE 0
        /\ \A i \in 1 .. n - 1 + 1 : SubSeq(s, 1, n)[i] = s[1 + i - 1]
    <3>1. 1 \in Int /\ n \in Int
      BY <2>1
    <3>. QED  BY <2>2, <3>1, SubSeqProperties
  <2>4. \A i \in 1 .. n : i \in 1 .. n - 1 + 1 /\ 1 + i - 1 = i
    BY <2>1
  <2>5. (IF 1 <= n THEN n - 1 + 1 ELSE 0) = n
    BY <2>1
  <2>. QED  BY <1>2, <2>2, <2>3, <2>4, <2>5
<1>4. l = <<e>> \o k
  BY DEF Logged
<1>. HIDE DEF n, k, l
<1>5. /\ l \in Seq(Nat) /\ Len(l) = n + 1 /\ DOMAIN l = 1 .. n + 1
      /\ l[1] = e /\ \A i \in 2 .. n + 1 : l[i] = s[i - 1] /\ i - 1 \in DOMAIN s
  <2>1. <<e>> \in Seq(Nat) /\ Len(<<e>>) = 1
    OBVIOUS
  <2>2. /\ l \in Seq(Nat) /\ Len(l) = 1 + n
        /\ \A i \in 1 .. 1 + n : l[i] = IF i <= 1 THEN <<e>>[i] ELSE k[i - 1]
    BY <1>3, <1>4, <2>1, ConcatProperties
  <2>3. n \in Nat
    BY <1>2
  <2>4. \A i \in 2 .. n + 1 : i \in 1 .. 1 + n /\ ~(i <= 1) /\ i - 1 \in 1 .. n
    BY <2>3
  <2>5. 1 \in 1 .. 1 + n /\ <<e>>[1] = e
    BY <2>3
  <2>6. DOMAIN l = 1 .. n + 1
    BY <2>2, <2>3, LenProperties
  <2>. QED  BY <1>3, <2>2, <2>3, <2>4, <2>5, <2>6
<1>a. n \in Nat /\ \A i \in 1 .. n + 1 : i = 1 \/ i \in 2 .. n + 1
  <2>1. n \in Nat
    BY <1>1, <1>2
  <2>. QED  BY <2>1
<1>6. Len(l) <= LogCap
  BY <1>1, <1>2, <1>5
<1>7. ToSet(l) \subseteq {e} \cup ToSet(s)
  <2>1. \A i \in DOMAIN l : i = 1 \/ i \in 2 .. n + 1
    BY <1>2, <1>5
  <2>. QED  BY <1>5, <2>1 DEF ToSet
<1>8. e > 0 => e \in Events(l)
  <2>1. 1 \in DOMAIN l
    BY <1>a, <1>5
  <2>2. e \in ToSet(l)
    BY <1>5, <2>1 DEF ToSet
  <2>. QED  BY <2>2 DEF Events
<1>9. Falling(l)
  <2>. SUFFICES ASSUME NEW i \in DOMAIN l, NEW j \in DOMAIN l, i < j, l[i] > 0, l[j] > 0
                PROVE  l[j] < l[i]
    BY DEF Falling
  <2>1. j \in 2 .. n + 1 /\ (i = 1 \/ i \in 2 .. n + 1)
    <3>1. i \in 1 .. n + 1 /\ j \in 1 .. n + 1
      BY <1>5
    <3>2. j # 1
      BY <1>a, <3>1
    <3>. QED  BY <1>a, <3>1, <3>2
  <2>2. l[j] = s[j - 1] /\ j - 1 \in DOMAIN s
    BY <1>5, <2>1
  <2>3. CASE i = 1
    <3>1. s[j - 1] \in Events(s) /\ l[i] = e /\ e > 0
      BY <1>5, <2>2, <2>3 DEF Events, ToSet
    <3>. QED  BY <2>2, <3>1 DEF Before
  <2>4. CASE i \in 2 .. n + 1
    <3>1. i - 1 < j - 1
      BY <1>a, <2>1, <2>4
    <3>2. l[i] = s[i - 1] /\ i - 1 \in DOMAIN s
      BY <1>5, <2>4
    <3>. QED  BY <2>2, <3>1, <3>2 DEF Falling
  <2>. QED  BY <2>1, <2>3, <2>4
<1>10. Events(l) \subseteq {e} \cup Events(s)
  BY <1>7 DEF Events
<1>11. ASSUME NEW a \in Events(s) \ Events(l), NEW b \in Events(l)
       PROVE  a < b
  <2>1. PICK i \in DOMAIN s : a = s[i] /\ a > 0
    BY DEF Events, ToSet
  <2>2. \A h \in 1 .. n : h + 1 \in 2 .. n + 1 /\ h + 1 \in DOMAIN l /\ (h + 1) - 1 = h
    BY <1>2, <1>5
  <2>3. \A h \in 1 .. n : s[h] \in ToSet(l)
    <3>1. \A h \in 1 .. n : l[h + 1] = s[h]
      BY <1>5, <2>2
    <3>. QED  BY <2>2, <3>1 DEF ToSet
  <2>4. i \notin 1 .. n
    BY <2>1, <2>3 DEF Events
  <2>5. n < i
    BY <1>1, <1>2, <2>4
  <2>6. CASE b = e
    <3>1. e # 0
      BY <2>6 DEF Events
    <3>. QED  BY <2>6, <3>1 DEF Before
  <2>7. CASE b # e
    <3>1. b \in ToSet(l) /\ b > 0
      BY DEF Events
    <3>2. PICK j \in DOMAIN l : b = l[j] /\ j # 1
      BY <1>5, <2>7, <3>1 DEF ToSet
    <3>3. j \in 2 .. n + 1
      BY <1>a, <1>5, <3>2
    <3>4. b = s[j - 1] /\ j - 1 \in DOMAIN s
      BY <1>5, <3>2, <3>3
    <3>5. j - 1 < i
      BY <1>1, <1>a, <2>5, <3>3
    <3>. QED  BY <2>1, <3>1, <3>4, <3>5 DEF Falling
  <2>. QED  BY <2>6, <2>7
<1>12. Before(Events(s) \ Events(l), Events(l))
  BY <1>11 DEF Before
<1>. QED  BY <1>5, <1>6, <1>7, <1>8, <1>9, <1>10, <1>12 DEF l

\* The buffer is the front of what is on its way.
LEMMA CutJoined ==
  ASSUME NEW b \in Seq(Int), NEW w \in Seq(Int), NEW n \in 0 .. Len(b)
  PROVE  /\ n \in 0 .. Len(b \o w)
         /\ SubSeq(b, n + 1, Len(b)) \o w = SubSeq(b \o w, n + 1, Len(b \o w))
<1>. DEFINE u == SubSeq(b, n + 1, Len(b))
            v == SubSeq(b \o w, n + 1, Len(b \o w))
<1>1. Len(b) \in Nat /\ Len(w) \in Nat /\ Len(b \o w) = Len(b) + Len(w) /\ b \o w \in Seq(Int)
  BY Joined, LenProperties
<1>2. n \in Nat /\ n <= Len(b) /\ n \in 0 .. Len(b \o w)
  BY <1>1
<1>3. /\ u \in Seq(Int) /\ Len(u) = Len(b) - n
      /\ \A i \in 1 .. Len(b) - n : n + i \in DOMAIN b /\ u[i] = b[n + i]
  BY Cut
<1>4. /\ v \in Seq(Int) /\ Len(v) = Len(b \o w) - n
      /\ \A i \in 1 .. Len(b \o w) - n : v[i] = (b \o w)[n + i]
  BY <1>1, <1>2, Cut
<1>. HIDE DEF u, v
<1>5. /\ u \o w \in Seq(Int) /\ Len(u \o w) = Len(u) + Len(w)
      /\ \A i \in 1 .. Len(u) + Len(w) : (u \o w)[i] = IF i <= Len(u) THEN u[i] ELSE w[i - Len(u)]
  BY <1>3, ConcatProperties
<1>6. \A i \in 1 .. Len(b) + Len(w) : (b \o w)[i] = IF i <= Len(b) THEN b[i] ELSE w[i - Len(b)]
  BY ConcatProperties
<1>7. Len(u \o w) = Len(v)
  BY <1>1, <1>2, <1>3, <1>4, <1>5
<1>8. ASSUME NEW i \in 1 .. Len(u \o w)
      PROVE  (u \o w)[i] = v[i]
  <2>1. i \in 1 .. Len(b \o w) - n /\ i \in 1 .. Len(u) + Len(w)
    BY <1>4, <1>5, <1>7
  <2>2. v[i] = (b \o w)[n + i]
    BY <1>4, <2>1
  <2>3. n + i \in 1 .. Len(b) + Len(w)
    BY <1>1, <1>2, <2>1
  <2>4. CASE i <= Len(u)
    <3>1. n + i <= Len(b) /\ i \in 1 .. Len(b) - n
      BY <1>1, <1>2, <1>3, <2>1, <2>4
    <3>. QED  BY <1>3, <1>5, <1>6, <2>1, <2>2, <2>3, <2>4, <3>1
  <2>5. CASE ~(i <= Len(u))
    <3>1. ~(n + i <= Len(b)) /\ (n + i) - Len(b) = i - Len(u)
      BY <1>1, <1>2, <1>3, <2>1, <2>5
    <3>. QED  BY <1>5, <1>6, <2>1, <2>2, <2>3, <2>5, <3>1
  <2>. QED  BY <2>4, <2>5
<1>9. u \o w = v
  BY <1>4, <1>5, <1>7, <1>8, SeqEqual
<1>. QED  BY <1>2, <1>9 DEF u, v

\* Cut at the start of a frame, a stream of whole frames is one.
LEMMA FramedCut ==
  ASSUME NEW s \in Seq(Int), Framed(s), NEW n \in 0 .. Len(s),
         n + 1 \in DOMAIN s => s[n + 1] \in {DataField, Comment}
  PROVE  Framed(SubSeq(s, n + 1, Len(s)))
<1>. DEFINE u == SubSeq(s, n + 1, Len(s))
<1>1. Len(s) \in Nat /\ DOMAIN s = 1 .. Len(s) /\ n \in Nat /\ n <= Len(s)
  BY LenProperties
<1>2. /\ DOMAIN u = 1 .. Len(s) - n
      /\ \A i \in DOMAIN u : n + i \in DOMAIN s /\ u[i] = s[n + i]
  BY Cut
<1>. HIDE DEF u
<1>3. \A i \in Nat : n + i \in DOMAIN s /\ i > 0 => i \in DOMAIN u
  BY <1>1, <1>2
<1>4. 1 \in DOMAIN u => u[1] \in {DataField, Comment}
  BY <1>2
<1>8. \A i \in Nat : i > 0 /\ i + 3 \in DOMAIN u => i + 1 \in DOMAIN u /\ i + 2 \in DOMAIN u
  <2>. DEFINE m == Len(s) - n
  <2>1. m \in Int /\ DOMAIN u = 1 .. m
    BY <1>1, <1>2
  <2>. HIDE DEF m
  <2>2. \A i \in Nat : i > 0 /\ i + 3 \in 1 .. m => i + 1 \in 1 .. m /\ i + 2 \in 1 .. m
    BY <2>1
  <2>. QED  BY <2>1, <2>2, Zenon
<1>9. \A i \in Nat : i > 0 /\ i + 2 \in DOMAIN u => i + 1 \in DOMAIN u
  <2>. DEFINE m == Len(s) - n
  <2>1. m \in Int /\ DOMAIN u = 1 .. m
    BY <1>1, <1>2
  <2>. HIDE DEF m
  <2>2. \A i \in Nat : i > 0 /\ i + 2 \in 1 .. m => i + 1 \in 1 .. m
    BY <2>1
  <2>. QED  BY <2>1, <2>2, Zenon
<1>5. ASSUME NEW i \in DOMAIN u, u[i] = DataField
      PROVE  /\ i + 3 \in DOMAIN u
             /\ u[i + 1] > 0 /\ u[i + 2] = NL /\ u[i + 3] = NL
             /\ i + 4 \in DOMAIN u => u[i + 4] \in {DataField, Comment}
  <2>1. i \in Nat /\ i > 0 /\ n + i \in DOMAIN s
    BY <1>1, <1>2
  <2>2. /\ n + (i + 1) = (n + i) + 1 /\ n + (i + 2) = (n + i) + 2
        /\ n + (i + 3) = (n + i) + 3 /\ n + (i + 4) = (n + i) + 4
    BY <1>1, <2>1
  <2>3. s[n + i] = DataField
    BY <1>2, <1>5
  <2>4. /\ n + (i + 3) \in DOMAIN s
        /\ s[n + (i + 1)] > 0 /\ s[n + (i + 2)] = NL /\ s[n + (i + 3)] = NL
        /\ n + (i + 4) \in DOMAIN s => s[n + (i + 4)] \in {DataField, Comment}
    BY <2>1, <2>2, <2>3 DEF Framed
  <2>5. i + 3 \in DOMAIN u
    BY <1>3, <2>1, <2>4
  <2>6. i + 1 \in DOMAIN u /\ i + 2 \in DOMAIN u
    BY <1>8, <2>1, <2>5
  <2>. QED  BY <1>2, <2>4, <2>5, <2>6
<1>6. ASSUME NEW i \in DOMAIN u, u[i] = Comment
      PROVE  /\ i + 2 \in DOMAIN u
             /\ u[i + 1] = NL /\ u[i + 2] = NL
             /\ i + 3 \in DOMAIN u => u[i + 3] \in {DataField, Comment}
  <2>1. i \in Nat /\ i > 0 /\ n + i \in DOMAIN s
    BY <1>1, <1>2
  <2>2. /\ n + (i + 1) = (n + i) + 1 /\ n + (i + 2) = (n + i) + 2
        /\ n + (i + 3) = (n + i) + 3
    BY <1>1, <2>1
  <2>3. s[n + i] = Comment
    BY <1>2, <1>6
  <2>4. /\ n + (i + 2) \in DOMAIN s
        /\ s[n + (i + 1)] = NL /\ s[n + (i + 2)] = NL
        /\ n + (i + 3) \in DOMAIN s => s[n + (i + 3)] \in {DataField, Comment}
    BY <2>1, <2>2, <2>3 DEF Framed
  <2>5. i + 2 \in DOMAIN u
    BY <1>3, <2>1, <2>4
  <2>6. i + 1 \in DOMAIN u
    BY <1>9, <2>1, <2>5
  <2>. QED  BY <1>2, <2>4, <2>5, <2>6
<1>7. Framed(u)
  BY <1>4, <1>5, <1>6 DEF Framed
<1>. QED  BY <1>7 DEF u

\* listen_sse takes exactly the first frame, with its event if it has one.
LEMMA FirstFrame ==
  ASSUME NEW b \in Seq(Int), NEW w \in Seq(Int), Framed(b \o w), FrameEnd(b) > 0
  PROVE  LET n == FrameEnd(b)
             events == Decode(SubSeq(b, 1, n))
         IN  /\ n \in 2 .. Len(b)
             /\ n + 1 \in DOMAIN (b \o w) => (b \o w)[n + 1] \in {DataField, Comment}
             /\ \A i \in DOMAIN (b \o w) :
                  i <= n /\ (b \o w)[i] > 0 => events = <<(b \o w)[i]>>
             /\ \/ events = <<>>
                \/ \E i \in 1 .. n : (b \o w)[i] > 0 /\ events = <<(b \o w)[i]>>
<1>. DEFINE s == b \o w
            ends == {i \in 2 .. Len(b) : b[i - 1] = NL /\ b[i] = NL}
            n == FrameEnd(b)
            f == SubSeq(b, 1, n)
            events == Decode(f)
<1>1. /\ Len(b) \in Nat /\ DOMAIN b = 1 .. Len(b)
      /\ \A i \in DOMAIN b : i \in DOMAIN s /\ s[i] = b[i]
      /\ DOMAIN s = 1 .. Len(b) + Len(w) /\ Len(w) \in Nat
  BY Joined, LenProperties
<1>. HIDE DEF s
<1>2. n = IF ends = {} THEN 0 ELSE CHOOSE i \in ends : \A j \in ends : i <= j
  BY DEF FrameEnd
<1>3. ends # {}
  BY <1>2
<1>4. \A i \in ends : i \in 2 .. Len(b) /\ s[i - 1] = NL /\ s[i] = NL
  <2>1. \A i \in 2 .. Len(b) : i - 1 \in DOMAIN b /\ i \in DOMAIN b
    BY <1>1
  <2>. QED  BY <1>1, <2>1
<1>5. \A i \in 2 .. Len(b) : s[i - 1] = NL /\ s[i] = NL => i \in ends
  <2>1. \A i \in 2 .. Len(b) : i - 1 \in DOMAIN b /\ i \in DOMAIN b
    BY <1>1
  <2>. QED  BY <1>1, <2>1
<1>6. ASSUME NEW m \in ends, \A j \in ends : m <= j
      PROVE  n = m
  <2>1. \A i \in ends : i \in Nat
    BY <1>1
  <2>2. \A i \in ends : i <= m /\ m <= i => i = m
    BY <2>1
  <2>. HIDE DEF ends, n
  <2>3. \A i \in ends : (\A j \in ends : i <= j) => i = m
    BY <1>6, <2>2
  <2>4. (CHOOSE i \in ends : \A j \in ends : i <= j) = m
    BY <1>6, <2>3
  <2>. QED  BY <1>2, <1>3, <2>4
<1>7. 1 \in DOMAIN s /\ s[1] \in {DataField, Comment}
  <2>1. PICK i \in ends : TRUE
    BY <1>3
  <2>2. 1 \in DOMAIN s
    BY <1>1, <1>4
  <2>. QED  BY <2>2 DEF Framed, s
<1>. HIDE DEF ends
<1>8. CASE s[1] = DataField
  <2>1. /\ s[2] > 0 /\ s[3] = NL /\ s[4] = NL
        /\ 5 \in DOMAIN s => s[5] \in {DataField, Comment}
    <3>1. /\ s[1 + 1] > 0 /\ s[1 + 2] = NL /\ s[1 + 3] = NL
          /\ 1 + 4 \in DOMAIN s => s[1 + 4] \in {DataField, Comment}
      BY <1>7, <1>8 DEF Framed, s
    <3>2. 1 + 1 = 2 /\ 1 + 2 = 3 /\ 1 + 3 = 4 /\ 1 + 4 = 5
      OBVIOUS
    <3>. QED  BY <3>1, <3>2
  <2>2. \A i \in ends : i # 2 /\ i # 3
    <3>1. s[1] # NL /\ s[2] # NL
      BY <1>8, <2>1 DEF DataField, NL
    <3>2. 2 - 1 = 1
      OBVIOUS
    <3>. QED  BY <1>4, <3>1, <3>2
  <2>3. \A i \in ends : 4 <= i /\ i <= Len(b)
    <3>1. \A i \in ends : i \in 2 .. Len(b)
      BY <1>4
    <3>2. \A i \in 2 .. Len(b) : i # 2 /\ i # 3 => 4 <= i /\ i <= Len(b)
      BY <1>1
    <3>. QED  BY <2>2, <3>1, <3>2
  <2>4. 4 \in 2 .. Len(b)
    <3>1. PICK i \in ends : i \in 2 .. Len(b)
      BY <1>3, <1>4
    <3>2. 4 <= i /\ i <= Len(b)
      BY <2>3
    <3>. QED  BY <1>1, <3>1, <3>2
  <2>5. n = 4
    <3>1. 4 - 1 = 3
      OBVIOUS
    <3>2. 4 \in ends
      BY <1>5, <2>1, <2>4, <3>1
    <3>. QED  BY <1>6, <2>3, <3>2
  <2>6. Len(f) = 4 /\ f[1] = DataField /\ f[2] = s[2]
    <3>1. /\ Len(SubSeq(b, 1, 4)) = 4
          /\ SubSeq(b, 1, 4)[1] = b[1] /\ SubSeq(b, 1, 4)[2] = b[2]
      <4>1. \A i \in 1 .. 4 : b[i] \in Int
        BY <1>1, <2>4, ElementOfSeq
      <4>2. /\ Len(SubSeq(b, 1, 4)) = 4 - 1 + 1
            /\ \A i \in 1 .. 4 - 1 + 1 : SubSeq(b, 1, 4)[i] = b[1 + i - 1]
        BY <4>1, SubSeqProperties
      <4>3. 1 \in 1 .. 4 - 1 + 1 /\ 2 \in 1 .. 4 - 1 + 1 /\ 1 + 1 - 1 = 1 /\ 1 + 2 - 1 = 2
            /\ 4 - 1 + 1 = 4
        OBVIOUS
      <4>. QED  BY <4>2, <4>3
    <3>2. 1 \in DOMAIN b /\ 2 \in DOMAIN b
      BY <1>1, <2>4
    <3>. QED  BY <1>1, <1>8, <2>5, <3>1, <3>2
  <2>. HIDE DEF f, n
  <2>7. events = <<s[2]>>
    BY <2>1, <2>6 DEF Decode
  <2>8. ASSUME NEW i \in DOMAIN s, i <= n, s[i] > 0
        PROVE  i = 2
    <3>1. i \in {1, 2, 3, 4}
      BY <1>1, <2>5, <2>8
    <3>2. ~(s[1] > 0) /\ ~(s[3] > 0) /\ ~(s[4] > 0)
      BY <1>8, <2>1 DEF DataField, NL
    <3>. QED  BY <2>8, <3>1, <3>2
  <2>9. n + 1 = 5 /\ 2 \in 1 .. n /\ n \in 2 .. Len(b)
    BY <2>4, <2>5
  <2>. HIDE DEF events
  <2>. QED  BY <2>1, <2>7, <2>8, <2>9 DEF events, f, n, s
<1>9. CASE s[1] = Comment
  <2>1. /\ s[2] = NL /\ s[3] = NL
        /\ 4 \in DOMAIN s => s[4] \in {DataField, Comment}
    <3>1. /\ s[1 + 1] = NL /\ s[1 + 2] = NL
          /\ 1 + 3 \in DOMAIN s => s[1 + 3] \in {DataField, Comment}
      BY <1>7, <1>9 DEF Framed, s
    <3>2. 1 + 1 = 2 /\ 1 + 2 = 3 /\ 1 + 3 = 4
      OBVIOUS
    <3>. QED  BY <3>1, <3>2
  <2>2. \A i \in ends : i # 2
    <3>1. s[1] # NL
      BY <1>9 DEF Comment, NL
    <3>2. 2 - 1 = 1
      OBVIOUS
    <3>. QED  BY <1>4, <3>1, <3>2
  <2>3. \A i \in ends : 3 <= i /\ i <= Len(b)
    <3>1. \A i \in ends : i \in 2 .. Len(b)
      BY <1>4
    <3>2. \A i \in 2 .. Len(b) : i # 2 => 3 <= i /\ i <= Len(b)
      BY <1>1
    <3>. QED  BY <2>2, <3>1, <3>2
  <2>4. 3 \in 2 .. Len(b)
    <3>1. PICK i \in ends : i \in 2 .. Len(b)
      BY <1>3, <1>4
    <3>2. 3 <= i /\ i <= Len(b)
      BY <2>3
    <3>. QED  BY <1>1, <3>1, <3>2
  <2>5. n = 3
    <3>1. 3 - 1 = 2
      OBVIOUS
    <3>2. 3 \in ends
      BY <1>5, <2>1, <2>4, <3>1
    <3>. QED  BY <1>6, <2>3, <3>2
  <2>6. f[1] = Comment
    <3>1. SubSeq(b, 1, 3)[1] = b[1]
      <4>1. \A i \in 1 .. 3 : b[i] \in Int
        BY <1>1, <2>4, ElementOfSeq
      <4>2. \A i \in 1 .. 3 - 1 + 1 : SubSeq(b, 1, 3)[i] = b[1 + i - 1]
        BY <4>1, SubSeqProperties
      <4>3. 1 \in 1 .. 3 - 1 + 1 /\ 1 + 1 - 1 = 1
        OBVIOUS
      <4>. QED  BY <4>2, <4>3
    <3>2. 1 \in DOMAIN b
      BY <1>1, <2>4
    <3>. QED  BY <1>1, <1>9, <2>5, <3>1, <3>2
  <2>. HIDE DEF f, n
  <2>7. events = <<>>
    BY <2>6 DEF Decode, Comment, DataField
  <2>8. ASSUME NEW i \in DOMAIN s, i <= n, s[i] > 0
        PROVE  FALSE
    <3>1. i \in {1, 2, 3}
      BY <1>1, <2>5, <2>8
    <3>2. ~(s[1] > 0) /\ ~(s[2] > 0) /\ ~(s[3] > 0)
      BY <1>9, <2>1 DEF Comment, NL
    <3>. QED  BY <2>8, <3>1, <3>2
  <2>9. n + 1 = 4 /\ n \in 2 .. Len(b)
    BY <2>4, <2>5
  <2>. HIDE DEF events
  <2>. QED  BY <2>1, <2>7, <2>8, <2>9 DEF events, f, n, s
<1>. QED  BY <1>7, <1>8, <1>9

\* Nothing, and one token.
LEMMA FewTokens ==
  /\ <<>> \in Seq(Int) /\ Events(<<>>) = {} /\ ToSet(<<>>) = {}
  /\ Rising(<<>>) /\ Falling(<<>>) /\ Framed(<<>>)
  /\ \A e \in Nat \ {0} : /\ <<e>> \in Seq(Int) /\ Events(<<e>>) = {e}
                          /\ ToSet(<<e>>) = {e} /\ Rising(<<e>>)
<1>1. <<>> \in Seq(Int) /\ DOMAIN <<>> = {}
  OBVIOUS
<1>2. Events(<<>>) = {} /\ ToSet(<<>>) = {}
  BY <1>1 DEF Events, ToSet
<1>3. Rising(<<>>) /\ Falling(<<>>) /\ Framed(<<>>)
  BY <1>1 DEF Rising, Falling, Framed
<1>4. ASSUME NEW e \in Nat \ {0}
      PROVE  /\ <<e>> \in Seq(Int) /\ Events(<<e>>) = {e}
             /\ ToSet(<<e>>) = {e} /\ Rising(<<e>>)
  <2>1. <<e>> \in Seq(Int) /\ DOMAIN <<e>> = {1} /\ <<e>>[1] = e
    OBVIOUS
  <2>2. ToSet(<<e>>) = {e}
    BY <2>1 DEF ToSet
  <2>3. Events(<<e>>) = {e}
    BY <2>2 DEF Events
  <2>4. Rising(<<e>>)
    <3>1. ~(1 < 1)
      OBVIOUS
    <3>. QED  BY <2>1, <3>1 DEF Rising
  <2>. QED  BY <2>1, <2>2, <2>3, <2>4
<1>. QED  BY <1>1, <1>2, <1>3, <1>4

\* A stream stays one of whole frames when the next is sent.
LEMMA FrameSent ==
  ASSUME NEW s \in Seq(Int), Framed(s), NEW e \in Nat \ {0}
  PROVE  /\ Frame(e) \in Seq(Int) /\ Len(Frame(e)) = 4
         /\ ToSet(Frame(e)) = {DataField, e, NL} /\ Events(Frame(e)) = {e}
         /\ Rising(Frame(e)) /\ Framed(s \o Frame(e))
<1>. DEFINE t == Frame(e)
<1>1. /\ t \in Seq(Int) /\ Len(t) = 4 /\ DOMAIN t = 1 .. 4
      /\ t[1] = DataField /\ t[2] = e /\ t[3] = NL /\ t[4] = NL
  BY DEF Frame, DataField, NL
<1>2. DOMAIN t = {1, 2, 3, 4}
  BY <1>1
<1>. HIDE DEF t
<1>3. ToSet(t) = {DataField, e, NL}
  BY <1>1, <1>2 DEF ToSet
<1>4. Events(t) = {e}
  BY <1>3 DEF Events, DataField, NL
<1>5. Rising(t)
  <2>1. \A i \in DOMAIN t : t[i] > 0 => i = 2
    BY <1>1, <1>2 DEF DataField, NL
  <2>2. \A i, j \in DOMAIN t : t[i] > 0 /\ t[j] > 0 => ~(i < j)
    BY <2>1
  <2>. QED  BY <2>2 DEF Rising
<1>. DEFINE u == s \o t
            m == Len(s)
<1>6. m \in Nat /\ DOMAIN s = 1 .. m
  BY LenProperties
<1>7. /\ DOMAIN u = 1 .. m + 4 /\ \A i \in DOMAIN s : i \in DOMAIN u /\ u[i] = s[i]
      /\ u[m + 1] = DataField /\ u[m + 2] = e /\ u[m + 3] = NL /\ u[m + 4] = NL
  <2>1. \A i \in DOMAIN t : u[m + i] = t[i]
    BY <1>1, Joined
  <2>2. 1 \in DOMAIN t /\ 2 \in DOMAIN t /\ 3 \in DOMAIN t /\ 4 \in DOMAIN t
    BY <1>2
  <2>3. DOMAIN u = 1 .. m + 4
    <3>1. DOMAIN u = 1 .. m + Len(t)
      BY <1>1, Joined
    <3>. HIDE DEF u, m
    <3>. QED  BY <1>1, <3>1
  <2>4. \A i \in DOMAIN s : i \in DOMAIN u /\ u[i] = s[i]
    BY <1>1, Joined
  <2>. HIDE DEF u, m
  <2>. QED  BY <1>1, <2>1, <2>2, <2>3, <2>4
<1>. HIDE DEF u, m
<1>8. \A i \in DOMAIN u : i \in DOMAIN s \/ i = m + 1 \/ i = m + 2 \/ i = m + 3 \/ i = m + 4
  <2>1. \A i \in 1 .. m + 4 :
          i \in 1 .. m \/ i = m + 1 \/ i = m + 2 \/ i = m + 3 \/ i = m + 4
    BY <1>6
  <2>. QED  BY <1>6, <1>7, <2>1
<1>9. ASSUME NEW i \in Nat, i \in DOMAIN u, i \in DOMAIN s => s[i] \in {DataField, Comment},
             i - 1 \in DOMAIN s \/ i = m + 1
      PROVE  u[i] \in {DataField, Comment}
  <2>1. i \in DOMAIN s \/ i = m + 1
    BY <1>6, <1>9
  <2>. QED  BY <1>7, <1>9, <2>1
<1>10. 1 \in DOMAIN u => u[1] \in {DataField, Comment}
  <2>1. 1 \in DOMAIN s \/ 1 = m + 1
    BY <1>6
  <2>. QED  BY <1>7, <2>1 DEF Framed
<1>11. ASSUME NEW i \in DOMAIN u, u[i] = DataField
       PROVE  /\ i + 3 \in DOMAIN u
              /\ u[i + 1] > 0 /\ u[i + 2] = NL /\ u[i + 3] = NL
              /\ i + 4 \in DOMAIN u => u[i + 4] \in {DataField, Comment}
  <2>1. i \in DOMAIN s \/ i = m + 1
    BY <1>7, <1>8, <1>11 DEF DataField, NL
  <2>2. CASE i = m + 1
    <3>1. /\ i + 1 = m + 2 /\ i + 2 = m + 3 /\ i + 3 = m + 4 /\ i + 3 \in 1 .. m + 4
          /\ i + 4 \notin 1 .. m + 4
      BY <1>6, <2>2
    <3>. QED  BY <1>7, <3>1
  <2>3. CASE i \in DOMAIN s
    <3>1. s[i] = DataField
      BY <1>7, <1>11, <2>3
    <3>2. /\ i + 3 \in DOMAIN s
          /\ s[i + 1] > 0 /\ s[i + 2] = NL /\ s[i + 3] = NL
          /\ i + 4 \in DOMAIN s => s[i + 4] \in {DataField, Comment}
      BY <2>3, <3>1 DEF Framed
    <3>3. /\ i + 1 \in DOMAIN s /\ i + 2 \in DOMAIN s
          /\ i + 4 \in Nat /\ (i + 4) - 1 = i + 3
      <4>1. i \in 1 .. m /\ i + 3 \in 1 .. m
        BY <1>6, <2>3, <3>2
      <4>2. \A j \in 1 .. m : j + 3 \in 1 .. m =>
              /\ j + 1 \in 1 .. m /\ j + 2 \in 1 .. m
              /\ j + 4 \in Nat /\ (j + 4) - 1 = j + 3
        <5>1. \A k \in Nat : \A j \in 1 .. k : j + 3 \in 1 .. k =>
                /\ j + 1 \in 1 .. k /\ j + 2 \in 1 .. k
                /\ j + 4 \in Nat /\ (j + 4) - 1 = j + 3
          OBVIOUS
        <5>. QED  BY <1>6, <5>1
      <4>. QED  BY <1>6, <4>1, <4>2, Zenon
    <3>. QED  BY <1>7, <1>9, <3>2, <3>3
  <2>. QED  BY <2>1, <2>2, <2>3
<1>12. ASSUME NEW i \in DOMAIN u, u[i] = Comment
       PROVE  /\ i + 2 \in DOMAIN u
              /\ u[i + 1] = NL /\ u[i + 2] = NL
              /\ i + 3 \in DOMAIN u => u[i + 3] \in {DataField, Comment}
  <2>1. i \in DOMAIN s
    BY <1>7, <1>8, <1>12 DEF DataField, NL, Comment
  <2>2. s[i] = Comment
    BY <1>7, <1>12, <2>1
  <2>3. /\ i + 2 \in DOMAIN s
        /\ s[i + 1] = NL /\ s[i + 2] = NL
        /\ i + 3 \in DOMAIN s => s[i + 3] \in {DataField, Comment}
    BY <2>1, <2>2 DEF Framed
  <2>4. i + 1 \in DOMAIN s /\ i + 3 \in Nat /\ (i + 3) - 1 = i + 2
    BY <1>6, <2>1, <2>3
  <2>. QED  BY <1>7, <1>9, <2>3, <2>4
<1>13. Framed(u)
  BY <1>10, <1>11, <1>12 DEF Framed
<1>. QED  BY <1>1, <1>3, <1>4, <1>5, <1>13 DEF t, u

\* A stream of one comment.
LEMMA CommentSent ==
  /\ KeepAliveFrame \in Seq(Int) /\ Len(KeepAliveFrame) = 3
  /\ ToSet(KeepAliveFrame) = {Comment, NL} /\ Events(KeepAliveFrame) = {}
  /\ Rising(KeepAliveFrame) /\ Framed(KeepAliveFrame)
<1>. DEFINE t == KeepAliveFrame
<1>1. /\ t \in Seq(Int) /\ Len(t) = 3 /\ DOMAIN t = 1 .. 3
      /\ t[1] = Comment /\ t[2] = NL /\ t[3] = NL
  BY DEF KeepAliveFrame, Comment, NL
<1>2. DOMAIN t = {1, 2, 3}
  BY <1>1
<1>. HIDE DEF t
<1>3. ToSet(t) = {Comment, NL}
  BY <1>1, <1>2 DEF ToSet
<1>4. Events(t) = {}
  BY <1>3 DEF Events, Comment, NL
<1>5. Rising(t)
  BY <1>1, <1>2 DEF Rising, Comment, NL
<1>6. \A i \in DOMAIN t : t[i] # DataField /\ (t[i] = Comment => i = 1)
  BY <1>1, <1>2 DEF DataField, Comment, NL
<1>7. /\ 1 + 1 = 2 /\ 1 + 2 = 3 /\ 1 + 3 \notin DOMAIN t /\ 3 \in DOMAIN t
  BY <1>1
<1>8. Framed(t)
  BY <1>1, <1>6, <1>7 DEF Framed
<1>. QED  BY <1>1, <1>3, <1>4, <1>5, <1>8 DEF t

\* The log, read backwards, is in order.
LEMMA ReversedLog ==
  ASSUME NEW s \in Seq(Nat), Falling(s)
  PROVE  /\ Reverse(s) \in Seq(Int) /\ Events(Reverse(s)) = Events(s)
         /\ Rising(Reverse(s))
<1>. DEFINE n == Len(s)
            r == Reverse(s)
<1>1. n \in Nat /\ DOMAIN s = 1 .. n
  BY LenProperties
<1>2. \A i \in 1 .. n : (n - i) + 1 \in 1 .. n
  BY <1>1
<1>3. DOMAIN r = 1 .. n /\ \A i \in 1 .. n : r[i] = s[(n - i) + 1]
  BY DEF Reverse
<1>4. r \in Seq(Int)
  <2>. DEFINE e(i) == s[(n - i) + 1]
  <2>1. \A i \in 1 .. n : e(i) \in Int
    <3>1. \A i \in 1 .. n : s[i] \in Nat
      BY <1>1, ElementOfSeq
    <3>. QED  BY <1>2, <3>1
  <2>2. r = [i \in 1 .. n |-> e(i)]
    BY DEF Reverse
  <2>. HIDE DEF e, n, r
  <2>3. [i \in 1 .. n |-> e(i)] \in Seq(Int)
    BY <1>1, <2>1, IsASeq
  <2>. QED  BY <2>2, <2>3
<1>. HIDE DEF n, r
<1>5. \A i \in 1 .. n : (n - ((n - i) + 1)) + 1 = i
  BY <1>1
<1>6. ToSet(r) = ToSet(s)
  <2>1. ToSet(s) = {s[i] : i \in 1 .. n} /\ ToSet(r) = {r[i] : i \in 1 .. n}
    BY <1>1, <1>3 DEF ToSet
  <2>2. ASSUME NEW i \in 1 .. n
        PROVE  s[i] \in ToSet(r) /\ r[i] \in ToSet(s)
    <3>. DEFINE j == (n - i) + 1
    <3>1. j \in 1 .. n /\ r[i] = s[j] /\ r[j] = s[i]
      BY <1>2, <1>3, <1>5
    <3>. HIDE DEF j
    <3>. QED  BY <2>1, <3>1
  <2>3. ToSet(s) \subseteq ToSet(r) /\ ToSet(r) \subseteq ToSet(s)
    BY <2>1, <2>2
  <2>. QED  BY <2>3
<1>7. Rising(r)
  <2>1. \A i, j \in 1 .. n : i < j => (n - j) + 1 < (n - i) + 1
    BY <1>1
  <2>. QED  BY <1>1, <1>2, <1>3, <2>1 DEF Rising, Falling
<1>. QED  BY <1>4, <1>6, <1>7 DEF Events, r

\* The list of a set of releases: each row is one of them.
LEMMA Listed ==
  ASSUME NEW S \in SUBSET Nat, IsFiniteSet(S)
  PROVE  /\ List(S) \in Seq(S) /\ Len(List(S)) = Cardinality(S)
         /\ DOMAIN List(S) = 1 .. Cardinality(S) /\ ToSet(List(S)) \subseteq S
<1>. DEFINE n == Cardinality(S)
            upto(r) == {q \in S : q <= r}
            rank == [r \in S |-> Cardinality(upto(r))]
<1>1. n \in Nat
  BY FS_CardinalityType
<1>2. ASSUME NEW r \in S
      PROVE  /\ upto(r) \in SUBSET S /\ IsFiniteSet(upto(r)) /\ Cardinality(upto(r)) \in Nat
             /\ rank[r] = Cardinality(upto(r)) /\ rank[r] \in 1 .. n
  <2>1. upto(r) \in SUBSET S /\ upto(r) # {}
    OBVIOUS
  <2>. HIDE DEF upto
  <2>2. IsFiniteSet(upto(r)) /\ Cardinality(upto(r)) <= n
    BY <2>1, FS_Subset
  <2>3. Cardinality(upto(r)) \in Nat /\ Cardinality(upto(r)) # 0
    BY <2>1, <2>2, FS_CardinalityType, FS_EmptySet
  <2>. QED  BY <1>1, <2>1, <2>2, <2>3
<1>3. ASSUME NEW r \in S, NEW q \in S, r < q
      PROVE  rank[r] # rank[q]
  <2>1. upto(r) \in SUBSET upto(q) /\ q \in upto(q) /\ q \notin upto(r)
    <3>1. \A x \in S : x <= r => x <= q
      BY <1>3
    <3>2. q <= q /\ ~(q <= r)
      BY <1>3
    <3>. QED  BY <3>1, <3>2
  <2>. HIDE DEF upto, rank
  <2>2. Cardinality(upto(q)) = Cardinality(upto(r)) => upto(q) = upto(r)
    BY <1>2, <2>1, FS_Subset
  <2>. QED  BY <1>2, <2>1, <2>2
<1>4. rank \in Injection(S, 1 .. n)
  <2>1. rank \in [S -> 1 .. n]
    BY <1>2
  <2>. HIDE DEF rank
  <2>2. \A r, q \in S : r # q => r < q \/ q < r
    OBVIOUS
  <2>3. \A r, q \in S : rank[r] = rank[q] => r = q
    BY <1>3, <2>2
  <2>. QED  BY <2>1, <2>3 DEF Injection, IsInjective
<1>5. rank \in Surjection(S, 1 .. n)
  <2>1. IsFiniteSet(1 .. n) /\ Cardinality(1 .. n) = n
    <3>1. 1 \in Int /\ n \in Int
      BY <1>1
    <3>2. IsFiniteSet(1 .. n) /\ Cardinality(1 .. n) = IF 1 > n THEN 0 ELSE n - 1 + 1
      BY <3>1, FS_Interval
    <3>. QED  BY <1>1, <3>2
  <2>. HIDE DEF rank, n
  <2>. QED  BY <1>4, <2>1, FS_Injection DEF n
<1>6. \A i \in 1 .. n : \E r \in S : Cardinality(upto(r)) = i
  <2>. HIDE DEF n
  <2>1. \A i \in 1 .. n : \E r \in S : rank[r] = i
    BY <1>5 DEF Surjection
  <2>. QED  BY <1>2, <2>1
<1>. DEFINE e(i) == CHOOSE r \in S : Cardinality(upto(r)) = i
            l == List(S)
<1>7. l = [i \in 1 .. n |-> e(i)]
  BY DEF List
<1>8. \A i \in 1 .. n : e(i) \in S
  <2>. HIDE DEF upto, n
  <2>. QED  BY <1>6
<1>. HIDE DEF e, l, n
<1>9. l \in Seq(S)
  <2>1. [i \in 1 .. n |-> e(i)] \in Seq(S)
    BY <1>1, <1>8, IsASeq
  <2>. QED  BY <1>7, <2>1
<1>10. DOMAIN l = 1 .. n /\ Len(l) = n
  BY <1>1, <1>7, <1>9, LenProperties
<1>11. ToSet(l) \subseteq S
  BY <1>7, <1>8, <1>10 DEF ToSet
<1>. QED  BY <1>9, <1>10, <1>11 DEF l, n

-----------------------------------------------------------------------------
\* What is in the log (l), in the channel to the UI loop (p), on the wire or
\* in the buffer (w) and in the ring (r) is in the order of emit.
Ordered(l, p, w, r) ==
  /\ Falling(l) /\ Rising(p) /\ Rising(w) /\ Rising(r) /\ Framed(w)
  /\ Before(Events(l), Events(p) \cup Events(w) \cup Events(r))
  /\ Before(Events(p), Events(w) \cup Events(r))
  /\ Before(Events(w), Events(r))

\* The events of the four.
Known(l, p, w, r) == Events(l) \cup Events(p) \cup Events(w) \cup Events(r)

\* Of what was emitted after a known event, nothing is left out but what was
\* lost.
Complete(K, n, L) == \A x \in K : x + 1 .. n \subseteq L \cup K

\* The types and the capacities of the channels.
StreamInv ==
  /\ emitted \in 0 .. MaxEvents /\ lost \subseteq 1 .. emitted
  /\ up \in BOOLEAN /\ left \in 0 .. Budget
  /\ ring \in Seq(Int) /\ ToSet(ring) \subseteq 1 .. emitted /\ Len(ring) <= RingCap
  /\ pipe \in Seq(Int) /\ ToSet(pipe) \subseteq 1 .. emitted /\ Len(pipe) <= PipeCap
  /\ buf \in Seq(Int) /\ wire \in Seq(Int) /\ Len(wire) <= WireCap
  /\ ToSet(buf \o wire) \subseteq {NL, DataField, Comment} \cup 1 .. emitted
  /\ log \in Seq(Nat) /\ ToSet(log) \subseteq 0 .. emitted /\ Len(log) <= LogCap

\* What EventsInOrder says of the log, of all that is still on its way.
OrderInv ==
  /\ Ordered(log, pipe, buf \o wire, ring)
  /\ Complete(Known(log, pipe, buf \o wire, ring), emitted, lost)

\* Every event on its way was emitted.
LEMMA KnownEmitted ==
  ASSUME StreamInv
  PROVE  /\ Events(log) \subseteq 1 .. emitted /\ Events(pipe) \subseteq 1 .. emitted
         /\ Events(buf \o wire) \subseteq 1 .. emitted /\ Events(ring) \subseteq 1 .. emitted
         /\ emitted \in Nat /\ buf \o wire \in Seq(Int) /\ log \in Seq(Int)
<1>1. emitted \in Nat
  BY StreamAssumption DEF StreamInv
<1>2. /\ \A x \in 0 .. emitted : x > 0 => x \in 1 .. emitted
      /\ ~(NL > 0) /\ ~(DataField > 0) /\ ~(Comment > 0)
  BY <1>1 DEF NL, DataField, Comment
<1>3. buf \o wire \in Seq(Int)
  BY ConcatProperties DEF StreamInv
<1>4. log \in Seq(Int)
  BY Nat \subseteq Int, SeqMonotonic DEF StreamInv
<1>. QED  BY <1>1, <1>2, <1>3, <1>4 DEF StreamInv, Events

\* What is lost is missed, and nothing else.
LEMMA StillComplete ==
  ASSUME NEW K, NEW K2, NEW L, NEW L2, NEW n, Complete(K, n, L),
         K2 \subseteq K, K \cup L \subseteq K2 \cup L2
  PROVE  Complete(K2, n, L2)
<1>. SUFFICES ASSUME NEW x \in K2
              PROVE  x + 1 .. n \subseteq L2 \cup K2
  BY DEF Complete
<1>1. x + 1 .. n \subseteq L \cup K
  BY DEF Complete
<1>. QED  BY <1>1

\* An event, or a report (0), is logged: what leaves a full log is before
\* everything that stays.
LEMMA LoggedOrder ==
  ASSUME NEW l \in Seq(Nat), Len(l) <= LogCap, Falling(l), NEW e \in Nat,
         NEW rest \in SUBSET Int, NEW n \in Nat, NEW L,
         e = 0 \/ Before(Events(l), {e}), Before(Events(l), rest),
         e > 0 => Before({e}, rest),
         Complete(Events(l) \cup {x \in {e} : x > 0} \cup rest, n, L)
  PROVE  LET l2 == Logged(l, e)
         IN  /\ l2 \in Seq(Nat) /\ Len(l2) <= LogCap /\ Falling(l2)
             /\ ToSet(l2) \subseteq {e} \cup ToSet(l)
             /\ Before(Events(l2), rest)
             /\ Complete(Events(l2) \cup rest, n, L)
<1>. DEFINE l2 == Logged(l, e)
            K == Events(l) \cup {x \in {e} : x > 0} \cup rest
            K2 == Events(l2) \cup rest
<1>1. /\ l2 \in Seq(Nat) /\ Len(l2) <= LogCap /\ Falling(l2)
      /\ ToSet(l2) \subseteq {e} \cup ToSet(l)
      /\ Events(l2) \subseteq {e} \cup Events(l)
      /\ e > 0 => e \in Events(l2)
      /\ Before(Events(l) \ Events(l2), Events(l2))
  BY LogEvents
<1>. HIDE DEF l2
<1>2. /\ \A a \in Events(l) : a \in Int /\ a > 0
      /\ \A a \in Events(l2) : a \in Int /\ a > 0
  <2>1. \A i \in DOMAIN l : l[i] \in Int
    BY LenProperties, ElementOfSeq
  <2>2. \A i \in DOMAIN l2 : l2[i] \in Int
    BY <1>1, LenProperties, ElementOfSeq
  <2>. QED  BY <2>1, <2>2 DEF Events, ToSet
<1>3. \A a \in Events(l2) : a \in Events(l) \/ (a = e /\ e > 0)
  BY <1>1, <1>2
<1>4. Before(Events(l2), rest)
  BY <1>3 DEF Before
<1>5. K2 \subseteq K
  BY <1>3
<1>6. ASSUME NEW y \in K, y \notin K2, NEW x \in K2
      PROVE  y < x
  <2>1. y \in Events(l) \ Events(l2)
    BY <1>1, <1>6
  <2>. QED  BY <1>1, <2>1 DEF Before
<1>7. ASSUME NEW x \in K2, NEW y \in x + 1 .. n
      PROVE  y \in L \cup K2
  <2>1. y \in L \cup K
    BY <1>5 DEF Complete
  <2>2. x \in Int /\ y \in Int /\ ~(y < x)
    <3>1. x \in Int
      BY <1>2
    <3>. HIDE DEF K, K2
    <3>. QED  BY <3>1
  <2>. HIDE DEF K, K2
  <2>. QED  BY <1>6, <2>1, <2>2
<1>8. Complete(K2, n, L)
  BY <1>7 DEF Complete
<1>. QED  BY <1>1, <1>4, <1>8 DEF l2

\* emit keeps the order, also when the ring is full.
LEMMA EmitOrder ==
  ASSUME StreamInv, OrderInv, Emit, UNCHANGED log
  PROVE  StreamInv' /\ OrderInv'
<1>. DEFINE e == emitted + 1
            full == up /\ Len(ring) = RingCap
            r0 == IF full THEN Tail(ring) ELSE ring
            w == buf \o wire
            gone == IF full THEN {Head(ring)} ELSE {}
<1>1. /\ emitted < MaxEvents /\ left > 0 /\ left' = left - 1 /\ emitted' = e
      /\ ring' = IF up THEN Append(r0, e) ELSE ring
      /\ lost' = lost \cup gone \cup (IF up THEN {} ELSE {e})
      /\ UNCHANGED <<up, wire, buf, pipe, log>> /\ (buf \o wire)' = w
  BY DEF Emit, Spend
<1>2. /\ emitted \in Nat /\ e \in Nat \ {0} /\ MaxEvents \in Nat /\ e \in 0 .. MaxEvents
      /\ RingCap \in Nat \ {0} /\ 1 .. emitted \subseteq 1 .. e /\ 0 .. emitted \subseteq 0 .. e
      /\ e \in 1 .. e /\ e \in 0 .. e /\ left' \in 0 .. Budget
      /\ \A x \in 1 .. emitted : x < e
      /\ \A x \in Int : x + 1 .. e \subseteq (x + 1 .. emitted) \cup {e}
      /\ e + 1 .. e = {}
  <2>1. /\ emitted \in Nat /\ MaxEvents \in Nat /\ Budget \in Nat
        /\ RingCap \in Nat \ {0} /\ left \in 0 .. Budget
    BY StreamAssumption DEF StreamInv
  <2>2. \A n \in Nat :
          /\ n + 1 \in Nat \ {0} /\ 1 .. n \subseteq 1 .. n + 1 /\ 0 .. n \subseteq 0 .. n + 1
          /\ n + 1 \in 1 .. n + 1 /\ n + 1 \in 0 .. n + 1
          /\ \A x \in 1 .. n : x < n + 1
          /\ \A x \in Int : x + 1 .. n + 1 \subseteq (x + 1 .. n) \cup {n + 1}
          /\ (n + 1) + 1 .. n + 1 = {}
    OBVIOUS
  <2>3. e \in 0 .. MaxEvents /\ left' \in 0 .. Budget
    BY <1>1, <2>1
  <2>. QED  BY <2>1, <2>2, <2>3
<1>3. /\ Events(log) \subseteq 1 .. emitted /\ Events(pipe) \subseteq 1 .. emitted
      /\ Events(w) \subseteq 1 .. emitted /\ Events(ring) \subseteq 1 .. emitted
      /\ w \in Seq(Int)
  BY KnownEmitted
<1>4. full => ring # <<>>
  BY <1>2, EmptySeq
<1>5. /\ r0 \in Seq(Int) /\ Rising(r0) /\ (up => Len(r0) < RingCap)
      /\ ToSet(r0) \subseteq ToSet(ring) /\ gone \subseteq ToSet(ring)
      /\ Events(r0) \subseteq Events(ring) /\ Events(ring) \subseteq Events(r0) \cup gone
  <2>1. CASE full
    <3>1. /\ Tail(ring) \in Seq(Int) /\ Len(Tail(ring)) = Len(ring) - 1
          /\ ToSet(ring) = {Head(ring)} \cup ToSet(Tail(ring))
          /\ Events(ring) = {x \in {Head(ring)} : x > 0} \cup Events(Tail(ring))
          /\ Rising(Tail(ring))
      BY <1>4, <2>1, Headed DEF StreamInv, OrderInv, Ordered
    <3>. QED  BY <1>2, <2>1, <3>1
  <2>2. CASE ~full
    <3>1. Len(ring) \in Nat /\ Len(ring) <= RingCap /\ ring \in Seq(Int) /\ Rising(ring)
      BY LenProperties DEF StreamInv, OrderInv, Ordered
    <3>. QED  BY <1>2, <2>2, <3>1
  <2>. QED  BY <2>1, <2>2
<1>. HIDE DEF full, r0, gone, w
<1>6. /\ ring' \in Seq(Int) /\ Len(ring') <= RingCap /\ Rising(ring')
      /\ ToSet(ring') \subseteq ToSet(ring) \cup {e}
      /\ Events(ring') = Events(IF up THEN r0 ELSE ring) \cup (IF up THEN {e} ELSE {})
  <2>1. CASE up
    <3>1. /\ <<e>> \in Seq(Int) /\ Events(<<e>>) = {e} /\ ToSet(<<e>>) = {e} /\ Rising(<<e>>)
      BY <1>2, FewTokens
    <3>2. ring' = r0 \o <<e>>
      <4>1. e \in Int
        BY <1>2
      <4>. QED  BY <1>1, <1>5, <2>1, <4>1, AppendIsConcat
    <3>3. Before(Events(r0), Events(<<e>>))
      BY <1>2, <1>3, <1>5, <3>1 DEF Before
    <3>4. Rising(ring') /\ ring' \in Seq(Int)
      BY <1>5, <3>1, <3>2, <3>3, JoinedRising, Joined
    <3>5. Events(ring') = Events(r0) \cup {e} /\ ToSet(ring') = ToSet(r0) \cup {e}
      BY <1>5, <3>1, <3>2, JoinedEvents
    <3>6. Len(ring') <= RingCap
      <4>1. Len(ring') = Len(r0) + 1
        <5>1. Len(<<e>>) = 1
          OBVIOUS
        <5>. QED  BY <1>5, <3>1, <3>2, <5>1, Joined
      <4>2. Len(r0) \in Nat
        BY <1>5, LenProperties
      <4>. QED  BY <1>2, <1>5, <2>1, <4>1, <4>2
    <3>. QED  BY <1>5, <2>1, <3>4, <3>5, <3>6
  <2>2. CASE ~up
    BY <1>1, <2>2 DEF StreamInv, OrderInv, Ordered
  <2>. QED  BY <2>1, <2>2
<1>. HIDE DEF e
<1>7. StreamInv'
  <2>1. gone \subseteq 1 .. emitted
    BY <1>5 DEF StreamInv
  <2>2. lost' \subseteq 1 .. e
    BY <1>1, <1>2, <2>1 DEF StreamInv
  <2>3. ToSet(ring') \subseteq 1 .. e
    BY <1>2, <1>6 DEF StreamInv
  <2>4. /\ ToSet(pipe) \subseteq 1 .. e /\ ToSet(log) \subseteq 0 .. e
        /\ ToSet(buf \o wire) \subseteq {NL, DataField, Comment} \cup 1 .. e
    BY <1>2 DEF StreamInv
  <2>. QED  BY <1>1, <1>2, <1>6, <2>2, <2>3, <2>4 DEF StreamInv
<1>8. Events(ring') \subseteq Events(ring) \cup {e}
  BY <1>5, <1>6
<1>9. Ordered(log, pipe, w, ring')
  <2>1. \A x \in Events(log) \cup Events(pipe) \cup Events(w) : x < e
    BY <1>2, <1>3
  <2>. QED  BY <1>6, <1>8, <2>1 DEF OrderInv, Ordered, Before, w
<1>10. Complete(Known(log, pipe, w, ring'), e, lost')
  <2>. DEFINE K == Known(log, pipe, w, ring)
              K2 == Known(log, pipe, w, ring')
  <2>1. /\ K2 \subseteq K \cup {e} /\ K \subseteq K2 \cup lost'
        /\ lost \subseteq lost' /\ e \in K2 \cup lost'
    BY <1>1, <1>5, <1>6, <1>8 DEF Known
  <2>2. Complete(K, emitted, lost) /\ \A x \in K : x \in Int
    BY <1>3 DEF OrderInv, Known, w
  <2>. HIDE DEF K, K2
  <2>3. ASSUME NEW x \in K2
        PROVE  x + 1 .. e \subseteq lost' \cup K2
    <3>1. CASE x = e
      BY <1>2, <3>1
    <3>2. CASE x # e
      <4>1. x \in K /\ x \in Int
        BY <2>1, <2>2, <3>2
      <4>2. x + 1 .. emitted \subseteq lost \cup K
        BY <2>2, <4>1 DEF Complete
      <4>3. x + 1 .. e \subseteq (x + 1 .. emitted) \cup {e}
        BY <1>2, <4>1
      <4>. QED  BY <2>1, <4>2, <4>3
    <3>. QED  BY <3>1, <3>2
  <2>. QED  BY <2>3 DEF Complete, K2
<1>. QED  BY <1>1, <1>7, <1>9, <1>10 DEF OrderInv, w

\* ctl_events sends the event that is first in the ring.
LEMMA SendEventOrder ==
  ASSUME StreamInv, OrderInv, SendEvent, UNCHANGED log
  PROVE  StreamInv' /\ OrderInv'
<1>. DEFINE e == Head(ring)
            w == buf \o wire
            w2 == w \o Frame(e)
<1>1. /\ ring # <<>> /\ Len(wire) + 4 <= WireCap
      /\ wire' = wire \o Frame(e) /\ ring' = Tail(ring)
      /\ UNCHANGED <<emitted, lost, up, buf, pipe, left, log>>
  BY DEF SendEvent
<1>2. /\ e \in Int /\ Tail(ring) \in Seq(Int) /\ Len(Tail(ring)) = Len(ring) - 1
      /\ ToSet(ring) = {e} \cup ToSet(Tail(ring))
      /\ Events(ring) = {x \in {e} : x > 0} \cup Events(Tail(ring))
      /\ Rising(Tail(ring)) /\ (e > 0 => Before({e}, Events(Tail(ring))))
  BY <1>1, Headed DEF StreamInv, OrderInv, Ordered
<1>. HIDE DEF e
<1>3. e \in 1 .. emitted /\ e \in Nat \ {0} /\ e > 0
  <2>1. e \in 1 .. emitted /\ emitted \in Nat
    BY <1>2, KnownEmitted DEF StreamInv
  <2>. QED  BY <2>1
<1>4. /\ w \in Seq(Int) /\ Frame(e) \in Seq(Int) /\ Len(Frame(e)) = 4
      /\ ToSet(Frame(e)) = {DataField, e, NL} /\ Events(Frame(e)) = {e}
      /\ Rising(Frame(e)) /\ Framed(w2) /\ Rising(w)
  <2>1. w \in Seq(Int) /\ Framed(w) /\ Rising(w)
    BY KnownEmitted DEF OrderInv, Ordered
  <2>. HIDE DEF w
  <2>. QED  BY <1>3, <2>1, FrameSent
<1>5. (buf \o wire)' = w2
  <2>1. buf \in Seq(Int) /\ wire \in Seq(Int)
    BY DEF StreamInv
  <2>2. (buf \o wire)' = buf \o (wire \o Frame(e))
    BY <1>1
  <2>3. (buf \o wire) \o Frame(e) = buf \o (wire \o Frame(e))
    BY <1>4, <2>1, JoinedThrice
  <2>. QED  BY <2>2, <2>3
<1>6. wire' \in Seq(Int) /\ Len(wire') <= WireCap
  <2>1. wire \in Seq(Int)
    BY DEF StreamInv
  <2>2. wire' \in Seq(Int) /\ Len(wire') = Len(wire) + Len(Frame(e))
    BY <1>1, <1>4, <2>1, Joined
  <2>. QED  BY <1>1, <1>4, <2>2
<1>7. Events(w2) = Events(w) \cup {e} /\ ToSet(w2) = ToSet(w) \cup {DataField, e, NL}
  <2>. HIDE DEF w
  <2>. QED  BY <1>4, JoinedEvents
<1>8. Rising(w2)
  <2>1. Before(Events(w), Events(Frame(e)))
    BY <1>2, <1>3, <1>4 DEF OrderInv, Ordered, Before
  <2>. HIDE DEF w
  <2>. QED  BY <1>4, <2>1, JoinedRising
<1>. HIDE DEF w2
<1>9. StreamInv'
  <2>1. ToSet(w2) \subseteq {NL, DataField, Comment} \cup 1 .. emitted
    BY <1>3, <1>7 DEF StreamInv
  <2>2. Len(ring') <= RingCap
    <3>1. Len(ring) \in Nat /\ Len(ring) <= RingCap /\ RingCap \in Nat
      BY LenProperties, StreamAssumption DEF StreamInv
    <3>. QED  BY <1>1, <1>2, <3>1
  <2>. QED  BY <1>1, <1>2, <1>5, <1>6, <2>1, <2>2 DEF StreamInv
<1>10. Ordered(log, pipe, w2, ring')
  BY <1>1, <1>2, <1>3, <1>4, <1>7, <1>8 DEF OrderInv, Ordered, Before
<1>11. Known(log, pipe, w2, ring') = Known(log, pipe, w, ring)
  BY <1>1, <1>2, <1>3, <1>7 DEF Known
<1>. QED  BY <1>1, <1>5, <1>9, <1>10, <1>11 DEF OrderInv

\* The comment of an idle stream.
LEMMA SendKeepAliveOrder ==
  ASSUME StreamInv, OrderInv, SendKeepAlive, UNCHANGED log
  PROVE  StreamInv' /\ OrderInv'
<1>1. /\ ring = <<>> /\ wire = <<>> /\ buf = <<>> /\ left > 0 /\ left' = left - 1
      /\ wire' = KeepAliveFrame
      /\ UNCHANGED <<emitted, lost, up, ring, buf, pipe, log>>
  BY DEF SendKeepAlive, Spend
<1>2. /\ KeepAliveFrame \in Seq(Int) /\ Len(KeepAliveFrame) = 3
      /\ ToSet(KeepAliveFrame) = {Comment, NL} /\ Events(KeepAliveFrame) = {}
      /\ Rising(KeepAliveFrame) /\ Framed(KeepAliveFrame)
  BY CommentSent
<1>3. (buf \o wire)' = KeepAliveFrame /\ buf \o wire = <<>> /\ Events(<<>>) = {}
  <2>1. <<>> \o KeepAliveFrame = KeepAliveFrame /\ <<>> \o <<>> = <<>>
    BY <1>2, ConcatEmptySeq, EmptySeq
  <2>2. (buf \o wire)' = buf' \o wire'
    OBVIOUS
  <2>. QED  BY <1>1, <2>1, <2>2, FewTokens
<1>4. StreamInv'
  <2>1. left' \in 0 .. Budget
    BY <1>1, StreamAssumption DEF StreamInv
  <2>2. Len(wire') <= WireCap
    BY <1>1, <1>2, StreamAssumption
  <2>. QED  BY <1>1, <1>2, <1>3, <2>1, <2>2 DEF StreamInv
<1>5. Ordered(log, pipe, KeepAliveFrame, ring)
  BY <1>2, <1>3 DEF OrderInv, Ordered, Before
<1>6. Known(log, pipe, KeepAliveFrame, ring) = Known(log, pipe, buf \o wire, ring)
  BY <1>2, <1>3 DEF Known
<1>. QED  BY <1>1, <1>3, <1>4, <1>5, <1>6 DEF OrderInv

\* A chunk, wherever it is cut, moves what was on the wire into the buffer.
LEMMA ListenChunkOrder ==
  ASSUME StreamInv, OrderInv, ListenChunk, UNCHANGED log
  PROVE  StreamInv' /\ OrderInv'
<1>1. PICK n \in 1 .. Len(wire) :
        /\ buf' = buf \o SubSeq(wire, 1, n)
        /\ wire' = SubSeq(wire, n + 1, Len(wire))
  BY DEF ListenChunk
<1>2. UNCHANGED <<emitted, lost, up, ring, pipe, left, log>>
  BY DEF ListenChunk
<1>3. buf \in Seq(Int) /\ wire \in Seq(Int) /\ Len(wire) \in Nat /\ Len(wire) <= WireCap
  BY LenProperties DEF StreamInv
<1>4. n \in Nat /\ n \in 0 .. Len(wire)
  BY <1>3
<1>5. wire' \in Seq(Int) /\ Len(wire') = Len(wire) - n
  BY <1>1, <1>3, <1>4, Cut
<1>6. SubSeq(wire, 1, n) \in Seq(Int)
  <2>1. \A i \in 1 .. n : wire[i] \in Int
    BY <1>3, ElementOfSeq
  <2>. QED  BY <1>4, <2>1, SubSeqProperties
<1>7. SubSeq(wire, 1, n) \o SubSeq(wire, n + 1, Len(wire)) = wire
  <2>1. 1 \in 1 .. Len(wire) + 1 /\ n \in 1 - 1 .. Len(wire) /\ Len(wire) \in n .. Len(wire)
    BY <1>3, <1>4
  <2>2. SubSeq(wire, 1, n) \o SubSeq(wire, n + 1, Len(wire)) = SubSeq(wire, 1, Len(wire))
    BY <1>3, <2>1, ConcatAdjacentSubSeq
  <2>. QED  BY <1>3, <2>2, SubSeqFull
<1>8. (buf \o wire)' = buf \o wire
  <2>1. (buf \o wire)' = buf' \o wire'
    OBVIOUS
  <2>2. buf' \o wire' = buf \o (SubSeq(wire, 1, n) \o SubSeq(wire, n + 1, Len(wire)))
    <3>. DEFINE c == SubSeq(wire, 1, n)
                d == SubSeq(wire, n + 1, Len(wire))
    <3>1. buf' = buf \o c /\ wire' = d /\ c \in Seq(Int) /\ d \in Seq(Int)
      BY <1>1, <1>5, <1>6
    <3>. HIDE DEF c, d
    <3>2. (buf \o c) \o d = buf \o (c \o d)
      <4>1. buf \in Seq(Int) /\ c \in Seq(Int) /\ d \in Seq(Int)
        BY <1>3, <3>1
      <4>. QED  BY <4>1, JoinedThrice
    <3>3. buf' \o wire' = buf \o (c \o d)
      BY <3>1, <3>2
    <3>. QED  BY <3>3 DEF c, d
  <2>. QED  BY <1>7, <2>1, <2>2
<1>9. buf' \in Seq(Int)
  BY <1>1, <1>3, <1>6, Joined
<1>10. Len(wire') <= WireCap
  BY <1>3, <1>4, <1>5, StreamAssumption
<1>11. StreamInv'
  BY <1>2, <1>5, <1>8, <1>9, <1>10 DEF StreamInv
<1>. QED  BY <1>2, <1>8, <1>11 DEF OrderInv

\* A complete frame leaves the buffer, and its event is next in the channel.
LEMMA ListenFrameOrder ==
  ASSUME StreamInv, OrderInv, ListenFrame, UNCHANGED log
  PROVE  StreamInv' /\ OrderInv'
<1>. DEFINE n == FrameEnd(buf)
            w == buf \o wire
            u == SubSeq(w, n + 1, Len(w))
            events == Decode(SubSeq(buf, 1, n))
<1>1. /\ n > 0 /\ Len(pipe) + Len(events) <= PipeCap /\ pipe' = pipe \o events
      /\ buf' = SubSeq(buf, n + 1, Len(buf))
      /\ UNCHANGED <<emitted, lost, up, ring, wire, left, log>>
  BY DEF ListenFrame
<1>2. /\ buf \in Seq(Int) /\ wire \in Seq(Int) /\ w \in Seq(Int) /\ pipe \in Seq(Int)
      /\ Framed(w) /\ Rising(w) /\ Rising(pipe)
  BY KnownEmitted DEF StreamInv, OrderInv, Ordered
<1>3. /\ n \in 2 .. Len(buf)
      /\ n + 1 \in DOMAIN w => w[n + 1] \in {DataField, Comment}
      /\ \A i \in DOMAIN w : i <= n /\ w[i] > 0 => events = <<w[i]>>
      /\ events = <<>> \/ \E i \in 1 .. n : w[i] > 0 /\ events = <<w[i]>>
  BY <1>1, <1>2, FirstFrame
<1>4. /\ Len(buf) \in Nat /\ n \in Nat /\ n \in 0 .. Len(buf) /\ Len(w) \in Nat
      /\ Len(w) = Len(buf) + Len(wire) /\ Len(wire) \in Nat /\ DOMAIN w = 1 .. Len(w)
  <2>1. Len(buf) \in Nat /\ Len(wire) \in Nat /\ Len(w) = Len(buf) + Len(wire)
    BY <1>2, LenProperties, Joined
  <2>2. n \in Nat /\ n \in 0 .. Len(buf)
    <3>. HIDE DEF n, w
    <3>. QED  BY <1>3, <2>1
  <2>. QED  BY <1>2, <2>1, <2>2, LenProperties
<1>. HIDE DEF n, events
<1>5. n \in 0 .. Len(w) /\ (buf \o wire)' = u
  <2>1. (buf \o wire)' = SubSeq(buf, n + 1, Len(buf)) \o wire
    BY <1>1
  <2>. QED  BY <1>2, <1>4, <2>1, CutJoined
<1>6. /\ u \in Seq(Int) /\ DOMAIN u = 1 .. Len(w) - n
      /\ \A i \in DOMAIN u : n + i \in DOMAIN w /\ u[i] = w[n + i]
      /\ ToSet(u) \subseteq ToSet(w) /\ Events(u) \subseteq Events(w) /\ Rising(u)
  <2>. HIDE DEF w
  <2>. QED  BY <1>2, <1>5, Cut
<1>7. Framed(u)
  <2>. HIDE DEF w
  <2>. QED  BY <1>2, <1>3, <1>5, FramedCut
<1>8. buf' \in Seq(Int)
  BY <1>1, <1>2, <1>4, Cut
<1>. HIDE DEF u
<1>9. /\ events \in Seq(Int) /\ Rising(events) /\ ToSet(events) = Events(events)
      /\ Events(events) \subseteq Events(w)
      /\ \A i \in DOMAIN w : i <= n /\ w[i] > 0 => w[i] \in Events(events)
      /\ \A x \in Events(events) : \E i \in DOMAIN w : i <= n /\ x = w[i] /\ w[i] > 0
  <2>. HIDE DEF w
  <2>1. CASE events = <<>>
    <3>1. /\ <<>> \in Seq(Int) /\ Events(<<>>) = {} /\ ToSet(<<>>) = {} /\ Rising(<<>>)
          /\ \A x : <<>> # <<x>>
      BY FewTokens
    <3>. QED  BY <1>3, <2>1, <3>1
  <2>2. ASSUME NEW i \in 1 .. n, w[i] > 0, events = <<w[i]>>
        PROVE  <1>9!:
    <3>1. i \in DOMAIN w /\ i <= n
      BY <1>4
    <3>2. w[i] \in Nat \ {0}
      BY <1>2, <1>4, <2>2, <3>1, ElementOfSeq
    <3>3. /\ <<w[i]>> \in Seq(Int) /\ Events(<<w[i]>>) = {w[i]}
          /\ ToSet(<<w[i]>>) = {w[i]} /\ Rising(<<w[i]>>)
      BY <3>2, FewTokens
    <3>4. \A h \in DOMAIN w : h <= n /\ w[h] > 0 => w[h] = w[i]
      <4>1. \A x, y : <<x>> = <<y>> => x = y
        OBVIOUS
      <4>. QED  BY <1>3, <2>2, <4>1
    <3>5. w[i] \in Events(w)
      BY <2>2, <3>1 DEF Events, ToSet
    <3>. QED  BY <2>2, <3>1, <3>3, <3>4, <3>5
  <2>. QED  BY <1>3, <2>1, <2>2
<1>10. Events(w) = Events(events) \cup Events(u)
  <2>. HIDE DEF w
  <2>1. ASSUME NEW i \in DOMAIN w, w[i] > 0
        PROVE  w[i] \in Events(events) \cup Events(u)
    <3>1. CASE i <= n
      BY <1>9, <2>1, <3>1
    <3>2. CASE ~(i <= n)
      <4>1. i - n \in DOMAIN u /\ n + (i - n) = i
        BY <1>4, <1>6, <3>2
      <4>2. u[i - n] = w[i]
        BY <1>6, <4>1
      <4>. QED  BY <2>1, <4>1, <4>2 DEF Events, ToSet
    <3>. QED  BY <3>1, <3>2
  <2>2. Events(w) \subseteq Events(events) \cup Events(u)
    BY <2>1 DEF Events, ToSet
  <2>. QED  BY <1>6, <1>9, <2>2
<1>11. Before(Events(events), Events(u))
  <2>. HIDE DEF w
  <2>. SUFFICES ASSUME NEW x \in Events(events), NEW y \in Events(u)
                PROVE  x < y
    BY DEF Before
  <2>1. PICK i \in DOMAIN w : i <= n /\ x = w[i] /\ w[i] > 0
    BY <1>9
  <2>2. PICK j \in DOMAIN u : y = u[j] /\ y > 0
    BY DEF Events, ToSet
  <2>3. i < n + j /\ n + j \in DOMAIN w /\ y = w[n + j]
    <3>1. j \in Nat /\ j > 0 /\ i \in Nat
      BY <1>4, <1>6
    <3>. QED  BY <1>4, <1>6, <2>1, <2>2, <3>1
  <2>. QED  BY <1>2, <2>1, <2>2, <2>3 DEF Rising
<1>12. /\ pipe' \in Seq(Int) /\ Len(pipe') = Len(pipe) + Len(events)
       /\ Events(pipe') = Events(pipe) \cup Events(events)
       /\ ToSet(pipe') = ToSet(pipe) \cup ToSet(events)
  BY <1>1, <1>2, <1>9, Joined, JoinedEvents
<1>13. Before(Events(pipe), Events(w)) /\ Rising(pipe')
  <2>1. Before(Events(pipe), Events(w))
    BY DEF OrderInv, Ordered, Before
  <2>2. Before(Events(pipe), Events(events))
    BY <1>9, <2>1 DEF Before
  <2>. QED  BY <1>1, <1>2, <1>9, <2>1, <2>2, JoinedRising
<1>14. StreamInv'
  <2>1. ToSet(pipe') \subseteq 1 .. emitted
    BY <1>9, <1>12, KnownEmitted DEF StreamInv
  <2>2. ToSet(u) \subseteq {NL, DataField, Comment} \cup 1 .. emitted
    BY <1>6 DEF StreamInv
  <2>. QED  BY <1>1, <1>5, <1>8, <1>12, <2>1, <2>2 DEF StreamInv
<1>15. Ordered(log, pipe', u, ring)
  <2>1. /\ Falling(log) /\ Rising(ring)
        /\ Before(Events(log), Events(pipe) \cup Events(w) \cup Events(ring))
        /\ Before(Events(pipe), Events(w) \cup Events(ring))
        /\ Before(Events(w), Events(ring))
    BY DEF OrderInv, Ordered
  <2>. HIDE DEF w
  <2>2. Before(Events(log), Events(pipe') \cup Events(u) \cup Events(ring))
    BY <1>10, <1>12, <2>1 DEF Before
  <2>3. Before(Events(pipe'), Events(u) \cup Events(ring))
    BY <1>10, <1>11, <1>12, <2>1 DEF Before
  <2>4. Before(Events(u), Events(ring))
    BY <1>10, <2>1 DEF Before
  <2>. QED  BY <1>6, <1>7, <1>13, <2>1, <2>2, <2>3, <2>4 DEF Ordered
<1>16. Known(log, pipe', u, ring) = Known(log, pipe, w, ring)
  BY <1>10, <1>12 DEF Known
<1>. QED  BY <1>1, <1>5, <1>14, <1>15, <1>16 DEF OrderInv

\* The connection ends: what was on its way is lost.
LEMMA DisconnectOrder ==
  ASSUME StreamInv, OrderInv, Disconnect, UNCHANGED log
  PROVE  StreamInv' /\ OrderInv'
<1>. DEFINE w == buf \o wire
            gone == {e \in 1 .. emitted : e \in ToSet(w \o ring)}
<1>1. /\ left > 0 /\ left' = left - 1 /\ up' = FALSE
      /\ ring' = <<>> /\ wire' = <<>> /\ buf' = <<>>
      /\ lost' = lost \cup gone /\ UNCHANGED <<emitted, pipe, log>>
  <2>1. /\ Spend /\ up' = FALSE
        /\ ring' = <<>> /\ wire' = <<>> /\ buf' = <<>>
        /\ lost' = lost \cup {e \in 1 .. emitted : e \in ToSet(buf \o wire \o ring)}
        /\ UNCHANGED <<emitted, pipe, log>>
    BY DEF Disconnect
  <2>2. left > 0 /\ left' = left - 1
    BY <2>1 DEF Spend
  <2>. QED  BY <2>1, <2>2
<1>2. (buf \o wire)' = <<>>
  <2>1. <<>> \o <<>> = <<>>
    BY EmptySeq, ConcatEmptySeq
  <2>2. (buf \o wire)' = buf' \o wire'
    OBVIOUS
  <2>. QED  BY <1>1, <2>1, <2>2
<1>3. /\ <<>> \in Seq(Int) /\ Len(<<>>) = 0 /\ Events(<<>>) = {} /\ ToSet(<<>>) = {}
      /\ Rising(<<>>) /\ Framed(<<>>)
  BY FewTokens, EmptySeq
<1>4. /\ Events(w) \subseteq 1 .. emitted /\ Events(ring) \subseteq 1 .. emitted
      /\ w \in Seq(Int) /\ ring \in Seq(Int)
  BY KnownEmitted DEF StreamInv
<1>. HIDE DEF w
<1>5. Events(w) \cup Events(ring) \subseteq gone
  <2>1. ToSet(w \o ring) = ToSet(w) \cup ToSet(ring)
    BY <1>4, JoinedEvents
  <2>. QED  BY <1>4, <2>1 DEF Events
<1>. HIDE DEF gone
<1>6. gone \subseteq 1 .. emitted
  BY DEF gone
<1>7. StreamInv'
  <2>1. left' \in 0 .. Budget
    BY <1>1, StreamAssumption DEF StreamInv
  <2>2. 0 <= RingCap /\ 0 <= WireCap
    BY StreamAssumption
  <2>. QED  BY <1>1, <1>2, <1>3, <1>6, <2>1, <2>2 DEF StreamInv
<1>8. Ordered(log, pipe, <<>>, <<>>)
  BY <1>3 DEF OrderInv, Ordered, Before
<1>9. Complete(Known(log, pipe, <<>>, <<>>), emitted, lost')
  <2>. DEFINE K == Known(log, pipe, w, ring)
              K2 == Known(log, pipe, <<>>, <<>>)
  <2>1. K2 \subseteq K /\ K \cup lost \subseteq K2 \cup lost'
    BY <1>1, <1>3, <1>5 DEF Known
  <2>2. Complete(K, emitted, lost)
    BY DEF OrderInv, w
  <2>. HIDE DEF K, K2
  <2>3. Complete(K2, emitted, lost')
    BY <2>1, <2>2, StillComplete
  <2>. QED  BY <2>3 DEF K2
<1>. QED  BY <1>1, <1>2, <1>7, <1>8, <1>9 DEF OrderInv

\* The stream, step by step.
LEMMA StreamOrder ==
  ASSUME StreamInv, OrderInv, StreamNext, UNCHANGED log
  PROVE  StreamInv' /\ OrderInv'
<1>1. CASE SendEvent
  BY <1>1, SendEventOrder
<1>2. CASE ListenChunk
  BY <1>2, ListenChunkOrder
<1>3. CASE ListenFrame
  BY <1>3, ListenFrameOrder
<1>4. CASE Reconnect
  <2>1. UNCHANGED <<emitted, lost, ring, wire, buf, pipe, left, log, buf \o wire>> /\ up' = TRUE
    BY <1>4 DEF Reconnect
  <2>. QED  BY <2>1 DEF StreamInv, OrderInv
<1>5. CASE Emit
  BY <1>5, EmitOrder
<1>6. CASE SendKeepAlive
  BY <1>6, SendKeepAliveOrder
<1>7. CASE Disconnect
  BY <1>7, DisconnectOrder
<1>. QED  BY <1>1, <1>2, <1>3, <1>4, <1>5, <1>6, <1>7 DEF StreamNext, StreamStep

\* A report is logged, and the oldest entry of a full log leaves it.
LEMMA ReportOrder ==
  ASSUME StreamInv, OrderInv, log' = Logged(log, 0), UNCHANGED streamVars
  PROVE  StreamInv' /\ OrderInv'
<1>. DEFINE e == 0
            w == buf \o wire
            rest == Events(pipe) \cup Events(w) \cup Events(ring)
            l2 == Logged(log, e)
<1>1. UNCHANGED <<emitted, lost, up, ring, wire, buf, pipe, left>> /\ (buf \o wire)' = w
  BY DEF streamVars
<1>e. e \in Nat /\ e = 0 /\ e \in 0 .. emitted /\ ~(e > 0)
  BY KnownEmitted
<1>2. /\ log \in Seq(Nat) /\ Len(log) <= LogCap /\ Falling(log) /\ emitted \in Nat
      /\ rest \in SUBSET Int /\ Before(Events(log), rest)
  BY KnownEmitted DEF StreamInv, OrderInv, Ordered
<1>3. Events(log) \cup {x \in {e} : x > 0} \cup rest = Known(log, pipe, w, ring)
  BY DEF Known
<1>. HIDE DEF e, w, rest, l2
<1>4. Complete(Events(log) \cup {x \in {e} : x > 0} \cup rest, emitted, lost)
  BY <1>3 DEF OrderInv, w
<1>5. /\ l2 \in Seq(Nat) /\ Len(l2) <= LogCap /\ Falling(l2)
      /\ ToSet(l2) \subseteq {e} \cup ToSet(log)
      /\ Before(Events(l2), rest) /\ Complete(Events(l2) \cup rest, emitted, lost)
  <2>1. e \in Nat /\ (e = 0 \/ Before(Events(log), {e})) /\ (e > 0 => Before({e}, rest))
    BY <1>e
  <2>. QED  BY <1>2, <1>4, <2>1, LoggedOrder DEF l2
<1>6. log' = l2
  BY <1>e DEF l2
<1>7. StreamInv'
  <2>1. ToSet(l2) \subseteq 0 .. emitted
    BY <1>e, <1>5 DEF StreamInv
  <2>. QED  BY <1>1, <1>5, <1>6, <2>1 DEF StreamInv, w
<1>8. Ordered(l2, pipe, w, ring)
  BY <1>5 DEF OrderInv, Ordered, w, rest
<1>9. Complete(Known(l2, pipe, w, ring), emitted, lost)
  <2>1. Known(l2, pipe, w, ring) = Events(l2) \cup rest
    BY DEF Known, rest
  <2>. QED  BY <1>5, <2>1
<1>. QED  BY <1>1, <1>6, <1>7, <1>8, <1>9 DEF OrderInv

\* The next event of the channel is logged.
LEMMA OnEventOrder ==
  ASSUME StreamInv, OrderInv, OnEvent
  PROVE  StreamInv' /\ OrderInv'
<1>. DEFINE w == buf \o wire
            e == Head(pipe)
            p2 == Tail(pipe)
            rest == Events(p2) \cup Events(w) \cup Events(ring)
            l2 == Logged(log, e)
<1>1. /\ pipe # <<>> /\ log' = l2 /\ pipe' = p2 /\ (buf \o wire)' = w
      /\ UNCHANGED <<emitted, lost, up, ring, wire, buf, left>>
  BY DEF OnEvent
<1>2. /\ e \in Int /\ p2 \in Seq(Int) /\ Len(p2) = Len(pipe) - 1
      /\ ToSet(pipe) = {e} \cup ToSet(p2)
      /\ Events(pipe) = {x \in {e} : x > 0} \cup Events(p2)
      /\ Rising(p2) /\ (e > 0 => Before({e}, Events(p2)))
  BY <1>1, Headed DEF StreamInv, OrderInv, Ordered
<1>. HIDE DEF e, p2
<1>3. e \in 1 .. emitted /\ e \in Nat \ {0} /\ e > 0 /\ e \in Nat /\ e \in Events(pipe)
  <2>1. e \in 1 .. emitted /\ emitted \in Nat
    BY <1>2, KnownEmitted DEF StreamInv
  <2>2. e \in Nat \ {0} /\ e > 0
    BY <2>1
  <2>. QED  BY <1>2, <2>1, <2>2
<1>4. /\ log \in Seq(Nat) /\ Len(log) <= LogCap /\ Falling(log) /\ emitted \in Nat
      /\ rest \in SUBSET Int
  BY <1>2, KnownEmitted DEF StreamInv, OrderInv, Ordered
<1>. HIDE DEF l2
<1>5. /\ Before(Events(log), {e}) /\ Before(Events(log), rest) /\ Before({e}, rest)
  <2>1. /\ Before(Events(log), Events(pipe) \cup Events(w) \cup Events(ring))
        /\ Before(Events(pipe), Events(w) \cup Events(ring))
    BY DEF OrderInv, Ordered
  <2>. HIDE DEF w
  <2>. QED  BY <1>2, <1>3, <2>1 DEF Before
<1>6. Events(log) \cup {x \in {e} : x > 0} \cup rest = Known(log, pipe, w, ring)
  BY <1>2 DEF Known
<1>. HIDE DEF w, rest
<1>7. Complete(Events(log) \cup {x \in {e} : x > 0} \cup rest, emitted, lost)
  BY <1>6 DEF OrderInv, w
<1>8. /\ l2 \in Seq(Nat) /\ Len(l2) <= LogCap /\ Falling(l2)
      /\ ToSet(l2) \subseteq {e} \cup ToSet(log)
      /\ Before(Events(l2), rest) /\ Complete(Events(l2) \cup rest, emitted, lost)
  BY <1>3, <1>4, <1>5, <1>7, LoggedOrder DEF l2
<1>9. StreamInv'
  <2>1. ToSet(l2) \subseteq 0 .. emitted
    <3>1. e \in 0 .. emitted
      BY <1>3, <1>4
    <3>. QED  BY <1>8, <3>1 DEF StreamInv
  <2>2. Len(p2) <= PipeCap
    <3>1. Len(pipe) \in Nat /\ Len(pipe) <= PipeCap /\ PipeCap \in Nat
      BY LenProperties, StreamAssumption DEF StreamInv
    <3>. QED  BY <1>2, <3>1
  <2>3. ToSet(p2) \subseteq 1 .. emitted
    BY <1>2 DEF StreamInv
  <2>. QED  BY <1>1, <1>2, <1>8, <2>1, <2>2, <2>3 DEF StreamInv, w
<1>10. Ordered(l2, p2, w, ring)
  <2>1. Before(Events(p2), Events(w) \cup Events(ring))
    BY <1>2 DEF OrderInv, Ordered, Before, w
  <2>. QED  BY <1>2, <1>8, <2>1 DEF OrderInv, Ordered, w, rest
<1>11. Complete(Known(l2, p2, w, ring), emitted, lost)
  <2>1. Known(l2, p2, w, ring) = Events(l2) \cup rest
    BY DEF Known, rest
  <2>. QED  BY <1>8, <2>1
<1>. QED  BY <1>1, <1>9, <1>10, <1>11 DEF OrderInv

-----------------------------------------------------------------------------
\* The state of the UI, and what a key does to it.

\* The questions, and the screens.
Modals ==
  [kind : {"none", "notice", "gc", "delete", "seed"}, ref : Release \cup {None}]
Screens ==
  [tab : {"images", "peers", "events"}, row : Release \cup {None}, modal : Modals]

\* The selection is a row of the list, if the list has one.
Lists(rows, i) ==
  rows \in Seq(Release) /\ i \in (IF rows = <<>> THEN {0} ELSE DOMAIN rows)

\* The types of the UI, and selections that are rows.
AppInv ==
  /\ stored \subseteq Release /\ pins \subseteq Release \ Mine
  /\ Lists(releases, images)
  /\ tab \in {"images", "peers", "events"} /\ modal \in Modals
  /\ due \in BOOLEAN /\ aged \in BOOLEAN /\ quit \in BOOLEAN
  /\ typed \in Seq([code : Key, seen : Screens]) /\ Len(typed) <= MaxTyped
  /\ screen \in Screens
  /\ pc \in {"loop", "draw", "read", "await"}

\* What is on the screen when a key is read is the state it acts on.
DrawnInv ==
  /\ pc = "read" => screen = Screen
  /\ sent.op = "rm" => sent.shown.modal = Modal("delete", sent.ref)
  /\ sent.op \in {"pin", "unpin", "follow"} /\ sent.shown.tab = "images" =>
       sent.shown.row = sent.ref
  /\ sent.op = "seed" => sent.shown.modal = Modal("seed", sent.ref)

\* A question on a screen, now or when a key was pressed, is the one that is
\* asked now.
AskedInv ==
  /\ screen.modal.kind = "delete" /\ modal.kind = "delete" => screen.modal = modal
  /\ \A i \in DOMAIN typed :
       typed[i].seen.modal.kind = "delete" /\ modal.kind = "delete" =>
         typed[i].seen.modal = modal
  /\ sent.op = "rm" /\ sent.seen.modal.kind = "delete" => sent.seen.modal = sent.shown.modal

\* A list and a selection in it.
LEMMA Rows ==
  ASSUME NEW rows, NEW i, Lists(rows, i)
  PROVE  /\ Len(rows) \in Nat /\ DOMAIN rows = 1 .. Len(rows) /\ rows \in Seq(Release)
         /\ i \in 0 .. Len(rows) /\ (rows = <<>> <=> Len(rows) = 0)
         /\ ToSet(rows) \subseteq Release
         /\ Selected(rows, i) \in Release \cup {None}
<1>1. rows \in Seq(Release) /\ Len(rows) \in Nat /\ DOMAIN rows = 1 .. Len(rows)
  BY LenProperties DEF Lists
<1>2. rows = <<>> <=> Len(rows) = 0
  BY <1>1, EmptySeq
<1>3. i \in 0 .. Len(rows)
  BY <1>1, <1>2 DEF Lists
<1>4. \A h \in DOMAIN rows : rows[h] \in Release
  BY <1>1, ElementOfSeq
<1>. QED  BY <1>1, <1>2, <1>3, <1>4 DEF ToSet, Selected

\* The index is clamped to the list, and moved within it.
LEMMA Clamped ==
  ASSUME NEW rows \in Seq(Release), NEW i \in Nat
  PROVE  Lists(rows, Clamp(i, Len(rows)))
<1>1. Len(rows) \in Nat /\ DOMAIN rows = 1 .. Len(rows) /\ (rows = <<>> <=> Len(rows) = 0)
  BY LenProperties, EmptySeq
<1>. QED  BY <1>1 DEF Lists, Clamp

\* Up and Down go round in the list.
LEMMA MovedWithin ==
  ASSUME NEW rows, NEW i, Lists(rows, i), NEW d \in {1, -1}
  PROVE  Lists(rows, Moved(i, Len(rows), d))
<1>. DEFINE n == Len(rows)
            c == (IF i = 0 THEN 0 ELSE i - 1) + d
<1>1. /\ n \in Nat /\ DOMAIN rows = 1 .. n /\ rows \in Seq(Release)
      /\ i \in 0 .. n /\ (rows = <<>> <=> n = 0)
  BY Rows
<1>. HIDE DEF n
<1>2. CASE n = 0
  BY <1>1, <1>2 DEF Moved, n
<1>3. CASE n # 0
  <2>1. c \in Int /\ n \in Nat /\ n > 0
    BY <1>1, <1>3
  <2>2. \A x \in Int, m \in Nat : m > 0 => (x % m) + 1 \in 1 .. m
    OBVIOUS
  <2>3. Moved(i, Len(rows), d) = (c % n) + 1
    BY <1>3 DEF Moved, n
  <2>. HIDE DEF c
  <2>4. Moved(i, Len(rows), d) \in 1 .. n
    BY <2>1, <2>2, <2>3
  <2>. QED  BY <1>1, <1>3, <2>4 DEF Lists
<1>. QED  BY <1>2, <1>3

\* poll: the lists are those of the daemon, or the old ones.
LEMMA PollLists ==
  ASSUME Lists(releases, images), NEW have \in SUBSET Release, Poll(have)
  PROVE  Lists(releases', images') /\ due' = FALSE
<1>1. PICK rows \in {List(have), releases} :
        releases' = rows /\ images' = Clamp(images, Len(rows))
  BY DEF Poll
<1>2. images \in Nat /\ releases \in Seq(Release)
  BY Rows
<1>3. List(have) \in Seq(Release)
  <2>1. have \in SUBSET Nat /\ IsFiniteSet(have)
    BY DashboardAssumption, FS_Subset
  <2>2. List(have) \in Seq(have)
    BY <2>1, Listed
  <2>. QED  BY <2>2, SeqMonotonic
<1>4. rows \in Seq(Release)
  BY <1>2, <1>3
<1>5. Lists(rows, Clamp(images, Len(rows)))
  BY <1>2, <1>4, Clamped
<1>. QED  BY <1>1, <1>5 DEF Poll

\* What a key may do.
KeyEffect(key) ==
  /\ pins' \subseteq Release \ Mine /\ Lists(releases', images')
  /\ tab' \in {"images", "peers", "events"} /\ modal' \in Modals
  /\ due' \in BOOLEAN /\ aged' \in BOOLEAN /\ quit' \in BOOLEAN
  /\ pc' \in {"loop", "await"}
  /\ log' = log \/ log' = Logged(log, 0)
  /\ modal'.kind = "delete" => modal' = modal \/ modal = NoModal
  /\ sent'.op = "rm" =>
       /\ modal.kind = "delete" /\ sent'.ref = modal.ref
       /\ sent'.seen = key.seen /\ sent'.shown = screen
  /\ sent'.op \in {"pin", "unpin", "follow"} =>
       sent'.ref = Selected(releases, images) /\ sent'.shown = screen
  /\ sent'.op = "seed" =>
       modal.kind = "seed" /\ sent'.ref = modal.ref /\ sent'.shown = screen

\* No command, and one.
LEMMA Commands ==
  /\ NoCommand.op \notin {"rm", "seed", "pin", "unpin", "follow"}
  /\ NoModal \in Modals /\ NoModal.kind = "none"
  /\ \A kind \in {"none", "notice", "gc", "delete", "seed"}, ref \in Release \cup {None} :
       /\ Modal(kind, ref) \in Modals
       /\ Modal(kind, ref).kind = kind /\ Modal(kind, ref).ref = ref
  /\ \A m \in Modals : m = Modal(m.kind, m.ref) /\ m.ref \in Release \cup {None}
  /\ \A op, ref, key : Command(op, ref, key) =>
       /\ sent'.op = op /\ sent'.ref = ref
       /\ sent'.seen = key.seen /\ sent'.shown = screen
<1>1. NoCommand.op \notin {"rm", "seed", "pin", "unpin", "follow"}
  BY DashboardAssumption DEF NoCommand
<1>2. NoModal \in Modals /\ NoModal.kind = "none"
  BY DEF NoModal, Modals
<1>3. \A kind \in {"none", "notice", "gc", "delete", "seed"}, ref \in Release \cup {None} :
        /\ Modal(kind, ref) \in Modals
        /\ Modal(kind, ref).kind = kind /\ Modal(kind, ref).ref = ref
  BY DEF Modal, Modals
<1>4. \A m \in Modals : m = Modal(m.kind, m.ref) /\ m.ref \in Release \cup {None}
  BY DEF Modal, Modals
<1>5. \A op, ref, key : Command(op, ref, key) =>
        /\ sent'.op = op /\ sent'.ref = ref
        /\ sent'.seen = key.seen /\ sent'.shown = screen
  BY DEF Command
<1>. QED  BY <1>1, <1>2, <1>3, <1>4, <1>5

\* The answer to a question, typing in the prompt, and closing a notice.
LEMMA ModalKeys ==
  ASSUME AppInv, NEW key,
         ConfirmDelete(key) \/ ConfirmGc(key) \/ SeedPrompt(key) \/ CloseNotice
  PROVE  KeyEffect(key)
<1>1. CASE ConfirmDelete(key)
  <2>1. /\ modal.kind = "delete" /\ modal' = NoModal
        /\ \/ Command("rm", modal.ref, key) /\ pc' = "await"
           \/ pc' = "loop" /\ sent' = NoCommand
        /\ UNCHANGED <<releases, images, due, log, aged, pins, tab, quit>>
    BY <1>1 DEF ConfirmDelete, NoPoll, NoReport
  <2>. QED  BY <2>1, Commands DEF KeyEffect, AppInv
<1>2. CASE ConfirmGc(key)
  <2>1. /\ modal' = NoModal
        /\ \/ Command("gc", modal.ref, key) /\ pc' = "await"
           \/ pc' = "loop" /\ sent' = NoCommand
        /\ UNCHANGED <<releases, images, due, log, aged, pins, tab, quit>>
    BY <1>2 DEF ConfirmGc, NoPoll, NoReport
  <2>. QED  BY <2>1, Commands DEF KeyEffect, AppInv
<1>3. CASE SeedPrompt(key)
  <2>1. pc' = "loop" /\ modal.kind = "seed" /\ UNCHANGED <<pins, tab, quit>>
    BY <1>3 DEF SeedPrompt
  <2>2. CASE /\ modal' = NoModal \/ modal' = modal
             /\ NoPoll /\ NoReport /\ sent' = NoCommand
    BY <2>1, <2>2, Commands DEF KeyEffect, AppInv, NoPoll, NoReport
  <2>3. CASE Report /\ Command("seed", modal.ref, key) /\ Poll(stored)
    <3>1. Lists(releases', images') /\ due' = FALSE
      BY <2>3, PollLists DEF AppInv
    <3>2. modal' = Modal("notice", None) /\ log' = Logged(log, 0) /\ aged' = FALSE
      BY <2>3 DEF Report
    <3>3. /\ sent'.op = "seed" /\ sent'.ref = modal.ref /\ sent'.shown = screen
      BY <2>3, Commands
    <3>4. Modal("notice", None) \in Modals /\ Modal("notice", None).kind = "notice"
      BY Commands
    <3>. QED  BY <2>1, <3>1, <3>2, <3>3, <3>4 DEF KeyEffect, AppInv
  <2>4. CASE Report /\ NoPoll /\ sent' = NoCommand
    <3>1. modal' = Modal("notice", None) /\ log' = Logged(log, 0) /\ aged' = FALSE
      BY <2>4 DEF Report
    <3>. QED  BY <2>1, <2>4, <3>1, Commands DEF KeyEffect, AppInv, NoPoll
  <2>. QED  BY <1>3, <2>2, <2>3, <2>4 DEF SeedPrompt
<1>4. CASE CloseNotice
  BY <1>4, Commands DEF CloseNotice, NoPoll, NoReport, KeyEffect, AppInv
<1>. QED  BY <1>1, <1>2, <1>3, <1>4

\* The keys of the lists.
LEMMA ListKeys ==
  ASSUME AppInv, NEW key, Move(key) \/ Refresh(key) \/ Ask(key)
  PROVE  KeyEffect(key)
<1>1. CASE Move(key)
  <2>1. /\ modal = NoModal /\ pc' = "loop" /\ sent' = NoCommand
        /\ UNCHANGED <<releases, due, modal, log, aged, pins>>
    BY <1>1 DEF Move
  <2>2. CASE quit' = TRUE /\ UNCHANGED <<tab, images>>
    BY <2>1, <2>2, Commands DEF KeyEffect, AppInv
  <2>3. CASE /\ key.code \in {"tab", "1", "2", "3"}
             /\ tab' = CASE key.code = "tab" -> NextTab(tab) [] key.code = "1" -> "images"
                          [] key.code = "2" -> "peers" [] key.code = "3" -> "events"
             /\ UNCHANGED <<quit, images>>
    <3>1. NextTab(tab) \in {"images", "peers", "events"}
      BY DEF NextTab, AppInv
    <3>2. tab' \in {"images", "peers", "events"}
      BY <2>3, <3>1
    <3>. QED  BY <2>1, <2>3, <3>2, Commands DEF KeyEffect, AppInv
  <2>4. CASE /\ images' = IF tab = "images"
                          THEN Moved(images, Len(releases), IF key.code = "j" THEN 1 ELSE -1)
                          ELSE images
             /\ UNCHANGED <<quit, tab>>
    <3>1. /\ Lists(releases, Moved(images, Len(releases), 1))
          /\ Lists(releases, Moved(images, Len(releases), -1))
      BY MovedWithin DEF AppInv
    <3>2. Lists(releases', images')
      BY <2>1, <2>4, <3>1 DEF AppInv
    <3>. QED  BY <2>1, <2>4, <3>2, Commands DEF KeyEffect, AppInv
  <2>. QED  BY <1>1, <2>2, <2>3, <2>4 DEF Move
<1>2. CASE Refresh(key)
  <2>1. /\ modal = NoModal /\ UNCHANGED <<log, aged, modal, pins, tab, quit>>
        /\ \/ Poll(stored) /\ pc' = "loop" /\ sent' = NoCommand
           \/ Command("sync", None, key) /\ pc' = "await" /\ NoPoll
    BY <1>2 DEF Refresh, NoReport
  <2>2. Lists(releases', images') /\ due' \in BOOLEAN
    BY <2>1, PollLists DEF AppInv, NoPoll
  <2>. QED  BY <2>1, <2>2, Commands DEF KeyEffect, AppInv
<1>3. CASE Ask(key)
  <2>1. /\ modal = NoModal /\ pc' = "loop" /\ sent' = NoCommand
        /\ UNCHANGED <<releases, images, due, log, aged, pins, tab, quit>>
        /\ \/ modal' = Modal("gc", None) \/ modal' = NoModal
           \/ modal' = Modal("delete", Selected(releases, images))
    BY <1>3 DEF Ask, NoPoll, NoReport
  <2>2. Selected(releases, images) \in Release \cup {None}
    BY Rows DEF AppInv
  <2>. QED  BY <2>1, <2>2, Commands DEF KeyEffect, AppInv
<1>. QED  BY <1>1, <1>2, <1>3

\* The keys that write the policy, and those that do nothing.
LEMMA PolicyKeys ==
  ASSUME AppInv, NEW key,
         \/ Policy(key)
         \/ pc' = "loop" /\ UNCHANGED <<appVars, pins>> /\ sent' = NoCommand
  PROVE  KeyEffect(key)
<1>1. CASE pc' = "loop" /\ UNCHANGED <<appVars, pins>> /\ sent' = NoCommand
  BY <1>1, Commands DEF KeyEffect, AppInv, appVars
<1>2. CASE Policy(key)
  <2>. DEFINE ref == Selected(releases, images)
              op == IF key.code = "f" THEN "follow" ELSE IF ref \in pins THEN "unpin" ELSE "pin"
  <2>1. pc' = "loop" /\ modal = NoModal /\ UNCHANGED <<tab, quit>>
    BY <1>2 DEF Policy
  <2>2. op \in {"pin", "unpin", "follow"}
    OBVIOUS
  <2>3. CASE NoPoll /\ NoReport /\ UNCHANGED <<modal, pins>> /\ sent' = NoCommand
    BY <2>1, <2>3, Commands DEF KeyEffect, AppInv, NoPoll, NoReport
  <2>4. CASE Report /\ NoPoll /\ UNCHANGED pins /\ sent' = NoCommand
    <3>1. modal' = Modal("notice", None) /\ log' = Logged(log, 0) /\ aged' = FALSE
      BY <2>4 DEF Report
    <3>. QED  BY <2>1, <2>4, <3>1, Commands DEF KeyEffect, AppInv, NoPoll
  <2>5. CASE /\ ref \in Release \ Mine /\ modal' = Modal("seed", ref)
             /\ NoPoll /\ NoReport /\ UNCHANGED pins /\ sent' = NoCommand
    <3>1. ref \in Release \cup {None}
      BY <2>5
    <3>. HIDE DEF ref
    <3>. QED  BY <2>1, <2>5, <3>1, Commands DEF KeyEffect, AppInv, NoPoll, NoReport
  <2>6. CASE /\ ref \in Release \ Mine /\ Command(op, ref, key)
             /\ pins' = IF op = "pin" THEN pins \cup {ref} ELSE
                        IF op = "unpin" THEN pins \ {ref} ELSE pins
             /\ Report /\ Poll(stored)
    <3>1. Lists(releases', images') /\ due' = FALSE
      BY <2>6, PollLists DEF AppInv
    <3>2. modal' = Modal("notice", None) /\ log' = Logged(log, 0) /\ aged' = FALSE
      BY <2>6 DEF Report
    <3>. HIDE DEF op
    <3>3. pins' \subseteq Release \ Mine
      BY <2>6 DEF AppInv
    <3>4. /\ sent'.op = op /\ sent'.ref = Selected(releases, images)
          /\ sent'.shown = screen
      BY <2>6, Commands
    <3>5. sent'.op \notin {"rm", "seed"}
      BY <2>2, <3>4
    <3>. HIDE DEF ref
    <3>. QED  BY <2>1, <3>1, <3>2, <3>3, <3>4, <3>5, Commands DEF KeyEffect, AppInv
  <2>. QED  BY <1>2, <2>3, <2>4, <2>5, <2>6 DEF Policy
<1>. QED  BY <1>1, <1>2

\* on_key: one of these, with the key that was pressed first.
LEMMA KeyRead ==
  ASSUME AppInv, OnKey
  PROVE  /\ pc = "read" /\ typed # <<>> /\ KeyEffect(Head(typed))
         /\ Head(typed) \in [code : Key, seen : Screens] /\ Head(typed) = typed[1]
         /\ typed' = Tail(typed) /\ typed' \in Seq([code : Key, seen : Screens])
         /\ Len(typed') = Len(typed) - 1 /\ Len(typed) \in Nat /\ 1 \in DOMAIN typed
         /\ UNCHANGED <<streamVars, stored, screen>>
<1>. DEFINE key == Head(typed)
            T == [code : Key, seen : Screens]
<1>1. /\ pc = "read" /\ typed # <<>> /\ typed' = Tail(typed)
      /\ UNCHANGED <<streamVars, stored, screen>>
  BY DEF OnKey
<1>2. /\ ConfirmDelete(key) \/ ConfirmGc(key) \/ SeedPrompt(key) \/ CloseNotice
      \/ Move(key) \/ Refresh(key) \/ Ask(key)
      \/ Policy(key) \/ (pc' = "loop" /\ UNCHANGED <<appVars, pins>> /\ sent' = NoCommand)
  BY DEF OnKey
<1>. HIDE DEF key, T
<1>3. KeyEffect(key)
  BY <1>2, ModalKeys, ListKeys, PolicyKeys
<1>4. typed \in Seq(T)
  BY DEF AppInv, T
<1>5. Len(typed) \in Nat /\ DOMAIN typed = 1 .. Len(typed) /\ Len(typed) # 0
  BY <1>1, <1>4, LenProperties, EmptySeq
<1>6. key \in T /\ Tail(typed) \in Seq(T) /\ Len(Tail(typed)) = Len(typed) - 1
  BY <1>1, <1>4, HeadTailProperties DEF key
<1>7. key = typed[1]
  BY <1>1 DEF key
<1>. QED  BY <1>1, <1>3, <1>5, <1>6, <1>7 DEF key, T

\* What is drawn has its type.
LEMMA ScreenType ==
  ASSUME AppInv
  PROVE  /\ Screen \in Screens /\ Screen.modal = modal /\ Screen.tab = tab
         /\ tab = "images" => Screen.row = Selected(releases, images)
<1>1. Selected(releases, images) \in Release \cup {None}
  BY Rows DEF AppInv
<1>. QED  BY <1>1 DEF Screen, Screens, AppInv

\* Every step keeps the types.
LEMMA AppStep ==
  ASSUME AppInv, [Next]_vars
  PROVE  AppInv'
<1>1. CASE OnEvent
  BY <1>1 DEF OnEvent, AppInv
<1>2. CASE PollDue
  <2>1. /\ UNCHANGED <<tab, modal, log, aged, quit, stored, pins, typed, screen>> /\ pc' = "draw"
        /\ Poll(stored) \/ UNCHANGED <<releases, images, due>>
    BY <1>2 DEF PollDue, NoPoll
  <2>2. Lists(releases', images') /\ due' \in BOOLEAN
    BY <2>1, PollLists DEF AppInv
  <2>. QED  BY <2>1, <2>2 DEF AppInv
<1>3. CASE Draw
  <2>1. /\ modal' \in {NoModal, modal} /\ pc' = "read"
        /\ screen' = [Screen EXCEPT !.modal = modal']
        /\ UNCHANGED <<releases, images, tab, due, aged, quit, stored, pins, typed>>
    BY <1>3 DEF Draw
  <2>2. modal' \in Modals
    BY <2>1, Commands DEF AppInv
  <2>3. screen' \in Screens
    BY <2>1, <2>2, ScreenType DEF Screens
  <2>. QED  BY <2>1, <2>2, <2>3 DEF AppInv
<1>4. CASE NoKey
  BY <1>4 DEF NoKey, appVars, AppInv
<1>5. CASE OnKey
  <2>1. Len(typed') <= MaxTyped
    BY <1>5, KeyRead, DashboardAssumption DEF AppInv
  <2>. QED  BY <1>5, <2>1, KeyRead DEF KeyEffect, AppInv
<1>6. CASE Answered
  <2>1. /\ Report /\ Poll(stored') /\ pc' = "loop" /\ stored' \in {stored, stored \ {sent.ref}}
        /\ UNCHANGED <<tab, quit, pins, typed, screen>>
    BY <1>6 DEF Answered
  <2>2. stored' \subseteq Release
    BY <2>1 DEF AppInv
  <2>3. Lists(releases', images') /\ due' = FALSE
    BY <2>1, <2>2, PollLists DEF AppInv
  <2>4. modal' \in Modals /\ aged' = FALSE
    BY <2>1, Commands DEF Report
  <2>. QED  BY <2>1, <2>2, <2>3, <2>4 DEF AppInv
<1>7. CASE Stream
  BY <1>7 DEF Stream, appVars, AppInv
<1>8. CASE Elapse
  BY <1>8 DEF Elapse, AppInv
<1>9. ASSUME NEW k \in Key, Press(k)
      PROVE  AppInv'
  <2>. DEFINE T == [code : Key, seen : Screens]
              e == [code |-> k, seen |-> screen]
  <2>1. /\ Len(typed) < MaxTyped /\ typed' = Append(typed, e)
        /\ UNCHANGED <<appVars, stored, pins, screen, pc>>
    BY <1>9 DEF Press
  <2>2. e \in T /\ typed \in Seq(T)
    BY DEF AppInv
  <2>. HIDE DEF e, T
  <2>3. typed' \in Seq(T) /\ Len(typed') = Len(typed) + 1 /\ Len(typed) \in Nat
    BY <2>1, <2>2, AppendProperties, LenProperties
  <2>4. Len(typed') <= MaxTyped
    BY <2>1, <2>3, DashboardAssumption
  <2>. QED  BY <2>1, <2>3, <2>4 DEF AppInv, appVars, T
<1>10. ASSUME NEW r \in Release, Change(r)
       PROVE  AppInv'
  <2>1. stored' \subseteq Release /\ UNCHANGED <<appVars, pins, typed, screen, pc>>
    BY <1>10 DEF Change, AppInv
  <2>. QED  BY <2>1 DEF AppInv, appVars
<1>11. CASE UNCHANGED vars
  BY <1>11 DEF vars, appVars, AppInv
<1>. QED
  BY <1>1, <1>2, <1>3, <1>4, <1>5, <1>6, <1>7, <1>8, <1>9, <1>10, <1>11 DEF Next, Loop

\* Every step but that of a key and of the loop leaves the screen and the
\* state it shows alone.
LEMMA DrawnStep ==
  ASSUME AppInv, DrawnInv, [Next]_vars
  PROVE  DrawnInv'
<1>. DEFINE shows == <<releases, images, tab, modal>>
<1>1. CASE pc' # "read" /\ sent' = sent
  BY <1>1 DEF DrawnInv
<1>2. CASE pc' # "read" /\ sent' = NoCommand
  BY <1>2, Commands DEF DrawnInv
<1>3. CASE pc' = pc /\ UNCHANGED <<shows, screen, sent>>
  BY <1>3 DEF DrawnInv, Screen
<1>4. CASE Draw
  <2>1. /\ screen' = [Screen EXCEPT !.modal = modal'] /\ UNCHANGED <<releases, images, tab, sent>>
    BY <1>4 DEF Draw
  <2>2. screen' = Screen'
    BY <2>1 DEF Screen
  <2>. QED  BY <2>1, <2>2 DEF DrawnInv
<1>5. CASE OnKey
  <2>1. pc = "read" /\ KeyEffect(Head(typed))
    BY <1>5, KeyRead
  <2>2. screen = Screen /\ pc' # "read"
    BY <2>1 DEF DrawnInv, KeyEffect
  <2>3. /\ screen.modal = modal /\ screen.tab = tab
        /\ tab = "images" => screen.row = Selected(releases, images)
        /\ modal = Modal(modal.kind, modal.ref)
    BY <2>2, ScreenType, Commands DEF AppInv
  <2>4. sent'.op = "rm" => sent'.shown.modal = Modal("delete", sent'.ref)
    BY <2>1, <2>3 DEF KeyEffect
  <2>5. sent'.op \in {"pin", "unpin", "follow"} /\ sent'.shown.tab = "images" =>
          sent'.shown.row = sent'.ref
    BY <2>1, <2>3 DEF KeyEffect
  <2>6. sent'.op = "seed" => sent'.shown.modal = Modal("seed", sent'.ref)
    BY <2>1, <2>3 DEF KeyEffect
  <2>. QED  BY <2>2, <2>4, <2>5, <2>6 DEF DrawnInv
<1>6. CASE OnEvent
  BY <1>6, <1>3 DEF OnEvent
<1>7. CASE PollDue
  BY <1>7, <1>2 DEF PollDue
<1>8. CASE NoKey \/ Answered
  BY <1>8, <1>1 DEF NoKey, Answered
<1>9. CASE Stream \/ UNCHANGED vars
  BY <1>9, <1>3 DEF Stream, appVars, vars
<1>10. CASE Elapse
  BY <1>10, <1>3 DEF Elapse
<1>11. ASSUME NEW k \in Key, Press(k)
       PROVE  DrawnInv'
  BY <1>11, <1>3 DEF Press, appVars
<1>12. ASSUME NEW r \in Release, Change(r)
       PROVE  DrawnInv'
  BY <1>12, <1>3 DEF Change, appVars
<1>. QED
  BY <1>4, <1>5, <1>6, <1>7, <1>8, <1>9, <1>10, <1>11, <1>12 DEF Next, Loop

\* With one key at a time, a question that was there when the key was
\* pressed is still the one that is asked.
LEMMA AskedStep ==
  ASSUME AppInv, DrawnInv, AskedInv, MaxTyped <= 1, [Next]_vars
  PROVE  AskedInv'
<1>1. CASE /\ modal' = modal \/ modal'.kind # "delete"
           /\ sent' = sent \/ sent' = NoCommand
           /\ UNCHANGED <<screen, typed>>
  BY <1>1, Commands DEF AskedInv
<1>2. CASE Draw
  <2>1. /\ modal' \in {NoModal, modal} /\ screen' = [Screen EXCEPT !.modal = modal']
        /\ UNCHANGED <<typed, sent>>
    BY <1>2 DEF Draw
  <2>2. screen'.modal = modal'
    BY <2>1 DEF Screen
  <2>3. modal'.kind = "delete" => modal' = modal
    BY <2>1, Commands
  <2>. QED  BY <2>1, <2>2, <2>3 DEF AskedInv
<1>3. CASE OnKey
  <2>1. /\ pc = "read" /\ KeyEffect(Head(typed)) /\ Head(typed) = typed[1] /\ 1 \in DOMAIN typed
        /\ Len(typed') = Len(typed) - 1 /\ Len(typed) \in Nat /\ screen' = screen
        /\ typed' \in Seq([code : Key, seen : Screens])
    BY <1>3, KeyRead
  <2>2. screen.modal = modal
    BY <2>1, ScreenType DEF DrawnInv
  <2>3. DOMAIN typed' = {}
    <3>1. Len(typed') <= 0 /\ DOMAIN typed' = 1 .. Len(typed') /\ Len(typed') \in Nat
      <4>1. Len(typed') \in Nat /\ DOMAIN typed' = 1 .. Len(typed')
        BY <2>1, LenProperties
      <4>. QED  BY <2>1, <4>1, DashboardAssumption DEF AppInv
    <3>. QED  BY <3>1
  <2>4. screen'.modal.kind = "delete" /\ modal'.kind = "delete" => screen'.modal = modal'
    BY <2>1, <2>2, Commands DEF KeyEffect
  <2>5. sent'.op = "rm" /\ sent'.seen.modal.kind = "delete" => sent'.seen.modal = sent'.shown.modal
    BY <2>1, <2>2 DEF KeyEffect, AskedInv
  <2>. QED  BY <2>3, <2>4, <2>5 DEF AskedInv
<1>4. ASSUME NEW k \in Key, Press(k)
      PROVE  AskedInv'
  <2>. DEFINE T == [code : Key, seen : Screens]
              e == [code |-> k, seen |-> screen]
  <2>1. typed' = Append(typed, e) /\ UNCHANGED <<modal, screen, sent>>
    BY <1>4 DEF Press, appVars
  <2>2. e \in T /\ typed \in Seq(T) /\ e.seen = screen
    BY DEF AppInv
  <2>. HIDE DEF e, T
  <2>3. /\ DOMAIN typed' = 1 .. Len(typed) + 1
        /\ Len(typed) \in Nat /\ DOMAIN typed = 1 .. Len(typed)
        /\ \A i \in 1 .. Len(typed) : typed'[i] = typed[i]
        /\ typed'[Len(typed) + 1] = e
    BY <2>1, <2>2, AppendProperties, LenProperties
  <2>4. \A i \in DOMAIN typed' : i \in DOMAIN typed \/ i = Len(typed) + 1
    BY <2>3
  <2>5. \A i \in DOMAIN typed' :
          typed'[i].seen.modal.kind = "delete" /\ modal.kind = "delete" =>
            typed'[i].seen.modal = modal
    BY <2>2, <2>3, <2>4 DEF AskedInv
  <2>. QED  BY <2>1, <2>5 DEF AskedInv
<1>5. CASE OnEvent \/ PollDue \/ NoKey \/ Stream \/ Elapse \/ UNCHANGED vars
  BY <1>1, <1>5 DEF OnEvent, PollDue, NoKey, Stream, Elapse, vars, appVars
<1>6. CASE Answered
  <2>1. modal'.kind # "delete" /\ UNCHANGED <<screen, typed, sent>>
    BY <1>6, Commands DEF Answered, Report
  <2>. QED  BY <1>1, <2>1
<1>7. ASSUME NEW r \in Release, Change(r)
      PROVE  AskedInv'
  BY <1>1, <1>7 DEF Change, appVars
<1>. QED  BY <1>2, <1>3, <1>4, <1>5, <1>6, <1>7 DEF Next, Loop

\* Every step keeps the order of the events.
LEMMA OrderStep ==
  ASSUME StreamInv, OrderInv, AppInv, [Next]_vars
  PROVE  StreamInv' /\ OrderInv'
<1>1. CASE UNCHANGED <<streamVars, log>>
  <2>1. UNCHANGED <<emitted, lost, up, ring, wire, buf, pipe, left, log>>
    BY <1>1 DEF streamVars
  <2>. QED  BY <2>1 DEF StreamInv, OrderInv
<1>2. CASE UNCHANGED streamVars /\ log' = Logged(log, 0)
  BY <1>2, ReportOrder
<1>3. CASE OnEvent
  BY <1>3, OnEventOrder
<1>4. CASE Stream
  BY <1>4, StreamOrder DEF Stream, appVars
<1>5. CASE PollDue \/ Draw \/ NoKey \/ Elapse \/ UNCHANGED vars
  BY <1>1, <1>5 DEF PollDue, Draw, NoKey, Elapse, vars, appVars
<1>6. CASE OnKey
  BY <1>1, <1>2, <1>6, KeyRead DEF KeyEffect
<1>7. CASE Answered
  BY <1>2, <1>7 DEF Answered, Report
<1>8. CASE \/ \E k \in Key : Press(k)
           \/ \E r \in Release : Change(r)
  <2>1. /\ left > 0 /\ left' = left - 1
        /\ UNCHANGED <<emitted, lost, up, ring, wire, buf, pipe, log>>
    BY <1>8 DEF Press, Change, Spend, appVars
  <2>2. left' \in 0 .. Budget
    BY <2>1, StreamAssumption DEF StreamInv
  <2>. QED  BY <2>1, <2>2 DEF StreamInv, OrderInv
<1>. QED  BY <1>3, <1>4, <1>5, <1>6, <1>7, <1>8 DEF Next, Loop

\* App::new: one list, nothing drawn but it, no event yet.
LEMMA FirstScreen ==
  ASSUME Init
  PROVE  AppInv /\ DrawnInv /\ AskedInv
<1>1. /\ stored = Release /\ releases = List(stored) /\ images = Clamp(0, Len(releases))
      /\ tab = "images" /\ modal = NoModal /\ pins = {}
      /\ due = FALSE /\ aged = FALSE /\ quit = FALSE
      /\ typed = <<>> /\ screen = Screen /\ pc = "loop" /\ sent = NoCommand
  BY DEF Init
<1>2. Lists(releases, images)
  <2>1. Release \in SUBSET Nat /\ IsFiniteSet(Release)
    BY DashboardAssumption
  <2>2. releases \in Seq(Release)
    BY <1>1, <2>1, Listed
  <2>. QED  BY <1>1, <2>2, Clamped
<1>3. Selected(releases, images) \in Release \cup {None}
  BY <1>2, Rows
<1>4. screen \in Screens
  BY <1>1, <1>3, Commands DEF Screen, Screens
<1>5. typed \in Seq([code : Key, seen : Screens]) /\ Len(typed) <= MaxTyped
  BY <1>1, EmptySeq, DashboardAssumption
<1>6. AppInv
  BY <1>1, <1>2, <1>4, <1>5, Commands DEF AppInv
<1>7. DrawnInv
  BY <1>1, Commands DEF DrawnInv
<1>8. AskedInv
  BY <1>1, Commands DEF AskedInv
<1>. QED  BY <1>6, <1>7, <1>8

\* At first nothing was emitted, and all channels are empty.
LEMMA FirstStream ==
  ASSUME Init
  PROVE  StreamInv /\ OrderInv
<1>1. /\ emitted = 0 /\ lost = {} /\ up = FALSE /\ left = Budget
      /\ ring = <<>> /\ wire = <<>> /\ buf = <<>> /\ pipe = <<>> /\ log = <<>>
  BY DEF Init, StreamInit
<1>2. buf \o wire = <<>>
  BY <1>1, EmptySeq, ConcatEmptySeq
<1>3. /\ <<>> \in Seq(Int) /\ Len(<<>>) = 0 /\ Events(<<>>) = {} /\ ToSet(<<>>) = {}
      /\ Rising(<<>>) /\ Falling(<<>>) /\ Framed(<<>>) /\ <<>> \in Seq(Nat)
  BY FewTokens, EmptySeq
<1>4. StreamInv
  <2>1. /\ 0 \in 0 .. MaxEvents /\ Budget \in 0 .. Budget
        /\ 0 <= RingCap /\ 0 <= WireCap /\ 0 <= PipeCap /\ 0 <= LogCap
    BY StreamAssumption, DashboardAssumption
  <2>. QED  BY <1>1, <1>2, <1>3, <2>1 DEF StreamInv
<1>5. OrderInv
  BY <1>1, <1>2, <1>3 DEF OrderInv, Ordered, Known, Complete, Before
<1>. QED  BY <1>4, <1>5

\* The invariant.  AskedInv is apart: it needs a bound on the keys typed ahead.
DashboardInv == StreamInv /\ OrderInv /\ AppInv /\ DrawnInv

\* The invariant of ocitop.
LEMMA DashboardInductive == Spec => []DashboardInv
<1>1. Init => DashboardInv
  BY FirstScreen, FirstStream DEF DashboardInv
<1>2. DashboardInv /\ [Next]_vars => DashboardInv'
  BY AppStep, DrawnStep, OrderStep DEF DashboardInv
<1>. QED  BY <1>1, <1>2, PTL DEF Spec

-----------------------------------------------------------------------------
\* The lists of ocitop hold what the daemon has, its selection is a row of
\* them, and no channel, nor the log, is ever longer than its capacity.
THEOREM DashboardIsTyped == Spec => []TypeOK
<1>1. DashboardInv => TypeOK
  <2>. SUFFICES ASSUME DashboardInv
                PROVE  TypeOK
    OBVIOUS
  <2>1. StreamTypeOK
    <3>1. ToSet(ring \o pipe) \subseteq 1 .. emitted
      <4>1. ToSet(ring \o pipe) = ToSet(ring) \cup ToSet(pipe)
        BY JoinedEvents DEF DashboardInv, StreamInv
      <4>. QED  BY <4>1 DEF DashboardInv, StreamInv
    <3>2. ToSet(wire \o buf) \subseteq {NL, DataField, Comment} \cup 1 .. emitted
      <4>1. /\ ToSet(wire \o buf) = ToSet(wire) \cup ToSet(buf)
            /\ ToSet(buf \o wire) = ToSet(buf) \cup ToSet(wire)
        BY JoinedEvents DEF DashboardInv, StreamInv
      <4>. QED  BY <4>1 DEF DashboardInv, StreamInv
    <3>. QED  BY <3>1, <3>2 DEF DashboardInv, StreamInv, StreamTypeOK
  <2>2. /\ ToSet(releases) \subseteq Release
        /\ images \in IF releases = <<>> THEN {0} ELSE DOMAIN releases
    BY Rows DEF DashboardInv, AppInv, Lists
  <2>3. Len(log) <= LogCap /\ ToSet(log) \subseteq 0 .. emitted
    BY DEF DashboardInv, StreamInv
  <2>. QED  BY <2>1, <2>2, <2>3 DEF DashboardInv, AppInv, Modals, TypeOK
<1>. QED  BY <1>1, DashboardInductive, PTL

\* p and f act on the row that was drawn before the key was read, and Enter
\* on the release that the prompt names, whatever the polls did to the list.
THEOREM KeysActOnWhatIsDrawn == Spec => []ActsOnTheRow
<1>1. DashboardInv => ActsOnTheRow
  BY DEF DashboardInv, DrawnInv, ActsOnTheRow
<1>. QED  BY <1>1, DashboardInductive, PTL

\* While at most one key waits to be read, a release is deleted only by a y
\* that was read with the question about it on the screen, and that was not
\* pressed at the question about another one.
THEOREM OnlyConfirmedDeletes ==
  ASSUME MaxTyped <= 1
  PROVE  Spec => []DeletesWhatWasConfirmed
<1>1. Init => AskedInv
  BY FirstScreen
<1>2. DashboardInv /\ AskedInv /\ [Next]_vars => AskedInv'
  BY AskedStep DEF DashboardInv
<1>3. DashboardInv /\ AskedInv => DeletesWhatWasConfirmed
  BY DEF DashboardInv, DrawnInv, AskedInv, DeletesWhatWasConfirmed
<1>. QED  BY <1>1, <1>2, <1>3, DashboardInductive, PTL DEF Spec

\* Whatever the capacities of the ring and of the channel and wherever the
\* chunks are cut: what listen_sse and the loop pass on is in the order of
\* emit, and of what follows a known event nothing is left out but what was
\* lost.
THEOREM EventsKeepTheirOrder == Spec => []EventsInOrder
<1>1. DashboardInv => EventsInOrder
  <2>. SUFFICES ASSUME DashboardInv
                PROVE  EventsInOrder
    OBVIOUS
  <2>. DEFINE l == Reverse(log)
              w == buf \o wire
              s == l \o (pipe \o (w \o ring))
              K == Known(log, pipe, w, ring)
  <2>1. /\ l \in Seq(Int) /\ Events(l) = Events(log) /\ Rising(l)
    BY ReversedLog DEF DashboardInv, StreamInv, OrderInv, Ordered
  <2>2. /\ pipe \in Seq(Int) /\ buf \in Seq(Int) /\ wire \in Seq(Int) /\ ring \in Seq(Int)
        /\ w \in Seq(Int)
    BY KnownEmitted DEF DashboardInv, StreamInv
  <2>3. /\ Rising(pipe) /\ Rising(w) /\ Rising(ring)
        /\ Before(Events(log), Events(pipe) \cup Events(w) \cup Events(ring))
        /\ Before(Events(pipe), Events(w) \cup Events(ring))
        /\ Before(Events(w), Events(ring)) /\ Complete(K, emitted, lost)
    BY DEF DashboardInv, OrderInv, Ordered
  <2>. HIDE DEF l
  <2>. HIDE DEF w
  <2>5. /\ w \o ring \in Seq(Int) /\ Events(w \o ring) = Events(w) \cup Events(ring)
        /\ Rising(w \o ring)
    BY <2>2, <2>3, Joined, JoinedEvents, JoinedRising
  <2>6. /\ pipe \o (w \o ring) \in Seq(Int) /\ Rising(pipe \o (w \o ring))
        /\ Events(pipe \o (w \o ring)) = Events(pipe) \cup (Events(w) \cup Events(ring))
    <3>. DEFINE v == w \o ring
    <3>1. /\ v \in Seq(Int) /\ Rising(v) /\ Before(Events(pipe), Events(v))
          /\ Events(v) = Events(w) \cup Events(ring)
      BY <2>3, <2>5
    <3>. HIDE DEF v
    <3>2. /\ pipe \o v \in Seq(Int) /\ Rising(pipe \o v)
          /\ Events(pipe \o v) = Events(pipe) \cup Events(v)
      BY <2>2, <2>3, <3>1, Joined, JoinedEvents, JoinedRising
    <3>. QED  BY <3>1, <3>2 DEF v
  <2>7. s \in Seq(Int) /\ Rising(s) /\ Events(s) = K
    <3>1. Before(Events(l), Events(pipe \o (w \o ring)))
      BY <2>1, <2>3, <2>6 DEF Before
    <3>. DEFINE u == pipe \o (w \o ring)
    <3>2. u \in Seq(Int) /\ Rising(u) /\ Before(Events(l), Events(u))
          /\ Events(u) = Events(pipe) \cup (Events(w) \cup Events(ring))
      BY <2>6, <3>1
    <3>. HIDE DEF u
    <3>3. l \o u \in Seq(Int) /\ Rising(l \o u) /\ Events(l \o u) = Events(l) \cup Events(u)
      BY <2>1, <3>2, Joined, JoinedEvents, JoinedRising
    <3>. QED  BY <2>1, <3>2, <3>3 DEF u, Known
  <2>. HIDE DEF s, K
  <2>9. Len(s) \in Nat /\ DOMAIN s = 1 .. Len(s) /\ \A i \in DOMAIN s : s[i] \in Int
    BY <2>7, LenProperties, ElementOfSeq
  <2>10. ASSUME NEW i \in DOMAIN s, s[i] > 0
         PROVE  LET behind == {s[j] : j \in i + 1 .. Len(s)}
                IN  /\ \A e \in behind : e > 0 => s[i] < e
                    /\ s[i] + 1 .. emitted \subseteq lost \cup behind
    <3>. DEFINE behind == {s[j] : j \in i + 1 .. Len(s)}
    <3>1. \A j \in i + 1 .. Len(s) : j \in DOMAIN s /\ i < j
      BY <2>9
    <3>2. \A e \in behind : e > 0 => s[i] < e
      BY <2>7, <2>10, <3>1 DEF Rising
    <3>3. s[i] \in K
      BY <2>7, <2>10 DEF Events, ToSet
    <3>4. ASSUME NEW y \in s[i] + 1 .. emitted, y \notin lost
          PROVE  y \in behind
      <4>1. y \in K
        BY <2>3, <3>3, <3>4 DEF Complete
      <4>2. PICK j \in DOMAIN s : y = s[j] /\ s[j] > 0
        BY <2>7, <4>1 DEF Events, ToSet
      <4>3. s[i] < s[j]
        BY <2>9, <4>2
      <4>4. ~(j < i) /\ j # i
        <5>1. ~(s[j] < s[i]) /\ s[j] # s[i]
          BY <2>9, <4>3
        <5>. QED  BY <2>7, <2>10, <4>2, <5>1 DEF Rising
      <4>5. j \in i + 1 .. Len(s)
        BY <2>9, <4>4
      <4>. QED  BY <4>2, <4>5
    <3>. QED  BY <3>2, <3>4
  <2>. QED  BY <2>10 DEF EventsInOrder, s, w, l
<1>. QED  BY <1>1, DashboardInductive, PTL
=============================================================================
