--------------------------- MODULE PublisherProofs ---------------------------
(***************************************************************************)
(* Publishing, for any tags, manifests, referrers and requests: the types  *)
(* and the order of the records however requests overlap, the referrers as *)
(* long as no other request is about the subject of one that is being put. *)
(***************************************************************************)
EXTENDS Publisher, TLAPS

ImagePut(t) == pc[t] # "idle" /\ ref[t] = None
ReferrerPut(t) == pc[t] # "idle" /\ ref[t] # None
Publishing(t) == pc[t] \in {"compare", "write"}

\* What a request knows at each step.
TaskInv ==
  \A t \in Task :
    /\ pc[t] = "idle" =>
         what[t] = None /\ ref[t] = None /\ tag[t] = None /\ out[t] = None
    /\ pc[t] # "idle" => what[t] \in Manifest
    /\ ref[t] = None => todo[t] = {} /\ pc[t] # "list"
    /\ ImagePut(t) => tag[t] \in Tag
    /\ Publishing(t) => tag[t] \in Tag /\ out[t] \in Release /\ out[t].man = what[t]
    /\ \A x \in todo[t] : x[2].man = what[t]

\* While a referrer of a manifest is put, no other request is about it.
ApartInv ==
  \A t, u \in Task : t # u /\ ReferrerPut(t) => what[u] # what[t]

\* Tag g has a release of manifest m.
Names(g, m) == records[g] # None /\ records[g].man = m

\* The release that is signed again is still the stored one, unless the tag has
\* gone to another manifest, and the new one is newer and has its referrers and
\* one more.
ListedInv ==
  \A t \in Task : ReferrerPut(t) =>
    /\ \A x \in todo[t] :
         /\ attached[what[t]] \subseteq x[2].refs
         /\ Names(x[1], what[t]) => records[x[1]] = x[2]
         /\ \A y \in todo[t] : x[1] = y[1] => x = y
    /\ Publishing(t) =>
         /\ attached[what[t]] \cup {ref[t]} \subseteq out[t].refs
         /\ Names(tag[t], what[t]) => out[t].ts > records[tag[t]].ts
         /\ \A x \in todo[t] : x[1] # tag[t]

\* A record that is about to be written supersedes the one it was compared with.
WriteInv ==
  \A t \in Task : pc[t] = "write" => saw[t] = None \/ Supersedes(out[t], saw[t])

\* No release of the subject lacks the referrer, but for those still to do,
\* and an image that is put again starts without referrers.
AttachInv ==
  \A t \in Task :
    /\ ImagePut(t) => attached[what[t]] = {}
    /\ ReferrerPut(t) /\ pc[t] # "list" =>
         \A g \in Tag :
           Names(g, what[t]) =>
             \/ ref[t] \in records[g].refs
             \/ \E x \in todo[t] : x[1] = g
             \/ Publishing(t) /\ tag[t] = g

Inv ==
  /\ TypeOK /\ TaskInv /\ ApartInv /\ ListedInv
  /\ WriteInv /\ AttachInv /\ ReferrersAttached

\* A node starts without records and requests.
LEMMA InvInit == Init => Inv
  BY PublisherAssumption
  DEF Init, Inv, TypeOK, OwnSubject, TaskInv, ApartInv, ListedInv, WriteInv, AttachInv,
      ReferrersAttached, ImagePut, ReferrerPut, Publishing

-----------------------------------------------------------------------------
\* Every step keeps the types and what the requests know.
LEMMA TypeStep == TypeOK /\ TaskInv /\ [Next]_vars => TypeOK' /\ TaskInv'
<1>. SUFFICES ASSUME TypeOK, TaskInv, [Next]_vars
              PROVE  TypeOK' /\ TaskInv'
  OBVIOUS
<1>. USE PublisherAssumption DEF TypeOK, OwnSubject, TaskInv, ImagePut, Publishing
<1>1. CASE Tick
  BY <1>1 DEF Tick, task, history
<1>2. ASSUME NEW t \in Task, NEW g \in Tag, NEW m \in Manifest, PutImage(t, g, m)
      PROVE  TypeOK' /\ TaskInv'
  BY <1>2 DEF PutImage, Release
<1>3. ASSUME NEW t \in Task, NEW m \in Manifest, NEW r \in Referrer, PutReferrer(t, m, r)
      PROVE  TypeOK' /\ TaskInv'
  BY <1>3 DEF PutReferrer
<1>4. ASSUME NEW t \in Task, ListSubjects(t)
      PROVE  TypeOK' /\ TaskInv'
  BY <1>4 DEF ListSubjects, history
<1>5. ASSUME NEW t \in Task, SignAgain(t)
      PROVE  TypeOK' /\ TaskInv'
  <2>. PICK x \in todo[t] :
         /\ todo' = [todo EXCEPT ![t] = @ \ {x}]
         /\ tag' = [tag EXCEPT ![t] = x[1]]
         /\ out' = [out EXCEPT ![t] =
              [x[2] EXCEPT !.refs = @ \cup {ref[t]}, !.ts = Max2(clock, @ + 1)]]
    BY <1>5 DEF SignAgain
  <2>1. x[1] \in Tag /\ x[2] \in Release /\ x[2].man = what[t] /\ ref[t] \in Referrer
    OBVIOUS
  <2>2. Max2(clock, x[2].ts + 1) \in Nat
    BY <2>1 DEF Max2, Release
  <2>3. out'[t] \in Release /\ out'[t].man = what[t]
    BY <2>1, <2>2 DEF Release
  <2>. QED  BY <1>5, <2>1, <2>3 DEF SignAgain, history
<1>6. ASSUME NEW t \in Task, Compare(t)
      PROVE  TypeOK' /\ TaskInv'
  BY <1>6 DEF Compare, history
<1>7. ASSUME NEW t \in Task, Write(t)
      PROVE  TypeOK' /\ TaskInv'
  BY <1>7 DEF Write, Release, history
<1>8. ASSUME NEW t \in Task, Created(t)
      PROVE  TypeOK' /\ TaskInv'
  BY <1>8 DEF Created, Return
<1>9. ASSUME NEW t \in Task, Abort(t)
      PROVE  TypeOK' /\ TaskInv'
  BY <1>9 DEF Abort, Return
<1>10. ASSUME NEW g \in Tag, Delete(g)
       PROVE  TypeOK' /\ TaskInv'
  BY <1>10 DEF Delete, task
<1>11. CASE UNCHANGED vars
  BY <1>11 DEF vars, task, history
<1>. QED
  BY <1>1, <1>2, <1>3, <1>4, <1>5, <1>6, <1>7, <1>8, <1>9, <1>10, <1>11 DEF Next

\* What a put compares with is what it supersedes.
LEMMA WriteStep ==
  ASSUME TypeOK, TaskInv, WriteInv, [Next]_vars
  PROVE  WriteInv'
<1>. USE DEF TypeOK, TaskInv, WriteInv
<1>1. ASSUME NEW t \in Task, Compare(t)
      PROVE  WriteInv'
  <2>1. /\ pc'[t] = "write" => saw'[t] = None \/ Supersedes(out[t], saw'[t])
        /\ \A u \in Task : u # t => pc'[u] = pc[u] /\ saw'[u] = saw[u]
        /\ out' = out
    BY <1>1 DEF Compare
  <2>. QED  BY <2>1
<1>2. ASSUME NEW t \in Task, pc'[t] # "write",
             \A u \in Task : u # t => pc'[u] = pc[u] /\ saw'[u] = saw[u] /\ out'[u] = out[u]
      PROVE  WriteInv'
  BY <1>2
<1>3. ASSUME NEW t \in Task, NEW g \in Tag, NEW m \in Manifest, PutImage(t, g, m)
      PROVE  WriteInv'
  BY <1>2, <1>3 DEF PutImage
<1>4. ASSUME NEW t \in Task, NEW m \in Manifest, NEW r \in Referrer, PutReferrer(t, m, r)
      PROVE  WriteInv'
  BY <1>2, <1>4 DEF PutReferrer
<1>5. ASSUME NEW t \in Task, ListSubjects(t)
      PROVE  WriteInv'
  BY <1>2, <1>5 DEF ListSubjects
<1>6. ASSUME NEW t \in Task, SignAgain(t)
      PROVE  WriteInv'
  BY <1>2, <1>6 DEF SignAgain
<1>7. ASSUME NEW t \in Task, Write(t)
      PROVE  WriteInv'
  BY <1>2, <1>7 DEF Write
<1>8. ASSUME NEW t \in Task, Created(t) \/ Abort(t)
      PROVE  WriteInv'
  BY <1>2, <1>8 DEF Created, Abort, Return
<1>9. CASE UNCHANGED task
  BY <1>9 DEF task
<1>. QED
  BY <1>1, <1>3, <1>4, <1>5, <1>6, <1>7, <1>8, <1>9 DEF Next, Tick, Delete, vars

-----------------------------------------------------------------------------
\* No other request is about the subject of a referrer put.
LEMMA ApartStep == ASSUME Apart PROVE TypeOK /\ TaskInv /\ ApartInv /\ [Next]_vars => ApartInv'
<1>. SUFFICES ASSUME TypeOK, TaskInv, ApartInv, [Next]_vars
              PROVE  ApartInv'
  OBVIOUS
<1>. USE PublisherAssumption DEF TypeOK, TaskInv, ApartInv, ReferrerPut
<1>1. ASSUME NEW t \in Task, NEW g \in Tag, NEW m \in Manifest, PutImage(t, g, m)
      PROVE  ApartInv'
  <2>1. \A u \in Task : ReferrerPut(u) => what[u] # m
    BY <1>1 DEF PutImage, AttachesTo
  <2>. QED  BY <1>1, <2>1 DEF PutImage
<1>2. ASSUME NEW t \in Task, NEW m \in Manifest, NEW r \in Referrer, PutReferrer(t, m, r)
      PROVE  ApartInv'
  <2>1. \A u \in Task : what[u] # m
    BY <1>2 DEF PutReferrer, About
  <2>. QED  BY <1>2, <2>1 DEF PutReferrer
<1>3. ASSUME NEW t \in Task, Created(t) \/ Abort(t)
      PROVE  ApartInv'
  BY <1>3 DEF Created, Abort, Return
<1>4. ASSUME NEW t \in Task, ListSubjects(t) \/ SignAgain(t) \/ Compare(t) \/ Write(t)
      PROVE  ApartInv'
  BY <1>4 DEF ListSubjects, SignAgain, Compare, Write
<1>5. CASE UNCHANGED task
  BY <1>5 DEF task
<1>. QED
  BY <1>1, <1>2, <1>3, <1>4, <1>5 DEF Next, Tick, Delete, vars

\* Nobody else writes a release of the subject.
LEMMA ListedStep == ASSUME Apart PROVE Inv /\ [Next]_vars => ListedInv'
<1>. SUFFICES ASSUME Inv, [Next]_vars
              PROVE  ListedInv'
  OBVIOUS
<1>. USE PublisherAssumption DEF Inv, TypeOK, TaskInv, ApartInv, ListedInv, ReferrerPut,
                                 Publishing, Names
<1>1. CASE Tick
  BY <1>1 DEF Tick, task, history
<1>2. ASSUME NEW t \in Task, NEW g \in Tag, NEW m \in Manifest, PutImage(t, g, m)
      PROVE  ListedInv'
  <2>1. \A u \in Task : ReferrerPut(u) => what[u] # m
    BY <1>2 DEF PutImage, AttachesTo
  <2>. QED  BY <1>2, <2>1 DEF PutImage
<1>3. ASSUME NEW t \in Task, NEW m \in Manifest, NEW r \in Referrer, PutReferrer(t, m, r)
      PROVE  ListedInv'
  BY <1>3 DEF PutReferrer
<1>4. ASSUME NEW t \in Task, ListSubjects(t)
      PROVE  ListedInv'
  <2>1. \A x \in todo'[t] : /\ x \in Tag \X Release /\ x[2] = records[x[1]]
                            /\ x[2].man = what[t]
    BY <1>4 DEF ListSubjects
  <2>2. \A x, y \in todo'[t] : x[1] = y[1] => x = y
    BY <2>1
  <2>3. \A x \in todo'[t] : attached[what[t]] \subseteq x[2].refs
    BY <2>1 DEF ReferrersAttached, Release
  <2>4. /\ pc'[t] = "next" /\ UNCHANGED <<records, what, ref, tag, out, attached>>
        /\ \A u \in Task : u # t => todo'[u] = todo[u] /\ pc'[u] = pc[u]
        /\ pc[t] # "idle"
    BY <1>4 DEF ListSubjects, history
  <2>. QED  BY <2>1, <2>2, <2>3, <2>4
<1>5. ASSUME NEW t \in Task, SignAgain(t)
      PROVE  ListedInv'
  <2>. PICK x \in todo[t] :
         /\ todo' = [todo EXCEPT ![t] = @ \ {x}]
         /\ tag' = [tag EXCEPT ![t] = x[1]]
         /\ out' = [out EXCEPT ![t] =
              [x[2] EXCEPT !.refs = @ \cup {ref[t]}, !.ts = Max2(clock, @ + 1)]]
    BY <1>5 DEF SignAgain
  <2>1. /\ pc[t] = "next" /\ pc' = [pc EXCEPT ![t] = "compare"]
        /\ UNCHANGED <<clock, records, what, ref, attached>>
    BY <1>5 DEF SignAgain, history
  <2>2. ReferrerPut(t) /\ x \in Tag \X Release /\ x[2].man = what[t]
    BY <2>1
  <2>3. /\ out'[t].refs = x[2].refs \cup {ref[t]}
        /\ out'[t].ts > x[2].ts
    BY <2>2 DEF Max2, Release
  <2>4. /\ attached[what[t]] \subseteq x[2].refs
        /\ Names(x[1], what[t]) => records[x[1]] = x[2]
        /\ \A y \in todo[t] : x[1] = y[1] => x = y
    BY <2>2
  <2>5. ASSUME NEW u \in Task, u # t
        PROVE  /\ pc'[u] = pc[u] /\ tag'[u] = tag[u]
               /\ out'[u] = out[u] /\ todo'[u] = todo[u]
    BY <2>1, <2>5
  <2>. QED  BY <2>1, <2>2, <2>3, <2>4, <2>5
<1>6. ASSUME NEW t \in Task, Compare(t)
      PROVE  ListedInv'
  BY <1>6 DEF Compare, history
<1>7. ASSUME NEW t \in Task, Write(t)
      PROVE  ListedInv'
  <2>1. /\ pc[t] = "write" /\ pc' = [pc EXCEPT ![t] = "next"]
        /\ records' = [records EXCEPT ![tag[t]] = out[t]]
        /\ UNCHANGED <<what, ref, todo, tag, out, attached>>
        /\ out[t].man = what[t] /\ tag[t] \in Tag
    BY <1>7 DEF Write, history
  <2>2. ASSUME NEW u \in Task, ReferrerPut(u)', u # t, NEW g \in Tag, Names(g, what[u])'
        PROVE  records'[g] = records[g]
    BY <2>1, <2>2
  <2>3. ASSUME NEW x \in todo[t], ReferrerPut(t)
        PROVE  x[1] # tag[t] /\ records'[x[1]] = records[x[1]]
    BY <2>1, <2>3
  <2>. QED  BY <2>1, <2>2, <2>3
<1>8. ASSUME NEW t \in Task, Created(t)
      PROVE  ListedInv'
  <2>1. /\ pc'[t] = "idle" /\ UNCHANGED records
        /\ \A u \in Task \ {t} : /\ pc'[u] = pc[u] /\ what'[u] = what[u] /\ ref'[u] = ref[u]
                                /\ todo'[u] = todo[u] /\ tag'[u] = tag[u] /\ out'[u] = out[u]
    BY <1>8 DEF Created, Return
  <2>2. \A m \in Manifest : m # what[t] \/ ref[t] = None => attached'[m] = attached[m]
    BY <1>8 DEF Created
  <2>3. \A u \in Task \ {t} : ReferrerPut(u) => attached'[what[u]] = attached[what[u]]
    BY <2>2
  <2>. QED  BY <2>1, <2>3
<1>9. ASSUME NEW t \in Task, Abort(t)
      PROVE  ListedInv'
  BY <1>9 DEF Abort, Return
<1>10. ASSUME NEW g \in Tag, Delete(g)
       PROVE  ListedInv'
  BY <1>10 DEF Delete, task
<1>11. CASE UNCHANGED vars
  BY <1>11 DEF vars, task, history
<1>. QED
  BY <1>1, <1>2, <1>3, <1>4, <1>5, <1>6, <1>7, <1>8, <1>9, <1>10, <1>11 DEF Next

\* A release that a referrer has yet to be attached to is on the list.
LEMMA AttachStep ==
  ASSUME Apart
  PROVE  Inv /\ [Next]_vars => AttachInv' /\ ReferrersAttached'
<1>. SUFFICES ASSUME Inv, [Next]_vars
              PROVE  AttachInv' /\ ReferrersAttached'
  OBVIOUS
<1>. USE PublisherAssumption DEF Inv, TypeOK, TaskInv, ApartInv, ListedInv, AttachInv,
                                 ReferrersAttached,
             ImagePut, ReferrerPut, Publishing, Names
<1>1. CASE Tick
  BY <1>1 DEF Tick, task, history
<1>2. ASSUME NEW t \in Task, NEW g \in Tag, NEW m \in Manifest, PutImage(t, g, m)
      PROVE  AttachInv' /\ ReferrersAttached'
  <2>1. \A u \in Task : ReferrerPut(u) => what[u] # m
    BY <1>2 DEF PutImage, AttachesTo
  <2>. QED  BY <1>2, <2>1 DEF PutImage, Release
<1>3. ASSUME NEW t \in Task, NEW m \in Manifest, NEW r \in Referrer, PutReferrer(t, m, r)
      PROVE  AttachInv' /\ ReferrersAttached'
  BY <1>3 DEF PutReferrer
<1>4. ASSUME NEW t \in Task, ListSubjects(t)
      PROVE  AttachInv' /\ ReferrersAttached'
  <2>1. /\ pc[t] = "list" /\ pc' = [pc EXCEPT ![t] = "next"]
        /\ UNCHANGED <<records, what, ref, tag, attached>>
        /\ \A u \in Task : u # t => todo'[u] = todo[u]
    BY <1>4 DEF ListSubjects, history
  <2>2. ASSUME NEW g \in Tag, records[g] # None, records[g].man = what[t],
               ref[t] \notin records[g].refs
        PROVE  \E x \in todo'[t] : x[1] = g
    <3>1. <<g, records[g]>> \in todo'[t]
      BY <1>4, <2>2 DEF ListSubjects
    <3>. QED  BY <3>1
  <2>3. ReferrersAttached'
    BY <2>1
  <2>4. ref[t] # None /\ what[t] \in Manifest
    BY <2>1
  <2>5. ASSUME NEW u \in Task, ImagePut(u)'
        PROVE  attached'[what'[u]] = {}
    BY <2>1, <2>4, <2>5
  <2>6. ASSUME NEW u \in Task, ReferrerPut(u)', pc'[u] # "list", NEW g \in Tag,
               records'[g] # None, records'[g].man = what'[u]
        PROVE  \/ ref'[u] \in records'[g].refs
               \/ \E x \in todo'[u] : x[1] = g
               \/ Publishing(u)' /\ tag'[u] = g
    BY <2>1, <2>2, <2>6
  <2>7. AttachInv'
    BY <2>5, <2>6 DEF AttachInv
  <2>. QED  BY <2>3, <2>7
<1>5. ASSUME NEW t \in Task, SignAgain(t)
      PROVE  AttachInv' /\ ReferrersAttached'
  <2>. PICK x \in todo[t] :
         /\ todo' = [todo EXCEPT ![t] = @ \ {x}]
         /\ tag' = [tag EXCEPT ![t] = x[1]]
         /\ out' = [out EXCEPT ![t] =
              [x[2] EXCEPT !.refs = @ \cup {ref[t]}, !.ts = Max2(clock, @ + 1)]]
    BY <1>5 DEF SignAgain
  <2>1. /\ pc[t] = "next" /\ pc' = [pc EXCEPT ![t] = "compare"]
        /\ UNCHANGED <<clock, records, what, ref, attached>>
    BY <1>5 DEF SignAgain, history
  <2>2. ReferrerPut(t) /\ x \in Tag \X Release /\ x[2].man = what[t]
    BY <2>1
  <2>5. ASSUME NEW u \in Task, u # t
        PROVE  pc'[u] = pc[u] /\ tag'[u] = tag[u] /\ todo'[u] = todo[u]
    BY <2>1, <2>5
  <2>. QED  BY <2>1, <2>2, <2>5
<1>6. ASSUME NEW t \in Task, Compare(t)
      PROVE  AttachInv' /\ ReferrersAttached'
  BY <1>6 DEF Compare, Supersedes, history
<1>7. ASSUME NEW t \in Task, Write(t)
      PROVE  AttachInv' /\ ReferrersAttached'
  <2>1. /\ pc[t] = "write" /\ pc' = [pc EXCEPT ![t] = "next"]
        /\ records' = [records EXCEPT ![tag[t]] = out[t]]
        /\ UNCHANGED <<what, ref, todo, tag, out, attached>>
        /\ out[t] \in Release /\ out[t].man = what[t] /\ tag[t] \in Tag
    BY <1>7 DEF Write, history
  <2>2. attached[what[t]] \subseteq out[t].refs /\ (ref[t] # None => ref[t] \in out[t].refs)
    BY <2>1
  <2>3. ReferrersAttached'
    BY <2>1, <2>2
  <2>4. ASSUME NEW u \in Task, ReferrerPut(u), u # t, NEW g \in Tag, Names(g, what[u])'
        PROVE  Names(g, what[u]) /\ records'[g] = records[g]
    BY <2>1, <2>4
  <2>5. AttachInv'
    BY <2>1, <2>2, <2>4
  <2>. QED  BY <2>3, <2>5
<1>8. ASSUME NEW t \in Task, Created(t)
      PROVE  AttachInv' /\ ReferrersAttached'
  <2>1. /\ pc[t] = "next" /\ todo[t] = {} /\ UNCHANGED records
        /\ pc'[t] = "idle" /\ ref'[t] = None
        /\ \A u \in Task \ {t} : /\ pc'[u] = pc[u] /\ what'[u] = what[u] /\ ref'[u] = ref[u]
                                /\ todo'[u] = todo[u] /\ tag'[u] = tag[u]
    BY <1>8 DEF Created, Return
  <2>2. \A m \in Manifest : m # what[t] => attached'[m] = attached[m]
    BY <1>8 DEF Created
  <2>3. ref[t] = None => attached' = attached
    BY <1>8 DEF Created
  <2>4. ref[t] # None => attached'[what[t]] \subseteq attached[what[t]] \cup {ref[t]}
    BY <1>8 DEF Created
  <2>5. AttachInv'
    <3>1. ASSUME NEW u \in Task, u # t, ImagePut(u)
          PROVE  attached'[what[u]] = {}
      <4>1. attached[what[u]] = {} /\ what[u] \in Manifest
        BY <3>1
      <4>2. ref[t] # None => what[u] # what[t]
        BY <2>1, <3>1
      <4>. QED  BY <2>2, <2>3, <4>1, <4>2
    <3>. QED  BY <2>1, <3>1
  <2>6. ASSUME NEW g \in Tag, records[g] # None
        PROVE  attached'[records[g].man] \subseteq records[g].refs
    <3>1. records[g].man \in Manifest
      BY <2>6 DEF Release
    <3>2. CASE records[g].man = what[t] /\ ref[t] # None
      BY <2>1, <2>4, <2>6, <3>2
    <3>. QED  BY <2>2, <2>3, <2>6, <3>1, <3>2
  <2>. QED  BY <2>1, <2>5, <2>6
<1>9. ASSUME NEW t \in Task, Abort(t)
      PROVE  AttachInv' /\ ReferrersAttached'
  BY <1>9 DEF Abort, Return
<1>10. ASSUME NEW g \in Tag, Delete(g)
       PROVE  AttachInv' /\ ReferrersAttached'
  BY <1>10 DEF Delete, task
<1>11. CASE UNCHANGED vars
  BY <1>11 DEF vars, task, history
<1>. QED
  BY <1>1, <1>2, <1>3, <1>4, <1>5, <1>6, <1>7, <1>8, <1>9, <1>10, <1>11 DEF Next

-----------------------------------------------------------------------------
\* The invariant holds in every reachable state.
LEMMA InvAlways == ASSUME Apart PROVE Spec => []Inv
<1>1. Inv /\ [Next]_vars => Inv'
  BY TypeStep, ApartStep, ListedStep, WriteStep, AttachStep DEF Inv
<1>. QED  BY <1>1, InvInit, PTL DEF Spec

\* manifest_put, attach_referrer and manifest_delete keep the types, however
\* many requests overlap.
THEOREM TypeCorrect == Spec => []TypeOK
<1>1. Init => TypeOK /\ TaskInv
  BY InvInit DEF Inv
<1>. QED  BY <1>1, TypeStep, PTL DEF Spec

\* attach_referrer leaves no release of the subject without the referrer, when no
\* other request is about the subject meanwhile: whatever is put under its tags,
\* attached to other manifests or deleted at the same time, and wherever requests
\* are aborted.
THEOREM ReferrersStayAttached == ASSUME Apart PROVE Spec => []ReferrersAttached
<1>1. Inv => ReferrersAttached
  BY DEF Inv
<1>. QED  BY <1>1, InvAlways, PTL

\* A step replaces a record by a newer one, by one of the same second, or by one
\* that was compared with another record.
LEMMA NewerStep ==
  ASSUME TypeOK, TaskInv, WriteInv, [Next]_vars, NEW g \in Tag,
         records[g] # None, records'[g] # None, ~(records'[g].ts >= records[g].ts)
  PROVE  \E t \in Task :
           /\ pc[t] = "write" /\ tag[t] = g /\ records'[g] = out[t]
           /\ saw[t] # records[g]
           /\ saw[t] # None => records'[g].ts >= saw[t].ts
<1>. USE PublisherAssumption DEF TypeOK, TaskInv, Publishing
<1>1. records'[g] # records[g]
  BY DEF Release
<1>2. ~\E h \in Tag : Delete(h)
  BY <1>1 DEF Delete
<1>3. PICK t \in Task : Write(t)
  BY <1>1, <1>2
  DEF Next, vars, Tick, PutImage, PutReferrer, ListSubjects, SignAgain, Compare,
      Created, Abort
<1>4. pc[t] = "write" /\ tag[t] = g /\ records'[g] = out[t]
  BY <1>1, <1>3 DEF Write
<1>5. out[t] \in Release /\ records[g] \in Release /\ saw[t] \in Release \cup {None}
  BY <1>4
<1>6. saw[t] = None \/ Supersedes(out[t], saw[t])
  BY <1>4 DEF WriteInv
<1>7. saw[t] # None => out[t].ts >= saw[t].ts
  BY <1>5, <1>6 DEF Supersedes, Release
<1>. QED  BY <1>4, <1>7

\* put_release compares with the stored record and writes later, and no lock keeps
\* two puts of one tag apart: however many overlap, a record gives way to an older
\* one only when it has itself replaced the one the writer compared with, and the
\* older one is not older than that.
THEOREM NewerAlwaysWins == Spec => NewerWins
<1>1. Init => TypeOK /\ TaskInv /\ WriteInv
  BY InvInit DEF Inv
<1>2. TypeOK /\ TaskInv /\ WriteInv /\ [Next]_vars => TypeOK' /\ TaskInv' /\ WriteInv'
  BY TypeStep, WriteStep
<1>3. ASSUME TypeOK, TaskInv, WriteInv, [Next]_vars
      PROVE  [\A g \in Tag :
                (records[g] # None /\ records'[g] # None) =>
                  \/ records'[g].ts >= records[g].ts
                  \/ \E t \in Task :
                       /\ pc[t] = "write" /\ tag[t] = g /\ records'[g] = out[t]
                       /\ saw[t] # records[g]
                       /\ saw[t] # None => records'[g].ts >= saw[t].ts]_vars
  BY <1>3, NewerStep
<1>. QED  BY <1>1, <1>2, <1>3, PTL DEF Spec, NewerWins
=============================================================================
