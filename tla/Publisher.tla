------------------------------ MODULE Publisher ------------------------------
(***************************************************************************)
(* The publishing side of a node: clients put image manifests under tags   *)
(* and put referrers (signatures, SBOMs) whose subject is a manifest, and  *)
(* every put signs releases, stores them and announces them (manifest_put, *)
(* attach_referrer, publish, put_release).  Requests run concurrently and  *)
(* no lock keeps them apart.  One image name.                              *)
(***************************************************************************)
EXTENDS Naturals, FiniteSets

CONSTANTS
  Tag, Manifest, Referrer,
  Task,
  Apart,       \* no other request is about a manifest while a referrer of it is put
  MayDelete,   \* manifests are deleted
  MaxClock,    \* bound on the clock, in seconds
  None

Release == [ts : Nat, man : Manifest, refs : SUBSET Referrer]

ASSUME PublisherAssumption ==
  /\ Apart \in BOOLEAN
  /\ MayDelete \in BOOLEAN
  /\ MaxClock \in Nat \ {0}
  /\ None \notin Tag \cup Manifest \cup Referrer \cup Release

VARIABLES
  clock,
  records,    \* releases/<me>/<name>/<tag>.json
  referrers,  \* index/referrers/<subject>
  pc,
  what,       \* the manifest a request is about: its own, or its subject
  ref,        \* the referrer it puts, None for an image
  todo,       \* the releases attach_referrer has yet to sign again
  tag, out,   \* the tag and the release being published
  saw,        \* the stored record that put_release has compared it with
  lone,       \* history: the requests no conflicting request has overlapped
  acked,      \* history: the manifest of the last put of a tag, if it was lone
              \* and has been answered
  attached    \* history: the referrers of a subject whose put was lone and was
              \* answered since an image was last put with that manifest

task == <<pc, what, ref, todo, tag, out, saw>>
history == <<lone, acked, attached>>
vars == <<clock, records, referrers, task, history>>

\* A request signs and publishes releases of its own manifest or subject only.
OwnSubject ==
  \A t \in Task :
    /\ \A x \in todo[t] : x[2].man = what[t]
    /\ out[t] # None => out[t].man = what[t]

\* Types, and what a request has in hand.
TypeOK ==
  /\ clock \in 1..MaxClock
  /\ records \in [Tag -> Release \cup {None}]
  /\ referrers \in [Manifest -> SUBSET Referrer]
  /\ pc \in [Task -> {"idle", "list", "next", "compare", "write"}]
  /\ what \in [Task -> Manifest \cup {None}]
  /\ ref \in [Task -> Referrer \cup {None}]
  /\ todo \in [Task -> SUBSET (Tag \X Release)]
  /\ tag \in [Task -> Tag \cup {None}]
  /\ out \in [Task -> Release \cup {None}]
  /\ saw \in [Task -> Release \cup {None}]
  /\ OwnSubject
  /\ lone \subseteq Task
  /\ acked \in [Tag -> Manifest \cup {None}]
  /\ attached \in [Manifest -> SUBSET Referrer]

-----------------------------------------------------------------------------
Supersedes(new, old) ==
  \/ new.ts > old.ts
  \/ new.ts = old.ts /\ new.man # old.man

Max2(a, b) == IF a > b THEN a ELSE b

\* The image puts that run; of those, the ones of a tag, and the ones of a manifest.
Images == {u \in Task : pc[u] # "idle" /\ ref[u] = None}
PutsOf(g) == {u \in Images : tag[u] = g}
PutsWith(m) == {u \in Images : what[u] = m}

\* The referrer puts that run on a subject.
AttachesTo(m) == {u \in Task : ref[u] # None /\ what[u] = m}

\* The requests that run about one of some manifests.
About(ms) == {u \in Task : what[u] \in ms}

Return(t) ==
  /\ pc' = [pc EXCEPT ![t] = "idle"]
  /\ what' = [what EXCEPT ![t] = None]
  /\ ref' = [ref EXCEPT ![t] = None]
  /\ todo' = [todo EXCEPT ![t] = {}]
  /\ tag' = [tag EXCEPT ![t] = None]
  /\ out' = [out EXCEPT ![t] = None]
  /\ saw' = [saw EXCEPT ![t] = None]
  /\ lone' = lone \ {t}

Tick ==
  /\ clock < MaxClock
  /\ clock' = clock + 1
  /\ UNCHANGED <<records, referrers, task, history>>

\* manifest_put of an image: Release::sign stamps the second, without referrers.
PutImage(t, g, m) ==
  /\ pc[t] = "idle"
  /\ Apart => AttachesTo(m) = {}
  /\ what' = [what EXCEPT ![t] = m]
  /\ tag' = [tag EXCEPT ![t] = g]
  /\ out' = [out EXCEPT ![t] = [ts |-> clock, man |-> m, refs |-> {}]]
  /\ pc' = [pc EXCEPT ![t] = "compare"]
  /\ lone' = (lone \ (PutsOf(g) \cup AttachesTo(m)))
               \cup {u \in {t} : PutsOf(g) = {}}
  /\ acked' = [acked EXCEPT ![g] = None]
  /\ attached' = [attached EXCEPT ![m] = {}]
  /\ UNCHANGED <<clock, records, referrers, ref, todo, saw>>

\* manifest_put of a referrer: record the relation ...
PutReferrer(t, m, r) ==
  /\ pc[t] = "idle"
  /\ Apart => About({m}) = {}
  /\ referrers' = [referrers EXCEPT ![m] = @ \cup {r}]
  /\ what' = [what EXCEPT ![t] = m]
  /\ ref' = [ref EXCEPT ![t] = r]
  /\ pc' = [pc EXCEPT ![t] = "list"]
  /\ lone' = lone \cup {u \in {t} : PutsWith(m) = {}}
  /\ UNCHANGED <<clock, records, todo, tag, out, saw, acked, attached>>

\* Mutant of ListSubjects: every release that lacks the referrer is listed.
ListAllReleases(t) ==
  /\ pc[t] = "list"
  /\ todo' = [todo EXCEPT ![t] =
       {<<g, records[g]>> : g \in {g \in Tag :
          records[g] # None /\ ref[t] \notin records[g].refs}}]
  /\ pc' = [pc EXCEPT ![t] = "next"]
  /\ UNCHANGED <<clock, records, referrers, what, ref, tag, out, saw, history>>

\* ... and attach_referrer: the releases of the subject that lack it ...
ListSubjects(t) ==
  /\ pc[t] = "list"
  /\ todo' = [todo EXCEPT ![t] =
       {<<g, records[g]>> : g \in {g \in Tag :
          /\ records[g] # None
          /\ records[g].man = what[t]
          /\ ref[t] \notin records[g].refs}}]
  /\ pc' = [pc EXCEPT ![t] = "next"]
  /\ UNCHANGED <<clock, records, referrers, what, ref, tag, out, saw, history>>

\* Mutant of SignAgain: the timestamp is the current second.
SignAgainNow(t) ==
  /\ pc[t] = "next"
  /\ \E x \in todo[t] :
       /\ todo' = [todo EXCEPT ![t] = @ \ {x}]
       /\ tag' = [tag EXCEPT ![t] = x[1]]
       /\ out' = [out EXCEPT ![t] =
            [x[2] EXCEPT !.refs = @ \cup {ref[t]}, !.ts = clock]]
  /\ pc' = [pc EXCEPT ![t] = "compare"]
  /\ UNCHANGED <<clock, records, referrers, what, ref, saw, history>>

\* ... are signed again one by one, with a later timestamp ...
SignAgain(t) ==
  /\ pc[t] = "next"
  /\ \E x \in todo[t] :
       /\ todo' = [todo EXCEPT ![t] = @ \ {x}]
       /\ tag' = [tag EXCEPT ![t] = x[1]]
       /\ out' = [out EXCEPT ![t] =
            [x[2] EXCEPT !.refs = @ \cup {ref[t]}, !.ts = Max2(clock, @ + 1)]]
  /\ pc' = [pc EXCEPT ![t] = "compare"]
  /\ UNCHANGED <<clock, records, referrers, what, ref, saw, history>>

\* Mutant of Compare: the stored record is read, and replaced whatever it is.
CompareNothing(t) ==
  /\ pc[t] = "compare"
  /\ pc' = [pc EXCEPT ![t] = "write"]
  /\ saw' = [saw EXCEPT ![t] = records[tag[t]]]
  /\ UNCHANGED <<clock, records, referrers, what, ref, todo, tag, out, history>>

\* ... and each is published.  put_release compares it with the stored record;
\* publish does not look at the outcome, and the request goes on as if the
\* release were stored.
Compare(t) ==
  LET old == records[tag[t]]
      stores == old = None \/ Supersedes(out[t], old)
  IN
  /\ pc[t] = "compare"
  /\ pc' = [pc EXCEPT ![t] = IF stores THEN "write" ELSE "next"]
  /\ saw' = [saw EXCEPT ![t] = IF stores THEN old ELSE None]
  /\ UNCHANGED <<clock, records, referrers, what, ref, todo, tag, out, history>>

\* Then it writes the record and the referrers of the release.
Write(t) ==
  /\ pc[t] = "write"
  /\ records' = [records EXCEPT ![tag[t]] = out[t]]
  /\ referrers' = [referrers EXCEPT ![out[t].man] = @ \cup out[t].refs]
  /\ pc' = [pc EXCEPT ![t] = "next"]
  /\ saw' = [saw EXCEPT ![t] = None]
  /\ UNCHANGED <<clock, what, ref, todo, tag, out, history>>

\* 201 Created, after the last release has been announced.
Created(t) ==
  /\ pc[t] = "next"
  /\ todo[t] = {}
  /\ acked' = [g \in Tag |->
       IF t \in lone /\ ref[t] = None /\ g = tag[t] THEN what[t] ELSE acked[g]]
  /\ attached' = [m \in Manifest |->
       attached[m] \cup {r \in {ref[t]} : t \in lone /\ r # None /\ m = what[t]}]
  /\ Return(t)
  /\ UNCHANGED <<clock, records, referrers>>

\* The client goes away, or the announcement fails: no answer, and what is left
\* to sign is not signed.
Abort(t) ==
  /\ pc[t] # "idle"
  /\ Return(t)
  /\ UNCHANGED <<clock, records, referrers, acked, attached>>

\* manifest_delete.
Delete(g) ==
  /\ MayDelete
  /\ records[g] # None
  /\ records' = [records EXCEPT ![g] = None]
  /\ acked' = [acked EXCEPT ![g] = None]
  /\ lone' = lone \ PutsOf(g)
  /\ UNCHANGED <<clock, referrers, task, attached>>

Init ==
  /\ clock = 1
  /\ records = [g \in Tag |-> None]
  /\ referrers = [m \in Manifest |-> {}]
  /\ pc = [t \in Task |-> "idle"]
  /\ what = [t \in Task |-> None]
  /\ ref = [t \in Task |-> None]
  /\ todo = [t \in Task |-> {}]
  /\ tag = [t \in Task |-> None]
  /\ out = [t \in Task |-> None]
  /\ saw = [t \in Task |-> None]
  /\ lone = {}
  /\ acked = [g \in Tag |-> None]
  /\ attached = [m \in Manifest |-> {}]

Next ==
  \/ Tick
  \/ \E t \in Task :
       \/ \E g \in Tag, m \in Manifest : PutImage(t, g, m)
       \/ \E m \in Manifest, r \in Referrer : PutReferrer(t, m, r)
       \/ ListSubjects(t) \/ SignAgain(t) \/ Created(t)
       \/ Compare(t) \/ Write(t) \/ Abort(t)
  \/ \E g \in Tag : Delete(g)

Spec == Init /\ [][Next]_vars

-----------------------------------------------------------------------------
\* Properties.

\* A put that was answered with 201, with no other put or delete of the tag
\* since, is what the tag names: however often a tag is put within a second,
\* and whatever is put under other tags at the same time.
PutTakesEffect ==
  \A g \in Tag : acked[g] # None => records[g] # None /\ records[g].man = acked[g]

\* "Every own release whose manifest is the subject is re-signed with the new
\* referrer": once its put is answered, and until an image with that manifest
\* is put again, no release of the subject lacks the referrer, although its tags
\* may be put, attached to by way of other manifests, or deleted at any moment.
ReferrersAttached ==
  \A g \in Tag : records[g] # None => attached[records[g].man] \subseteq records[g].refs

\* "Newer releases for the same (publisher, name, tag) win": a stored record is
\* replaced by an older one only by a put that has compared its release with
\* another record, which was replaced since; and then by none older than that one.
\* No lock keeps the compare and the write of two puts of one tag apart.
NewerWins ==
  [][\A g \in Tag :
       (records[g] # None /\ records'[g] # None) =>
         \/ records'[g].ts >= records[g].ts
         \/ \E t \in Task :
              /\ pc[t] = "write" /\ tag[t] = g /\ records'[g] = out[t]
              /\ saw[t] # records[g]
              /\ saw[t] # None => records'[g].ts >= saw[t].ts]_vars

\* What that leaves possible: a record is replaced by an older one.
NeverRollsBack ==
  [][\A g \in Tag :
       (records[g] # None /\ records'[g] # None) => records'[g].ts >= records[g].ts]_vars

\* "Build ReleasePayload (+ known referrers)": an image put under a tag carries
\* the referrers that are recorded for its manifest.
KnownReferrersCarried ==
  [][\A g \in Tag :
       (records'[g] # None /\ records'[g] # records[g])
         => referrers[records'[g].man] \subseteq records'[g].refs]_vars
=============================================================================
