------------------------------ MODULE Uploads ------------------------------
(***************************************************************************)
(* Blob uploads through the registry (registry.rs, put_blob_file of        *)
(* store.rs, prune_uploads of node.rs) and the reads of what was uploaded. *)
(*                                                                         *)
(* A session is an entry of a map in memory and a file.  Requests on one   *)
(* session share both; the lock of the map is held for look-ups only.  A   *)
(* content is a sequence of chunks and stands for its own digest.          *)
(***************************************************************************)
EXTENDS Naturals, Sequences, FiniteSets

CONSTANTS
  Id,         \* sessions
  Request,    \* requests that may run at the same time
  Chunk,      \* pieces of a body
  MaxLen,     \* bound: chunks in a file
  Apart,      \* TRUE: nothing else is sent while a body of a session is
  MaxStops,   \* bound: stops of the daemon
  None

ASSUME UploadsAssumption ==
  /\ Apart \in BOOLEAN /\ MaxLen \in Nat /\ MaxStops \in Nat
  /\ None \notin Nat /\ None \notin Nat \X Nat /\ None \notin Seq(Chunk)

VARIABLES
  file,      \* file[i]: the content of the upload file, or None without one
  old,       \* the files that were not written for a day
  sessions,  \* sessions[i]: Upload.size, for the sessions of the map
  used,      \* the ids given out
  pc,        \* pc[r]: what request r does next
  req,       \* req[r]: its session, the rest of its body, its digest, what
             \*         it has measured and hashed
  index,     \* index[d]: the content stored under digest d
  created,   \* the digests answered with 201
  torn,      \* the sessions of which a body broke off or a client left
  stops      \* number of stops of the daemon

vars == <<file, old, sessions, used, pc, req, index, created, torn, stops>>

Content == UNION {[1 .. n -> Chunk] : n \in 0 .. MaxLen}

NoReq ==
  [id |-> None, body |-> <<>>, sends |-> FALSE, digest |-> None, size |-> 0, hash |-> None]

NewReq(i, body, digest) ==
  [NoReq EXCEPT !.id = i, !.body = body, !.sends = body # <<>>, !.digest = digest]

\* Nothing is under way on the session.
Idle(i) == \A r \in Request : pc[r] = "idle" \/ req[r].id # i

\* A client sends the chunks of a session one after the other; a request
\* without a body may be a retry that meets the one before.
MayBegin(r, i, body) ==
  /\ pc[r] = "idle"
  /\ Apart => Idle(i) \/ (body = <<>> /\ \A q \in Request : req[q].id = i => ~req[q].sends)

Goto(r, where) == pc' = [pc EXCEPT ![r] = where]

\* The answer is sent.
Answer(r) == Goto(r, "idle") /\ req' = [req EXCEPT ![r] = NoReq]

\* The path is removed, if it is still there.
Unlink(i) == file' = [file EXCEPT ![i] = None] /\ old' = old \ {i}

-----------------------------------------------------------------------------
\* Mutant of Start: the id is not taken.
StartUntaken(r, i, digest, body) ==
  /\ pc[r] = "idle" /\ i \notin used
  /\ file' = [file EXCEPT ![i] = <<>>]
  /\ req' = [req EXCEPT ![r] = NewReq(i, body, digest)]
  /\ Goto(r, "enter")
  /\ UNCHANGED <<used, old, sessions, index, created, torn, stops>>

\* upload_start: the file is created, then the session is entered.  With a
\* digest in the query the request goes on as a PUT; a digest that does not
\* parse ends it there, as no digest does.
Start(r, i, digest, body) ==
  /\ pc[r] = "idle" /\ i \notin used
  /\ used' = used \cup {i}
  /\ file' = [file EXCEPT ![i] = <<>>]
  /\ req' = [req EXCEPT ![r] = NewReq(i, body, digest)]
  /\ Goto(r, "enter")
  /\ UNCHANGED <<old, sessions, index, created, torn, stops>>

StartEnter(r) ==
  /\ pc[r] = "enter"
  /\ sessions' = [j \in DOMAIN sessions \cup {req[r].id} |->
                    IF j = req[r].id THEN 0 ELSE sessions[j]]
  /\ IF req[r].digest = None THEN Answer(r) ELSE Goto(r, "lookup") /\ UNCHANGED req
  /\ UNCHANGED <<file, old, used, index, created, torn, stops>>

\* PATCH (no digest) or PUT with a digest, each with a body.
Begin(r, i, digest, body) ==
  /\ MayBegin(r, i, body) /\ i \in used
  /\ req' = [req EXCEPT ![r] = NewReq(i, body, digest)]
  /\ Goto(r, "lookup")
  /\ UNCHANGED <<file, old, sessions, used, index, created, torn, stops>>

\* append_body: the session is looked up (404 without one), the file opened
\* for appending (an error without one).
AppendLookup(r) ==
  /\ pc[r] = "lookup"
  /\ IF req[r].id \in DOMAIN sessions
     THEN Goto(r, "open") /\ UNCHANGED req
     ELSE Answer(r)
  /\ UNCHANGED <<file, old, sessions, used, index, created, torn, stops>>

AppendOpen(r) ==
  /\ pc[r] = "open"
  /\ IF file[req[r].id] # None
     THEN Goto(r, "append") /\ UNCHANGED req
     ELSE Answer(r)
  /\ UNCHANGED <<file, old, sessions, used, index, created, torn, stops>>

\* The next chunk.  If the path is gone by now the chunk goes to a file that
\* nobody can open any more.
AppendChunk(r) ==
  LET i == req[r].id
  IN  /\ pc[r] = "append" /\ req[r].body # <<>>
      /\ file[i] # None => Len(file[i]) < MaxLen
      /\ file' = IF file[i] = None THEN file
                 ELSE [file EXCEPT ![i] = Append(@, Head(req[r].body))]
      /\ old' = old \ {i}
      /\ req' = [req EXCEPT ![r].body = Tail(@)]
      /\ UNCHANGED <<sessions, used, pc, index, created, torn, stops>>

\* The body breaks off: the request fails, what was written stays.
AppendBreaks(r) ==
  /\ pc[r] = "append" /\ req[r].body # <<>>
  /\ torn' = torn \cup {req[r].id}
  /\ Answer(r)
  /\ UNCHANGED <<file, old, sessions, used, index, created, stops>>

\* flush and metadata().len(), of the open file even when its path is gone.
AppendMeasure(r) ==
  LET i == req[r].id
  IN  /\ pc[r] = "append" /\ req[r].body = <<>>
      /\ \E n \in IF file[i] = None THEN 0 .. MaxLen ELSE {Len(file[i])} :
           req' = [req EXCEPT ![r].size = n]
      /\ Goto(r, "record")
      /\ UNCHANGED <<file, old, sessions, used, index, created, torn, stops>>

\* Mutant of AppendRecord: the length of what is missing is added.
AppendRecordAdds(r) ==
  LET i == req[r].id
  IN  /\ pc[r] = "record"
      /\ sessions' = [j \in DOMAIN sessions |->
                        IF j = i THEN sessions[j] + req[r].size ELSE sessions[j]]
      /\ IF req[r].digest = None THEN Answer(r) ELSE Goto(r, "take") /\ UNCHANGED req
      /\ UNCHANGED <<file, old, used, index, created, torn, stops>>

\* The size is entered if the session still exists.  A PATCH is answered.
AppendRecord(r) ==
  LET i == req[r].id
  IN  /\ pc[r] = "record"
      /\ sessions' = [j \in DOMAIN sessions |->
                        IF j = i THEN req[r].size ELSE sessions[j]]
      /\ IF req[r].digest = None THEN Answer(r) ELSE Goto(r, "take") /\ UNCHANGED req
      /\ UNCHANGED <<file, old, used, index, created, torn, stops>>

\* upload_put: the session is taken out of the map, 404 if it is not there.
PutTake(r) ==
  LET i == req[r].id
  IN  /\ pc[r] = "take"
      /\ sessions' = [j \in DOMAIN sessions \ {i} |-> sessions[j]]
      /\ IF i \in DOMAIN sessions THEN Goto(r, "hash") /\ UNCHANGED req ELSE Answer(r)
      /\ UNCHANGED <<file, old, used, index, created, torn, stops>>

\* Mutant of PutHash: the digest of the request is trusted.
PutHashTrusts(r) ==
  LET i == req[r].id
  IN  /\ pc[r] = "hash"
      /\ IF file[i] # None
         THEN /\ req' = [req EXCEPT ![r].hash = req[r].digest]
              /\ Goto(r, "import")
              /\ UNCHANGED <<file, old>>
         ELSE Answer(r) /\ Unlink(i)
      /\ UNCHANGED <<sessions, used, index, created, torn, stops>>

\* put_blob_file: sha256_file.  A file that is gone or another digest than
\* the one asked for is an error, and the file is removed.
PutHash(r) ==
  LET i == req[r].id
  IN  /\ pc[r] = "hash"
      /\ IF file[i] # None /\ file[i] = req[r].digest
         THEN /\ req' = [req EXCEPT ![r].hash = file[i]]
              /\ Goto(r, "import")
              /\ UNCHANGED <<file, old>>
         ELSE Answer(r) /\ Unlink(i)
      /\ UNCHANGED <<sessions, used, index, created, torn, stops>>

\* Mutant of PutImport: the file stays.
PutImportKeeps(r) ==
  LET i == req[r].id
  IN  /\ pc[r] = "import"
      /\ IF file[i] = None
         THEN Answer(r) /\ UNCHANGED index
         ELSE /\ index' = [d \in DOMAIN index \cup {req[r].hash} |->
                             IF d = req[r].hash THEN file[i] ELSE index[d]]
              /\ Goto(r, "created") /\ UNCHANGED req
      /\ UNCHANGED <<file, old, sessions, used, created, torn, stops>>

\* put_blob_file: add_path imports what the file holds now and the index is
\* told that this is the content of the digest that was computed before.
PutImport(r) ==
  LET i == req[r].id
  IN  /\ pc[r] = "import"
      /\ IF file[i] = None
         THEN Answer(r) /\ UNCHANGED index
         ELSE /\ index' = [d \in DOMAIN index \cup {req[r].hash} |->
                             IF d = req[r].hash THEN file[i] ELSE index[d]]
              /\ Goto(r, "created") /\ UNCHANGED req
      /\ Unlink(i)
      /\ UNCHANGED <<sessions, used, created, torn, stops>>

\* The 201 with Docker-Content-Digest.
PutAnswer(r) ==
  /\ pc[r] = "created"
  /\ created' = created \cup {req[r].digest}
  /\ Answer(r)
  /\ UNCHANGED <<file, old, sessions, used, index, torn, stops>>

\* The client leaves, and the handler is dropped where it awaits.  A removal
\* of the file is carried out once it was begun, the index is not written.
Leave(r) ==
  LET i == req[r].id
  IN  /\ pc[r] \in {"enter", "lookup", "open", "record", "take", "hash", "import"}
      /\ \/ pc[r] = "import" /\ Unlink(i)
         \/ UNCHANGED <<file, old>>
      /\ torn' = torn \cup {i}
      /\ Answer(r)
      /\ UNCHANGED <<sessions, used, index, created, stops>>

\* upload_cancel, at any time: the session, then its file.
Cancel(r, i) ==
  /\ pc[r] = "idle" /\ i \in DOMAIN sessions
  /\ sessions' = [j \in DOMAIN sessions \ {i} |-> sessions[j]]
  /\ req' = [req EXCEPT ![r].id = i]
  /\ Goto(r, "unlink")
  /\ UNCHANGED <<file, old, used, index, created, torn, stops>>

CancelUnlink(r) ==
  /\ pc[r] = "unlink"
  /\ Unlink(req[r].id)
  /\ Answer(r)
  /\ UNCHANGED <<sessions, used, index, created, torn, stops>>

-----------------------------------------------------------------------------
\* A day goes by without a write.
DayPasses(i) ==
  /\ file[i] # None /\ i \notin old
  /\ old' = old \cup {i}
  /\ UNCHANGED <<file, sessions, used, pc, req, index, created, torn, stops>>

\* Mutant of Prune: the files of the sessions that are known.
PruneKnown ==
  /\ old # {}
  /\ file' = [i \in Id |-> IF i \in old /\ i \in DOMAIN sessions THEN None ELSE file[i]]
  /\ old' = {}
  /\ UNCHANGED <<sessions, used, pc, req, index, created, torn, stops>>

\* prune_uploads, of the periodic gc: a session may still have the file.
Prune ==
  /\ old # {}
  /\ file' = [i \in Id |-> IF i \in old THEN None ELSE file[i]]
  /\ old' = {}
  /\ UNCHANGED <<sessions, used, pc, req, index, created, torn, stops>>

\* The daemon stops: requests and sessions are gone, files stay.
Stop ==
  /\ stops < MaxStops
  /\ stops' = stops + 1
  /\ sessions' = <<>>
  /\ pc' = [r \in Request |-> "idle"]
  /\ req' = [r \in Request |-> NoReq]
  /\ UNCHANGED <<file, old, used, index, created, torn>>

Init ==
  /\ file = [i \in Id |-> None] /\ old = {} /\ sessions = <<>> /\ used = {}
  /\ pc = [r \in Request |-> "idle"] /\ req = [r \in Request |-> NoReq]
  /\ index = <<>> /\ created = {} /\ torn = {} /\ stops = 0

\* A request goes on.
Step(r) ==
  \/ StartEnter(r) \/ AppendLookup(r) \/ AppendOpen(r) \/ AppendChunk(r)
  \/ AppendBreaks(r) \/ AppendMeasure(r) \/ AppendRecord(r)
  \/ PutTake(r) \/ PutHash(r) \/ PutImport(r) \/ PutAnswer(r) \/ CancelUnlink(r)
  \/ Leave(r)

Next ==
  \/ \E r \in Request, i \in Id :
       \/ \E body \in Content, d \in Content \cup {None} :
            Begin(r, i, d, body) \/ Start(r, i, d, body)
       \/ Cancel(r, i)
  \/ \E r \in Request : Step(r)
  \/ \E i \in Id : DayPasses(i)
  \/ Prune \/ Stop

\* Requests go on or break off, time passes and the periodic gc runs.
Fairness ==
  /\ \A r \in Request : WF_vars(Step(r))
  /\ \A i \in Id : WF_vars(DayPasses(i))
  /\ WF_vars(Prune)

Spec == Init /\ [][Next]_vars
FairSpec == Spec /\ Fairness

-----------------------------------------------------------------------------
\* Reads.  A range is <<first, last>>, <<first, None>> or <<None, suffix>>.

\* Mutant of ParseRange: the end is not cut to the size.
ParseRangeLong(spec, size) ==
  LET start == IF spec[1] = None
               THEN IF spec[2] >= size THEN 0 ELSE size - spec[2]
               ELSE spec[1]
      end == IF spec[1] = None \/ spec[2] = None THEN size - 1 ELSE spec[2]
  IN  IF size > 0 /\ start < size /\ start <= end /\ spec # <<None, 0>>
      THEN <<start, end>> ELSE None

\* parse_range: the first and the last byte to send, None for a 416.
ParseRange(spec, size) ==
  LET start == IF spec[1] = None
               THEN IF spec[2] >= size THEN 0 ELSE size - spec[2]
               ELSE spec[1]
      end == IF spec[1] = None \/ spec[2] = None \/ spec[2] >= size
             THEN size - 1 ELSE spec[2]
  IN  IF size > 0 /\ start < size /\ start <= end /\ spec # <<None, 0>>
      THEN <<start, end>> ELSE None

\* blob_get: Content-Length and the positions of the bytes that are sent.  The
\* size is the one of the file that was hashed, the bytes are the stored ones.
BlobGet(d, spec) ==
  LET range == ParseRange(spec, Len(d))
  IN  IF range = None THEN [length |-> 0, sent |-> {}]
      ELSE [length |-> range[2] - range[1] + 1,
            sent |-> {p \in range[1] .. range[2] : p < Len(index[d])}]

\* upload_status: the last byte of the Range header, 0-0 for an empty file.
UploadStatus(i) == IF sessions[i] = 0 THEN 0 ELSE sessions[i] - 1

-----------------------------------------------------------------------------
TypeOK ==
  /\ file \in [Id -> Content \cup {None}] /\ old \subseteq Id
  /\ DOMAIN sessions \subseteq used /\ used \subseteq Id
  /\ \A i \in DOMAIN sessions : sessions[i] \in 0 .. MaxLen
  /\ DOMAIN index \subseteq Content /\ \A d \in DOMAIN index : index[d] \in Content
  /\ created \subseteq Content /\ torn \subseteq used /\ stops \in 0 .. MaxStops

\* What is stored under a digest has that digest, and what was answered with
\* 201 is stored (store.rs, put_blob_file: "the sha256 must match").
StoredMatches ==
  /\ \A d \in DOMAIN index : index[d] = d
  /\ created \subseteq DOMAIN index

\* A session that is over leaves no file: one without a session is being
\* worked on, or was left by a daemon that stopped or a client that left.
FilesHaveSessions ==
  \A i \in Id : file[i] # None /\ Idle(i) => i \in DOMAIN sessions \cup torn \/ stops > 0

\* The position a client is told to go on from is the end of the file, unless
\* a request broke off or the file was pruned; then it is not past the end.
StatusTruthful ==
  \A i \in DOMAIN sessions :
    Idle(i) /\ file[i] \notin {None, <<>>} =>
      LET last == Len(file[i]) - 1
      IN  IF i \in torn THEN UploadStatus(i) <= last ELSE UploadStatus(i) = last

\* A read of a range sends the bytes of the blob that RFC 9110 selects, as
\* many as Content-Length says.
RangesExact ==
  \A d \in DOMAIN index :
    LET size == Len(d)
        Check(spec, expect) ==
          LET got == BlobGet(d, spec)
          IN  got.sent = expect /\ got.length = Cardinality(expect)
    IN  \A a, b \in 0 .. MaxLen + 1 :
          /\ Check(<<a, b>>, {p \in 0 .. size - 1 : a <= p /\ p <= b})
          /\ Check(<<a, None>>, {p \in 0 .. size - 1 : a <= p})
          /\ Check(<<None, b>>, {p \in 0 .. size - 1 : p + b >= size})

\* Every upload file goes: by its session, or by the gc a day later, also
\* when the daemon stopped in between.
FilesGo == \A i \in Id : file[i] # None ~> file[i] = None

\* A session of the map can be continued.
SessionUsable == \A i \in DOMAIN sessions : Idle(i) => file[i] # None
=============================================================================
