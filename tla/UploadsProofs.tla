---------------------------- MODULE UploadsProofs ----------------------------
(***************************************************************************)
(* Blob uploads, for any sessions, requests and contents: no upload file   *)
(* is left without a session, and with the bodies of a session apart what  *)
(* is stored has its digest, the reported position is the end of the file, *)
(* and a range is answered with the bytes that it names.                   *)
(***************************************************************************)
EXTENDS Uploads, FiniteSetTheorems, TLAPS

Req ==
  [id : Id \cup {None}, body : Content, sends : BOOLEAN,
   digest : Content \cup {None}, size : 0 .. MaxLen, hash : Content \cup {None}]

Place ==
  {"idle", "enter", "lookup", "open", "append", "record", "take", "hash", "import",
   "created", "unlink"}

\* The places of a PATCH or PUT: neither idle nor a cancellation.
Sending == Place \ {"idle", "unlink"}

\* A request that is under way has a session that was given out, one with
\* something left of a body sends, and a PUT has a digest, the one computed
\* once that was compared.
Flow(r) ==
  /\ pc[r] = "idle" => req[r] = NoReq
  /\ pc[r] # "idle" => req[r].id \in used
  /\ req[r].body # <<>> => req[r].sends
  /\ pc[r] = "unlink" => ~req[r].sends
  /\ pc[r] \in {"take", "hash", "import", "created"} => req[r].digest \in Content
  /\ pc[r] = "import" => req[r].hash = req[r].digest

Flows ==
  /\ pc \in [Request -> Place]
  /\ req \in [Request -> Req]
  /\ \A r \in Request : Flow(r)

\* A file without a session is worked on by the request that made it or that
\* took the session out of the map.
Filed(i) ==
  \/ i \in DOMAIN sessions \cup torn
  \/ stops > 0
  \/ \E r \in Request : req[r].id = i /\ pc[r] \in {"enter", "hash", "import", "unlink"}
FileInv == \A i \in Id : file[i] # None => Filed(i)

\* A request that sends a body shares its session with cancellations only.
AloneInv ==
  \A q, r \in Request :
    q # r /\ pc[q] \in Sending /\ pc[r] \in Sending /\ req[q].id = req[r].id
      => ~req[q].sends

\* What a request knows of its file is so until it is used: that it is new,
\* how long it is, and what it holds.
Known(r) ==
  LET content == file[req[r].id]
  IN  /\ pc[r] = "enter" => content \in {None, <<>>}
      /\ pc[r] = "record" /\ content # None => req[r].size = Len(content)
      /\ pc[r] = "import" => content \in {None, req[r].hash}
      /\ pc[r] = "created" => req[r].digest \in DOMAIN index
KnownInv == \A r \in Request : Known(r)

\* The size of a session is not past the end of its file, and is the end
\* unless a body is being written or has broken off.
Sized(i) ==
  /\ sessions[i] <= Len(file[i])
  /\ \/ sessions[i] = Len(file[i])
     \/ i \in torn
     \/ \E r \in Request :
          req[r].id = i /\ pc[r] \in {"append", "record"} /\ req[r].sends
SizeInv == \A i \in DOMAIN sessions : file[i] # None => Sized(i)
-----------------------------------------------------------------------------
\* A map without entries.
LEMMA NoEntries == DOMAIN <<>> = {}
  OBVIOUS

\* A content is a sequence of at most MaxLen chunks.
LEMMA ContentSeq == \A c : c \in Content <=> c \in Seq(Chunk) /\ Len(c) <= MaxLen
<1>1. ASSUME NEW c \in Content
      PROVE  c \in Seq(Chunk) /\ Len(c) <= MaxLen
  <2>1. PICK n \in 0 .. MaxLen : c \in [1 .. n -> Chunk]
    BY DEF Content
  <2>. QED  BY <2>1, UploadsAssumption
<1>2. ASSUME NEW c \in Seq(Chunk), Len(c) <= MaxLen
      PROVE  c \in Content
  <2>1. c \in [1 .. Len(c) -> Chunk] /\ Len(c) \in 0 .. MaxLen
    BY <1>2, UploadsAssumption
  <2>. QED  BY <2>1 DEF Content
<1>. QED  BY <1>1, <1>2

\* What the steps do with a content: cut off a chunk, add one, measure.
LEMMA ContentFacts ==
  /\ <<>> \in Content /\ None \notin Content
  /\ \A c \in Content : Len(c) \in 0 .. MaxLen /\ (Len(c) = 0 <=> c = <<>>)
  /\ \A c \in Content : c # <<>> => Tail(c) \in Content /\ Head(c) \in Chunk
  /\ \A c \in Content, x \in Chunk :
       Len(c) < MaxLen => Append(c, x) \in Content /\ Len(Append(c, x)) = Len(c) + 1
<1>0. None \notin Content
  BY ContentSeq, UploadsAssumption
<1>1. <<>> \in Content
  <2>1. <<>> \in [1 .. 0 -> Chunk] /\ 0 \in 0 .. MaxLen
    BY UploadsAssumption
  <2>. QED  BY <2>1 DEF Content
<1>2. ASSUME NEW c \in Content
      PROVE  Len(c) \in 0 .. MaxLen /\ (Len(c) = 0 <=> c = <<>>)
  BY ContentSeq, UploadsAssumption
<1>3. ASSUME NEW c \in Content, c # <<>>
      PROVE  Tail(c) \in Content /\ Head(c) \in Chunk
  <2>1. c \in Seq(Chunk) /\ Len(c) <= MaxLen
    BY ContentSeq
  <2>2. Tail(c) \in Seq(Chunk) /\ Len(Tail(c)) = Len(c) - 1 /\ Head(c) \in Chunk
    BY <2>1, <1>3
  <2>3. Len(Tail(c)) <= MaxLen
    BY <2>1, <2>2, UploadsAssumption
  <2>. QED  BY <2>2, <2>3, ContentSeq
<1>4. ASSUME NEW c \in Content, NEW x \in Chunk, Len(c) < MaxLen
      PROVE  Append(c, x) \in Content /\ Len(Append(c, x)) = Len(c) + 1
  <2>1. c \in Seq(Chunk)
    BY ContentSeq
  <2>2. Append(c, x) \in Seq(Chunk) /\ Len(Append(c, x)) = Len(c) + 1
    BY <2>1
  <2>3. Len(Append(c, x)) <= MaxLen
    BY <2>1, <2>2, <1>4, UploadsAssumption
  <2>. QED  BY <2>2, <2>3, ContentSeq
<1>. QED  BY <1>0, <1>1, <1>2, <1>3, <1>4

\* No request is under way.
LEMMA NoReqType == NoReq \in Req /\ ~NoReq.sends /\ NoReq.body = <<>>
  BY ContentFacts, UploadsAssumption DEF NoReq, Req

\* A request that begins.
LEMMA NewReqType ==
  ASSUME NEW i \in Id, NEW body \in Content, NEW d \in Content \cup {None}
  PROVE  /\ NewReq(i, body, d) \in Req
         /\ NewReq(i, body, d).id = i /\ NewReq(i, body, d).body = body
         /\ NewReq(i, body, d).digest = d
         /\ NewReq(i, body, d).sends <=> body # <<>>
<1>1. /\ NewReq(i, body, d) \in Req
      /\ NewReq(i, body, d).id = i /\ NewReq(i, body, d).body = body
      /\ NewReq(i, body, d).sends = (body # <<>>) /\ NewReq(i, body, d).digest = d
  BY ContentFacts, UploadsAssumption DEF NewReq, NoReq, Req
<1>2. NewReq(i, body, d).sends <=> body # <<>>
  BY <1>1, Zenon
<1>. QED  BY <1>1, <1>2


\* The step of one request leaves the others as they are.
LEMMA OneFlow ==
  ASSUME Flows, NEW r \in Request, used \subseteq used',
         pc' = [pc EXCEPT ![r] = pc'[r]], req' = [req EXCEPT ![r] = req'[r]],
         pc'[r] \in Place, req'[r] \in Req, Flow(r)'
  PROVE  Flows'
<1>1. pc' \in [Request -> Place] /\ req' \in [Request -> Req]
  BY DEF Flows
<1>2. ASSUME NEW q \in Request, q # r
      PROVE  Flow(q)'
  <2>1. pc'[q] = pc[q] /\ req'[q] = req[q]
    BY <1>2 DEF Flows
  <2>. QED  BY <2>1 DEF Flows, Flow
<1>. QED  BY <1>1, <1>2 DEF Flows

\* An answered request.
LEMMA AnswerFlow ==
  ASSUME Flows, NEW r \in Request, used \subseteq used', Answer(r)
  PROVE  Flows' /\ pc'[r] = "idle" /\ req'[r] = NoReq
<1>1. /\ pc' = [pc EXCEPT ![r] = "idle"] /\ req' = [req EXCEPT ![r] = NoReq]
      /\ pc'[r] = "idle" /\ req'[r] = NoReq
  BY DEF Flows, Answer, Goto
<1>2. Flow(r)' /\ pc'[r] \in Place /\ req'[r] \in Req
  BY <1>1, NoReqType DEF Flow, Place
<1>. QED  BY <1>1, <1>2, OneFlow

\* A request that goes on, with what it has unchanged.
LEMMA GotoFlow ==
  ASSUME Flows, NEW r \in Request, NEW w \in Sending \ {"import"}, used \subseteq used',
         Goto(r, w),
         UNCHANGED req, pc[r] \in Sending,
         w \in {"take", "hash", "created"} => req[r].digest \in Content
  PROVE  Flows' /\ pc'[r] = w
<1>1. pc' = [pc EXCEPT ![r] = w] /\ pc'[r] = w /\ req' = [req EXCEPT ![r] = req'[r]]
  BY DEF Flows, Goto
<1>2. Flow(r)' /\ pc'[r] \in Place /\ req'[r] \in Req
  BY <1>1 DEF Flow, Flows, Place, Sending
<1>. QED  BY <1>1, <1>2, OneFlow

\* A request keeps its shape.
LEMMA FlowStep == TypeOK /\ Flows /\ [Next]_vars => Flows'
<1>. SUFFICES ASSUME TypeOK, Flows, [Next]_vars
              PROVE  Flows'
  OBVIOUS
<1>1. CASE UNCHANGED <<used, pc, req>>
  BY <1>1 DEF Flows, Flow
<1>2. ASSUME NEW r \in Request, NEW i \in Id, NEW d \in Content \cup {None},
             NEW body \in Content, Begin(r, i, d, body)
      PROVE  Flows'
  <2>1. /\ pc' = [pc EXCEPT ![r] = "lookup"] 
        /\ req' = [req EXCEPT ![r] = NewReq(i, body, d)]
        /\ i \in used' /\ used \subseteq used'
    BY <1>2 DEF Begin, Goto
  <2>2. pc'[r] = "lookup" /\ req'[r] = NewReq(i, body, d)
    BY <2>1 DEF Flows
  <2>3. /\ req'[r] \in Req /\ req'[r].id = i
        /\ req'[r].body # <<>> => req'[r].sends
    BY <2>2, NewReqType
  <2>4. Flow(r)' /\ pc'[r] \in Place
    BY <2>1, <2>2, <2>3 DEF Flow, Place
  <2>. QED  BY <2>1, <2>2, <2>3, <2>4, OneFlow
<1>3. ASSUME NEW r \in Request, NEW i \in Id, NEW d \in Content \cup {None},
             NEW body \in Content, Start(r, i, d, body)
      PROVE  Flows'
  <2>1. /\ pc' = [pc EXCEPT ![r] = "enter"] 
        /\ req' = [req EXCEPT ![r] = NewReq(i, body, d)]
        /\ i \in used' /\ used \subseteq used'
    BY <1>3 DEF Start, Goto
  <2>2. pc'[r] = "enter" /\ req'[r] = NewReq(i, body, d)
    BY <2>1 DEF Flows
  <2>3. /\ req'[r] \in Req /\ req'[r].id = i
        /\ req'[r].body # <<>> => req'[r].sends
    BY <2>2, NewReqType
  <2>4. Flow(r)' /\ pc'[r] \in Place
    BY <2>1, <2>2, <2>3 DEF Flow, Place
  <2>. QED  BY <2>1, <2>2, <2>3, <2>4, OneFlow
<1>4. ASSUME NEW r \in Request, NEW i \in Id, Cancel(r, i)
      PROVE  Flows'
  <2>1. /\ pc' = [pc EXCEPT ![r] = "unlink"] /\ req' = [req EXCEPT ![r].id = i]
        /\ i \in used /\ used' = used /\ req[r] = NoReq
    BY <1>4 DEF Cancel, Goto, Flows, Flow, TypeOK
  <2>2. pc'[r] = "unlink" /\ req'[r] = [NoReq EXCEPT !.id = i]
    BY <2>1 DEF Flows
  <2>3. Flow(r)' /\ pc'[r] \in Place /\ req'[r] \in Req
    BY <2>1, <2>2, NoReqType DEF Flow, Place, Req
  <2>. QED  BY <2>1, <2>2, <2>3, OneFlow
<1>5. ASSUME NEW r \in Request, StartEnter(r)
      PROVE  Flows'
  <2>1. /\ used' = used /\ pc[r] \in Sending
        /\ Answer(r) \/ (Goto(r, "lookup") /\ UNCHANGED req)
    BY <1>5 DEF StartEnter, Sending, Place
  <2>. QED  BY <2>1, AnswerFlow, GotoFlow DEF Sending, Place
<1>6. ASSUME NEW r \in Request, AppendLookup(r)
      PROVE  Flows'
  <2>1. /\ used' = used /\ pc[r] \in Sending
        /\ Answer(r) \/ (Goto(r, "open") /\ UNCHANGED req)
    BY <1>6 DEF AppendLookup, Sending, Place
  <2>. QED  BY <2>1, AnswerFlow, GotoFlow DEF Sending, Place
<1>7. ASSUME NEW r \in Request, AppendOpen(r)
      PROVE  Flows'
  <2>1. /\ used' = used /\ pc[r] \in Sending
        /\ Answer(r) \/ (Goto(r, "append") /\ UNCHANGED req)
    BY <1>7 DEF AppendOpen, Sending, Place
  <2>. QED  BY <2>1, AnswerFlow, GotoFlow DEF Sending, Place
<1>8. ASSUME NEW r \in Request, AppendChunk(r)
      PROVE  Flows'
  <2>1. /\ req' = [req EXCEPT ![r].body = Tail(@)] /\ pc' = pc /\ used' = used
        /\ pc[r] = "append" /\ req[r].body # <<>>
    BY <1>8 DEF AppendChunk
  <2>2. req'[r] = [req[r] EXCEPT !.body = Tail(@)] /\ req[r] \in Req
    BY <2>1 DEF Flows
  <2>3. Tail(req[r].body) \in Content
    BY <2>1, <2>2, ContentFacts DEF Req
  <2>4. Flow(r)' /\ pc'[r] \in Place /\ req'[r] \in Req
    BY <2>1, <2>2, <2>3 DEF Flow, Flows, Place, Req
  <2>5. pc' = [pc EXCEPT ![r] = pc'[r]] /\ req' = [req EXCEPT ![r] = req'[r]]
    BY <2>1, <2>2 DEF Flows
  <2>. QED  BY <2>1, <2>4, <2>5, OneFlow
<1>9. ASSUME NEW r \in Request, AppendBreaks(r)
      PROVE  Flows'
  BY <1>9, AnswerFlow DEF AppendBreaks
<1>10. ASSUME NEW r \in Request, AppendMeasure(r)
      PROVE  Flows'
  <2>1. PICK n \in 0 .. MaxLen : req' = [req EXCEPT ![r].size = n]
    <3>1. file[req[r].id] # None => Len(file[req[r].id]) \in 0 .. MaxLen
      BY <1>10, ContentFacts, UploadsAssumption DEF AppendMeasure, TypeOK, Flows, Flow
    <3>. QED  BY <1>10, <3>1 DEF AppendMeasure
  <2>2. pc' = [pc EXCEPT ![r] = "record"] /\ used' = used /\ pc[r] = "append"
    BY <1>10 DEF AppendMeasure, Goto
  <2>3. req'[r] = [req[r] EXCEPT !.size = n] /\ req[r] \in Req /\ pc'[r] = "record"
    BY <2>1, <2>2 DEF Flows
  <2>4. Flow(r)' /\ pc'[r] \in Place /\ req'[r] \in Req
    BY <2>2, <2>3 DEF Flow, Flows, Place, Req
  <2>. QED  BY <2>1, <2>2, <2>3, <2>4, OneFlow
<1>11. ASSUME NEW r \in Request, AppendRecord(r)
      PROVE  Flows'
  <2>1. /\ used' = used /\ pc[r] \in Sending
        /\ Answer(r) \/ (Goto(r, "take") /\ UNCHANGED req /\ req[r].digest \in Content)
    BY <1>11 DEF AppendRecord, Sending, Place, Flows, Flow, Req
  <2>. QED  BY <2>1, AnswerFlow, GotoFlow DEF Sending, Place
<1>12. ASSUME NEW r \in Request, PutTake(r)
      PROVE  Flows'
  <2>1. /\ used' = used /\ pc[r] \in Sending
        /\ Answer(r) \/ (Goto(r, "hash") /\ UNCHANGED req /\ req[r].digest \in Content)
    BY <1>12 DEF PutTake, Sending, Place, Flows, Flow, Req
  <2>. QED  BY <2>1, AnswerFlow, GotoFlow DEF Sending, Place
<1>13. ASSUME NEW r \in Request, PutHash(r)
      PROVE  Flows'
  <2>1. used' = used /\ pc[r] = "hash"
    BY <1>13 DEF PutHash
  <2>2. CASE Answer(r)
    BY <2>1, <2>2, AnswerFlow
  <2>3. CASE /\ file[req[r].id] = req[r].digest
             /\ req' = [req EXCEPT ![r].hash = file[req[r].id]] /\ Goto(r, "import")
    <3>1. pc' = [pc EXCEPT ![r] = "import"] /\ pc'[r] = "import"
      BY <2>3 DEF Goto, Flows
    <3>2. req'[r] = [req[r] EXCEPT !.hash = req[r].digest] /\ req[r] \in Req
      BY <2>3 DEF Flows
    <3>3. req[r].digest \in Content
      BY <2>1 DEF Flows, Flow
    <3>4. Flow(r)' /\ pc'[r] \in Place /\ req'[r] \in Req
      BY <2>1, <3>1, <3>2, <3>3 DEF Flow, Flows, Place, Req
    <3>5. req' = [req EXCEPT ![r] = req'[r]]
      BY <2>3, <3>2 DEF Flows
    <3>. QED  BY <2>1, <3>1, <3>4, <3>5, OneFlow
  <2>. QED  BY <1>13, <2>2, <2>3 DEF PutHash
<1>14. ASSUME NEW r \in Request, PutImport(r)
      PROVE  Flows'
  <2>1. /\ used' = used /\ pc[r] \in Sending
        /\ Answer(r) \/ (Goto(r, "created") /\ UNCHANGED req /\ req[r].digest \in Content)
    BY <1>14 DEF PutImport, Sending, Place, Flows, Flow, Req
  <2>. QED  BY <2>1, AnswerFlow, GotoFlow DEF Sending, Place
<1>15. ASSUME NEW r \in Request, PutAnswer(r)
      PROVE  Flows'
  BY <1>15, AnswerFlow DEF PutAnswer
<1>16. ASSUME NEW r \in Request, CancelUnlink(r)
      PROVE  Flows'
  BY <1>16, AnswerFlow DEF CancelUnlink
<1>17. ASSUME NEW r \in Request, Leave(r)
      PROVE  Flows'
  BY <1>17, AnswerFlow DEF Leave
<1>18. CASE Stop
  BY <1>18, NoReqType DEF Stop, Flows, Flow, Place
<1>. QED
  BY <1>1, <1>2, <1>3, <1>4, <1>5, <1>6, <1>7, <1>8, <1>9, <1>10, <1>11, <1>12, <1>13,
     <1>14, <1>15, <1>16, <1>17, <1>18 DEF Next, Step, DayPasses, Prune, vars

\* The files, the sessions and the index keep their types.
LEMMA TypeStep == TypeOK /\ Flows /\ [Next]_vars => TypeOK'
<1>. SUFFICES ASSUME TypeOK, Flows, [Next]_vars
              PROVE  TypeOK'
  OBVIOUS
<1>1. CASE UNCHANGED <<file, old, sessions, used, index, created, torn, stops>>
  BY <1>1 DEF TypeOK
<1>2. ASSUME NEW r \in Request, NEW i \in Id, NEW d \in Content \cup {None},
             NEW body \in Content, Start(r, i, d, body)
      PROVE  TypeOK'
  BY <1>2, ContentFacts DEF Start, TypeOK
<1>3. ASSUME NEW r \in Request, NEW i \in Id, Cancel(r, i)
      PROVE  TypeOK'
  BY <1>3 DEF Cancel, TypeOK
<1>4. ASSUME NEW r \in Request, StartEnter(r)
      PROVE  TypeOK'
  <2>1. req[r].id \in used /\ 0 \in 0 .. MaxLen
    BY <1>4, UploadsAssumption DEF StartEnter, Flows, Flow
  <2>. QED  BY <1>4, <2>1 DEF StartEnter, TypeOK
<1>5. ASSUME NEW r \in Request, AppendChunk(r)
      PROVE  TypeOK'
  <2>1. CASE file[req[r].id] = None
    BY <1>5, <2>1 DEF AppendChunk, TypeOK
  <2>2. CASE file[req[r].id] # None
    <3>1. req[r].id \in Id /\ req[r].body \in Content
      BY <1>5 DEF AppendChunk, TypeOK, Flows, Flow, Req
    <3>2. Append(file[req[r].id], Head(req[r].body)) \in Content
      BY <1>5, <2>2, <3>1, ContentFacts DEF AppendChunk, TypeOK
    <3>. QED  BY <1>5, <2>2, <3>1, <3>2 DEF AppendChunk, TypeOK
  <2>. QED  BY <2>1, <2>2
<1>6. ASSUME NEW r \in Request, AppendBreaks(r)
      PROVE  TypeOK'
  <2>1. req[r].id \in used
    BY <1>6 DEF AppendBreaks, Flows, Flow
  <2>. QED  BY <1>6, <2>1 DEF AppendBreaks, TypeOK
<1>7. ASSUME NEW r \in Request, AppendRecord(r)
      PROVE  TypeOK'
  <2>1. req[r].size \in 0 .. MaxLen
    BY DEF Flows, Req
  <2>. QED  BY <1>7, <2>1 DEF AppendRecord, TypeOK
<1>8. ASSUME NEW r \in Request, PutTake(r)
      PROVE  TypeOK'
  BY <1>8 DEF PutTake, TypeOK
<1>9. ASSUME NEW r \in Request, PutHash(r)
      PROVE  TypeOK'
  BY <1>9 DEF PutHash, TypeOK, Unlink
<1>10. ASSUME NEW r \in Request, PutImport(r)
      PROVE  TypeOK'
  <2>1. req[r].id \in Id /\ req[r].hash \in Content
    BY <1>10 DEF PutImport, TypeOK, Flows, Flow, Req
  <2>. QED  BY <1>10, <2>1 DEF PutImport, TypeOK, Unlink
<1>11. ASSUME NEW r \in Request, PutAnswer(r)
      PROVE  TypeOK'
  BY <1>11 DEF PutAnswer, TypeOK, Flows, Flow
<1>12. ASSUME NEW r \in Request, CancelUnlink(r)
      PROVE  TypeOK'
  BY <1>12 DEF CancelUnlink, TypeOK, Unlink
<1>13. ASSUME NEW r \in Request, Leave(r)
      PROVE  TypeOK'
  <2>1. req[r].id \in used
    BY <1>13 DEF Leave, Flows, Flow
  <2>. QED  BY <1>13, <2>1 DEF Leave, TypeOK, Unlink
<1>14. ASSUME NEW i \in Id, DayPasses(i)
      PROVE  TypeOK'
  BY <1>14 DEF DayPasses, TypeOK
<1>15. CASE Prune
  BY <1>15 DEF Prune, TypeOK
<1>16. CASE Stop
  BY <1>16, NoEntries, UploadsAssumption DEF Stop, TypeOK
<1>. QED
  BY <1>1, <1>2, <1>3, <1>4, <1>5, <1>6, <1>7, <1>8, <1>9, <1>10, <1>11, <1>12, <1>13,
     <1>14, <1>15, <1>16 DEF Next, Step, AppendLookup, AppendMeasure, AppendOpen, Begin,
                             vars

\* The end of a request, which leaves the others.
LEMMA AnswerOne ==
  ASSUME Flows, NEW r \in Request, Answer(r)
  PROVE  /\ pc'[r] = "idle" /\ req'[r] = NoReq
         /\ \A q \in Request : q # r => pc'[q] = pc[q] /\ req'[q] = req[q]
  BY DEF Flows, Answer, Goto

\* A request goes on, and the others stay where they are.
LEMMA GotoOne ==
  ASSUME Flows, NEW r \in Request, NEW w, Goto(r, w)
  PROVE  pc'[r] = w /\ \A q \in Request : q # r => pc'[q] = pc[q]
  BY DEF Flows, Goto

\* A request begins, and the others keep what they have.
LEMMA NewOne ==
  ASSUME Flows, NEW r \in Request, NEW i \in Id, NEW body \in Content,
         NEW d \in Content \cup {None},
         req' = [req EXCEPT ![r] = NewReq(i, body, d)]
  PROVE  /\ req'[r].id = i /\ (req'[r].sends <=> body # <<>>)
         /\ \A q \in Request : q # r => req'[q] = req[q]
<1>1. req'[r] = NewReq(i, body, d) /\ \A q \in Request : q # r => req'[q] = req[q]
  BY DEF Flows
<1>. QED  BY <1>1, NewReqType

\* A session that is over leaves no file.
LEMMA FileStep == TypeOK /\ Flows /\ FileInv /\ [Next]_vars => FileInv'
<1>. SUFFICES ASSUME TypeOK, Flows, FileInv, [Next]_vars
              PROVE  FileInv'
  OBVIOUS
<1>1. CASE UNCHANGED <<file, sessions, torn, stops, pc, req>>
  BY <1>1 DEF FileInv, Filed
<1>2. ASSUME NEW r \in Request, NEW i \in Id, NEW d \in Content \cup {None},
             NEW body \in Content, Begin(r, i, d, body)
      PROVE  FileInv'
  <2>. SUFFICES ASSUME NEW j \in Id, file'[j] # None
                PROVE  Filed(j)'
    BY DEF FileInv
  <2>0. /\ \A q \in Request : q # r => pc'[q] = pc[q] /\ req'[q] = req[q]
        /\ pc[r] = "idle"
    BY <1>2, GotoOne, NewOne DEF Begin, MayBegin
  <2>. QED  BY <1>2, <2>0 DEF FileInv, Filed, Begin
<1>3. ASSUME NEW r \in Request, NEW i \in Id, NEW d \in Content \cup {None},
             NEW body \in Content, Start(r, i, d, body)
      PROVE  FileInv'
  <2>. SUFFICES ASSUME NEW j \in Id, file'[j] # None
                PROVE  Filed(j)'
    BY DEF FileInv
  <2>0. /\ \A q \in Request : q # r => pc'[q] = pc[q] /\ req'[q] = req[q]
        /\ pc[r] = "idle" /\ pc'[r] = "enter" /\ req'[r].id = i
    <3>1. /\ pc[r] = "idle" /\ pc'[r] = "enter"
          /\ \A q \in Request : q # r => pc'[q] = pc[q]
      BY <1>3, GotoOne DEF Start
    <3>2. req' = [req EXCEPT ![r] = NewReq(i, body, d)]
      BY <1>3 DEF Start
    <3>. QED  BY <3>1, <3>2, NewOne
  <2>1. CASE j = i
    BY <2>0, <2>1 DEF Filed
  <2>2. CASE j # i
    <3>1. file'[j] = file[j]
      BY <1>3, <2>2 DEF Start, TypeOK
    <3>. QED  BY <1>3, <2>0, <3>1 DEF FileInv, Filed, Start
  <2>. QED  BY <2>1, <2>2
<1>4. ASSUME NEW r \in Request, NEW i \in Id, Cancel(r, i)
      PROVE  FileInv'
  <2>. SUFFICES ASSUME NEW j \in Id, file'[j] # None
                PROVE  Filed(j)'
    BY DEF FileInv
  <2>0. /\ \A q \in Request : q # r => pc'[q] = pc[q] /\ req'[q] = req[q]
        /\ pc[r] = "idle" /\ pc'[r] = "unlink" /\ req'[r].id = i
    BY <1>4, GotoOne DEF Cancel, Flows, Req
  <2>. QED  BY <1>4, <2>0 DEF FileInv, Filed, Cancel
<1>5. ASSUME NEW r \in Request, StartEnter(r)
      PROVE  FileInv'
  <2>. SUFFICES ASSUME NEW j \in Id, file'[j] # None
                PROVE  Filed(j)'
    BY DEF FileInv
  <2>0. \A q \in Request : q # r => pc'[q] = pc[q] /\ req'[q] = req[q]
    BY <1>5, AnswerOne, GotoOne DEF StartEnter
  <2>. QED  BY <1>5, <2>0 DEF FileInv, Filed, StartEnter
<1>6. ASSUME NEW r \in Request, AppendLookup(r)
      PROVE  FileInv'
  <2>. SUFFICES ASSUME NEW j \in Id, file'[j] # None
                PROVE  Filed(j)'
    BY DEF FileInv
  <2>0. /\ \A q \in Request : q # r => pc'[q] = pc[q] /\ req'[q] = req[q]
        /\ pc[r] \notin {"enter", "hash", "import", "unlink"}
    BY <1>6, AnswerOne, GotoOne DEF AppendLookup
  <2>. QED  BY <1>6, <2>0 DEF FileInv, Filed, AppendLookup
<1>7. ASSUME NEW r \in Request, AppendOpen(r)
      PROVE  FileInv'
  <2>. SUFFICES ASSUME NEW j \in Id, file'[j] # None
                PROVE  Filed(j)'
    BY DEF FileInv
  <2>0. /\ \A q \in Request : q # r => pc'[q] = pc[q] /\ req'[q] = req[q]
        /\ pc[r] \notin {"enter", "hash", "import", "unlink"}
    BY <1>7, AnswerOne, GotoOne DEF AppendOpen
  <2>. QED  BY <1>7, <2>0 DEF FileInv, Filed, AppendOpen
<1>8. ASSUME NEW r \in Request, AppendChunk(r)
      PROVE  FileInv'
  <2>. SUFFICES ASSUME NEW j \in Id, file'[j] # None
                PROVE  Filed(j)'
    BY DEF FileInv
  <2>0. /\ \A q \in Request : q # r => pc'[q] = pc[q] /\ req'[q] = req[q]
        /\ pc[r] \notin {"enter", "hash", "import", "unlink"}
        /\ file'[j] # None => file[j] # None
    BY <1>8 DEF AppendChunk, Flows, TypeOK
  <2>. QED  BY <1>8, <2>0 DEF FileInv, Filed, AppendChunk
<1>9. ASSUME NEW r \in Request, AppendBreaks(r)
      PROVE  FileInv'
  <2>. SUFFICES ASSUME NEW j \in Id, file'[j] # None
                PROVE  Filed(j)'
    BY DEF FileInv
  <2>0. /\ \A q \in Request : q # r => pc'[q] = pc[q] /\ req'[q] = req[q]
        /\ pc[r] \notin {"enter", "hash", "import", "unlink"}
    BY <1>9, AnswerOne, GotoOne DEF AppendBreaks
  <2>. QED  BY <1>9, <2>0 DEF FileInv, Filed, AppendBreaks
<1>10. ASSUME NEW r \in Request, AppendMeasure(r)
      PROVE  FileInv'
  <2>. SUFFICES ASSUME NEW j \in Id, file'[j] # None
                PROVE  Filed(j)'
    BY DEF FileInv
  <2>0. /\ \A q \in Request : q # r => pc'[q] = pc[q] /\ req'[q] = req[q]
        /\ pc[r] \notin {"enter", "hash", "import", "unlink"}
    BY <1>10, GotoOne DEF AppendMeasure, Flows
  <2>. QED  BY <1>10, <2>0 DEF FileInv, Filed, AppendMeasure
<1>11. ASSUME NEW r \in Request, AppendRecord(r)
      PROVE  FileInv'
  <2>. SUFFICES ASSUME NEW j \in Id, file'[j] # None
                PROVE  Filed(j)'
    BY DEF FileInv
  <2>0. /\ \A q \in Request : q # r => pc'[q] = pc[q] /\ req'[q] = req[q]
        /\ pc[r] \notin {"enter", "hash", "import", "unlink"}
    BY <1>11, AnswerOne, GotoOne DEF AppendRecord
  <2>. QED  BY <1>11, <2>0 DEF FileInv, Filed, AppendRecord
<1>12. ASSUME NEW r \in Request, PutTake(r)
      PROVE  FileInv'
  <2>. SUFFICES ASSUME NEW j \in Id, file'[j] # None
                PROVE  Filed(j)'
    BY DEF FileInv
  <2>0. /\ \A q \in Request : q # r => pc'[q] = pc[q] /\ req'[q] = req[q]
        /\ pc[r] = "take"
        /\ req[r].id \in DOMAIN sessions => pc'[r] = "hash" /\ req'[r] = req[r]
    BY <1>12, AnswerOne, GotoOne DEF PutTake
  <2>. QED  BY <1>12, <2>0 DEF FileInv, Filed, PutTake
<1>13. ASSUME NEW r \in Request, PutHash(r)
      PROVE  FileInv'
  <2>. SUFFICES ASSUME NEW j \in Id, file'[j] # None
                PROVE  Filed(j)'
    BY DEF FileInv
  <2>0. /\ \A q \in Request : q # r => pc'[q] = pc[q] /\ req'[q] = req[q]
        /\ file'[j] # None => file[j] # None
        /\ j = req[r].id => file'[j] = None \/ (pc'[r] = "import" /\ req'[r].id = j)
    BY <1>13, AnswerOne, GotoOne DEF PutHash, Unlink, TypeOK, Flows, Req
  <2>. QED  BY <1>13, <2>0 DEF FileInv, Filed, PutHash
<1>14. ASSUME NEW r \in Request, PutImport(r)
      PROVE  FileInv'
  <2>. SUFFICES ASSUME NEW j \in Id, file'[j] # None
                PROVE  Filed(j)'
    BY DEF FileInv
  <2>0. /\ \A q \in Request : q # r => pc'[q] = pc[q] /\ req'[q] = req[q]
        /\ j = req[r].id => file'[j] = None
        /\ file'[j] # None => file[j] # None
    BY <1>14, AnswerOne, GotoOne DEF PutImport, Unlink, TypeOK
  <2>. QED  BY <1>14, <2>0 DEF FileInv, Filed, PutImport
<1>15. ASSUME NEW r \in Request, PutAnswer(r)
      PROVE  FileInv'
  <2>. SUFFICES ASSUME NEW j \in Id, file'[j] # None
                PROVE  Filed(j)'
    BY DEF FileInv
  <2>0. /\ \A q \in Request : q # r => pc'[q] = pc[q] /\ req'[q] = req[q]
        /\ pc[r] \notin {"enter", "hash", "import", "unlink"}
    BY <1>15, AnswerOne, GotoOne DEF PutAnswer
  <2>. QED  BY <1>15, <2>0 DEF FileInv, Filed, PutAnswer
<1>16. ASSUME NEW r \in Request, CancelUnlink(r)
      PROVE  FileInv'
  <2>. SUFFICES ASSUME NEW j \in Id, file'[j] # None
                PROVE  Filed(j)'
    BY DEF FileInv
  <2>0. /\ \A q \in Request : q # r => pc'[q] = pc[q] /\ req'[q] = req[q]
        /\ j = req[r].id => file'[j] = None
        /\ file'[j] # None => file[j] # None
    BY <1>16, AnswerOne DEF CancelUnlink, Unlink, TypeOK
  <2>. QED  BY <1>16, <2>0 DEF FileInv, Filed, CancelUnlink
<1>17. ASSUME NEW r \in Request, Leave(r)
      PROVE  FileInv'
  <2>. SUFFICES ASSUME NEW j \in Id, file'[j] # None
                PROVE  Filed(j)'
    BY DEF FileInv
  <2>0. /\ \A q \in Request : q # r => pc'[q] = pc[q] /\ req'[q] = req[q]
        /\ file'[j] # None => file[j] # None
    BY <1>17, AnswerOne DEF Leave, Unlink, TypeOK
  <2>. QED  BY <1>17, <2>0 DEF FileInv, Filed, Leave
<1>18. CASE Prune
  BY <1>18 DEF FileInv, Filed, Prune
<1>19. CASE Stop
  BY <1>19, UploadsAssumption DEF FileInv, Filed, Stop, TypeOK
<1>. QED
  BY <1>1, <1>2, <1>3, <1>4, <1>5, <1>6, <1>7, <1>8, <1>9, <1>10, <1>11, <1>12, <1>13,
     <1>14, <1>15, <1>16, <1>17, <1>18, <1>19 DEF Next, Step, DayPasses, vars

\* Who sends goes on sending on the same session, or is done.
LEMMA AloneKept ==
  ASSUME AloneInv,
         \A q \in Request :
           pc'[q] \in Sending => /\ pc[q] \in Sending /\ req'[q].id = req[q].id
                                 /\ req'[q].sends = req[q].sends
  PROVE  AloneInv'
  BY DEF AloneInv

\* A client sends the bodies of a session one after the other.
LEMMA AloneStep ==
  ASSUME Apart
  PROVE  Flows /\ AloneInv /\ [Next]_vars => AloneInv'
<1>. SUFFICES ASSUME Flows, AloneInv, [Next]_vars
              PROVE  AloneInv'
  OBVIOUS
<1>1. CASE UNCHANGED <<pc, req>>
  BY <1>1, AloneKept
<1>2. ASSUME NEW r \in Request, NEW i \in Id, NEW d \in Content \cup {None},
             NEW body \in Content, Begin(r, i, d, body)
      PROVE  AloneInv'
  <2>1. /\ \A q \in Request : q # r => pc'[q] = pc[q] /\ req'[q] = req[q]
        /\ pc'[r] = "lookup" /\ req'[r].id = i /\ (req'[r].sends <=> body # <<>>)
    BY <1>2, GotoOne, NewOne DEF Begin
  <2>2. \/ \A q \in Request : pc[q] = "idle" \/ req[q].id # i
        \/ body = <<>> /\ \A q \in Request : req[q].id = i => ~req[q].sends
    BY <1>2 DEF Begin, MayBegin, Idle
  <2>. QED  BY <2>1, <2>2 DEF AloneInv, Sending, Place
<1>3. ASSUME NEW r \in Request, NEW i \in Id, NEW d \in Content \cup {None},
             NEW body \in Content, Start(r, i, d, body)
      PROVE  AloneInv'
  <2>1. /\ \A q \in Request : q # r => pc'[q] = pc[q] /\ req'[q] = req[q]
        /\ pc'[r] = "enter" /\ req'[r].id = i
    BY <1>3, GotoOne, NewOne DEF Start
  <2>2. \A q \in Request : pc[q] = "idle" \/ req[q].id # i
    BY <1>3 DEF Start, Flows, Flow
  <2>. QED  BY <2>1, <2>2 DEF AloneInv, Sending, Place
<1>4. ASSUME NEW r \in Request, NEW i \in Id, Cancel(r, i)
      PROVE  AloneInv'
  <2>1. /\ \A q \in Request : q # r => pc'[q] = pc[q] /\ req'[q] = req[q]
        /\ pc'[r] \in Sending => /\ pc[r] \in Sending /\ req'[r].id = req[r].id
                                 /\ req'[r].sends = req[r].sends
    BY <1>4, GotoOne DEF Cancel, Sending, Place, Flows, Req
  <2>. QED  BY <2>1, AloneKept
<1>5. ASSUME NEW r \in Request, StartEnter(r)
      PROVE  AloneInv'
  <2>1. /\ \A q \in Request : q # r => pc'[q] = pc[q] /\ req'[q] = req[q]
        /\ pc'[r] \in Sending => /\ pc[r] \in Sending /\ req'[r].id = req[r].id
                                 /\ req'[r].sends = req[r].sends
    BY <1>5, AnswerOne, GotoOne DEF StartEnter, Sending, Place
  <2>. QED  BY <2>1, AloneKept
<1>6. ASSUME NEW r \in Request, AppendLookup(r)
      PROVE  AloneInv'
  <2>1. /\ \A q \in Request : q # r => pc'[q] = pc[q] /\ req'[q] = req[q]
        /\ pc'[r] \in Sending => /\ pc[r] \in Sending /\ req'[r].id = req[r].id
                                 /\ req'[r].sends = req[r].sends
    BY <1>6, AnswerOne, GotoOne DEF AppendLookup, Sending, Place
  <2>. QED  BY <2>1, AloneKept
<1>7. ASSUME NEW r \in Request, AppendOpen(r)
      PROVE  AloneInv'
  <2>1. /\ \A q \in Request : q # r => pc'[q] = pc[q] /\ req'[q] = req[q]
        /\ pc'[r] \in Sending => /\ pc[r] \in Sending /\ req'[r].id = req[r].id
                                 /\ req'[r].sends = req[r].sends
    BY <1>7, AnswerOne, GotoOne DEF AppendOpen, Sending, Place
  <2>. QED  BY <2>1, AloneKept
<1>8. ASSUME NEW r \in Request, AppendChunk(r)
      PROVE  AloneInv'
  <2>1. /\ \A q \in Request : q # r => pc'[q] = pc[q] /\ req'[q] = req[q]
        /\ pc'[r] \in Sending => /\ pc[r] \in Sending /\ req'[r].id = req[r].id
                                 /\ req'[r].sends = req[r].sends
    BY <1>8 DEF AppendChunk, Sending, Place, Flows, Req
  <2>. QED  BY <2>1, AloneKept
<1>9. ASSUME NEW r \in Request, AppendBreaks(r)
      PROVE  AloneInv'
  <2>1. /\ \A q \in Request : q # r => pc'[q] = pc[q] /\ req'[q] = req[q]
        /\ pc'[r] \in Sending => /\ pc[r] \in Sending /\ req'[r].id = req[r].id
                                 /\ req'[r].sends = req[r].sends
    BY <1>9, AnswerOne DEF AppendBreaks, Sending, Place
  <2>. QED  BY <2>1, AloneKept
<1>10. ASSUME NEW r \in Request, AppendMeasure(r)
      PROVE  AloneInv'
  <2>1. /\ \A q \in Request : q # r => pc'[q] = pc[q] /\ req'[q] = req[q]
        /\ pc'[r] \in Sending => /\ pc[r] \in Sending /\ req'[r].id = req[r].id
                                 /\ req'[r].sends = req[r].sends
    BY <1>10, GotoOne DEF AppendMeasure, Sending, Place, Flows, Req
  <2>. QED  BY <2>1, AloneKept
<1>11. ASSUME NEW r \in Request, AppendRecord(r)
      PROVE  AloneInv'
  <2>1. /\ \A q \in Request : q # r => pc'[q] = pc[q] /\ req'[q] = req[q]
        /\ pc'[r] \in Sending => /\ pc[r] \in Sending /\ req'[r].id = req[r].id
                                 /\ req'[r].sends = req[r].sends
    BY <1>11, AnswerOne, GotoOne DEF AppendRecord, Sending, Place
  <2>. QED  BY <2>1, AloneKept
<1>12. ASSUME NEW r \in Request, PutTake(r)
      PROVE  AloneInv'
  <2>1. /\ \A q \in Request : q # r => pc'[q] = pc[q] /\ req'[q] = req[q]
        /\ pc'[r] \in Sending => /\ pc[r] \in Sending /\ req'[r].id = req[r].id
                                 /\ req'[r].sends = req[r].sends
    BY <1>12, AnswerOne, GotoOne DEF PutTake, Sending, Place
  <2>. QED  BY <2>1, AloneKept
<1>13. ASSUME NEW r \in Request, PutHash(r)
      PROVE  AloneInv'
  <2>1. /\ \A q \in Request : q # r => pc'[q] = pc[q] /\ req'[q] = req[q]
        /\ pc'[r] \in Sending => /\ pc[r] \in Sending /\ req'[r].id = req[r].id
                                 /\ req'[r].sends = req[r].sends
    BY <1>13, AnswerOne, GotoOne DEF PutHash, Sending, Place, Flows, Req
  <2>. QED  BY <2>1, AloneKept
<1>14. ASSUME NEW r \in Request, PutImport(r)
      PROVE  AloneInv'
  <2>1. /\ \A q \in Request : q # r => pc'[q] = pc[q] /\ req'[q] = req[q]
        /\ pc'[r] \in Sending => /\ pc[r] \in Sending /\ req'[r].id = req[r].id
                                 /\ req'[r].sends = req[r].sends
    BY <1>14, AnswerOne, GotoOne DEF PutImport, Sending, Place
  <2>. QED  BY <2>1, AloneKept
<1>15. ASSUME NEW r \in Request, PutAnswer(r)
      PROVE  AloneInv'
  <2>1. /\ \A q \in Request : q # r => pc'[q] = pc[q] /\ req'[q] = req[q]
        /\ pc'[r] \in Sending => /\ pc[r] \in Sending /\ req'[r].id = req[r].id
                                 /\ req'[r].sends = req[r].sends
    BY <1>15, AnswerOne DEF PutAnswer, Sending, Place
  <2>. QED  BY <2>1, AloneKept
<1>16. ASSUME NEW r \in Request, CancelUnlink(r)
      PROVE  AloneInv'
  <2>1. /\ \A q \in Request : q # r => pc'[q] = pc[q] /\ req'[q] = req[q]
        /\ pc'[r] \in Sending => /\ pc[r] \in Sending /\ req'[r].id = req[r].id
                                 /\ req'[r].sends = req[r].sends
    BY <1>16, AnswerOne DEF CancelUnlink, Sending, Place
  <2>. QED  BY <2>1, AloneKept
<1>17. ASSUME NEW r \in Request, Leave(r)
      PROVE  AloneInv'
  <2>1. /\ \A q \in Request : q # r => pc'[q] = pc[q] /\ req'[q] = req[q]
        /\ pc'[r] \in Sending => /\ pc[r] \in Sending /\ req'[r].id = req[r].id
                                 /\ req'[r].sends = req[r].sends
    BY <1>17, AnswerOne DEF Leave, Sending, Place
  <2>. QED  BY <2>1, AloneKept
<1>18. CASE Stop
  BY <1>18, AloneKept DEF Stop, Sending
<1>. QED
  BY <1>1, <1>2, <1>3, <1>4, <1>5, <1>6, <1>7, <1>8, <1>9, <1>10, <1>11, <1>12, <1>13,
     <1>14, <1>15, <1>16, <1>17, <1>18 DEF Next, Step, DayPasses, Prune, vars

\* What a request knows stays so while its file does or once it is gone.
LEMMA KnownKept ==
  ASSUME KnownInv, NEW q \in Request, pc'[q] = pc[q], req'[q] = req[q],
         pc[q] # "idle" => file'[req[q].id] \in {None, file[req[q].id]},
         DOMAIN index \subseteq DOMAIN index'
  PROVE  Known(q)'
  BY DEF KnownInv, Known

\* Nobody else writes the file of a request that sends or has been hashed.
LEMMA KnownStep ==
  ASSUME Apart
  PROVE  TypeOK /\ Flows /\ AloneInv /\ KnownInv /\ [Next]_vars => KnownInv'
<1>. SUFFICES ASSUME TypeOK, Flows, AloneInv, KnownInv, [Next]_vars
              PROVE  KnownInv'
  OBVIOUS
<1>1. CASE UNCHANGED <<file, pc, req, index>>
  BY <1>1, KnownKept DEF KnownInv
<1>2. ASSUME NEW r \in Request, NEW i \in Id, NEW d \in Content \cup {None},
             NEW body \in Content, Begin(r, i, d, body)
      PROVE  KnownInv'
  <2>. SUFFICES ASSUME NEW q \in Request
                PROVE  Known(q)'
    BY DEF KnownInv
  <2>1. /\ \A u \in Request : u # r => pc'[u] = pc[u] /\ req'[u] = req[u]
        /\ pc'[r] = "lookup"
    BY <1>2, GotoOne, NewOne DEF Begin
  <2>2. /\ DOMAIN index \subseteq DOMAIN index'
        /\ file' = file
    BY <1>2 DEF Begin
  <2>3. CASE q # r
    BY <2>1, <2>2, <2>3, KnownKept
  <2>4. CASE q = r
    BY <2>1, <2>4 DEF Known
  <2>. QED  BY <2>3, <2>4
<1>3. ASSUME NEW r \in Request, NEW i \in Id, NEW d \in Content \cup {None},
             NEW body \in Content, Start(r, i, d, body)
      PROVE  KnownInv'
  <2>. SUFFICES ASSUME NEW q \in Request
                PROVE  Known(q)'
    BY DEF KnownInv
  <2>1. /\ \A u \in Request : u # r => pc'[u] = pc[u] /\ req'[u] = req[u]
        /\ pc'[r] = "enter" /\ req'[r].id = i
    BY <1>3, GotoOne, NewOne DEF Start
  <2>2. file' = [file EXCEPT ![i] = <<>>] /\ file'[i] = <<>> /\ index' = index
    BY <1>3 DEF Start, TypeOK
  <2>3. CASE q # r
    <3>1. pc[q] # "idle" => req[q].id \in Id /\ req[q].id # i
      BY <1>3 DEF Start, Flows, Flow, TypeOK
    <3>2. pc[q] # "idle" => file'[req[q].id] = file[req[q].id]
      BY <2>2, <3>1 DEF TypeOK
    <3>. QED  BY <2>1, <2>2, <2>3, <3>2, KnownKept
  <2>4. CASE q = r
    BY <2>1, <2>2, <2>4 DEF Known
  <2>. QED  BY <2>3, <2>4
<1>4. ASSUME NEW r \in Request, NEW i \in Id, Cancel(r, i)
      PROVE  KnownInv'
  <2>. SUFFICES ASSUME NEW q \in Request
                PROVE  Known(q)'
    BY DEF KnownInv
  <2>1. /\ \A u \in Request : u # r => pc'[u] = pc[u] /\ req'[u] = req[u]
        /\ pc'[r] \in {"unlink"}
    BY <1>4, GotoOne DEF Cancel, Flows
  <2>2. /\ DOMAIN index \subseteq DOMAIN index'
        /\ file' = file
    BY <1>4 DEF Cancel
  <2>3. CASE q # r
    BY <2>1, <2>2, <2>3, KnownKept
  <2>4. CASE q = r
    BY <2>1, <2>4 DEF Known
  <2>. QED  BY <2>3, <2>4
<1>5. ASSUME NEW r \in Request, StartEnter(r)
      PROVE  KnownInv'
  <2>. SUFFICES ASSUME NEW q \in Request
                PROVE  Known(q)'
    BY DEF KnownInv
  <2>1. /\ \A u \in Request : u # r => pc'[u] = pc[u] /\ req'[u] = req[u]
        /\ pc'[r] \in {"idle", "lookup"}
    BY <1>5, AnswerOne, GotoOne DEF StartEnter
  <2>2. /\ DOMAIN index \subseteq DOMAIN index'
        /\ file' = file
    BY <1>5 DEF StartEnter
  <2>3. CASE q # r
    BY <2>1, <2>2, <2>3, KnownKept
  <2>4. CASE q = r
    BY <2>1, <2>4 DEF Known
  <2>. QED  BY <2>3, <2>4
<1>6. ASSUME NEW r \in Request, AppendLookup(r)
      PROVE  KnownInv'
  <2>. SUFFICES ASSUME NEW q \in Request
                PROVE  Known(q)'
    BY DEF KnownInv
  <2>1. /\ \A u \in Request : u # r => pc'[u] = pc[u] /\ req'[u] = req[u]
        /\ pc'[r] \in {"idle", "open"}
    BY <1>6, AnswerOne, GotoOne DEF AppendLookup
  <2>2. /\ DOMAIN index \subseteq DOMAIN index'
        /\ file' = file
    BY <1>6 DEF AppendLookup
  <2>3. CASE q # r
    BY <2>1, <2>2, <2>3, KnownKept
  <2>4. CASE q = r
    BY <2>1, <2>4 DEF Known
  <2>. QED  BY <2>3, <2>4
<1>7. ASSUME NEW r \in Request, AppendOpen(r)
      PROVE  KnownInv'
  <2>. SUFFICES ASSUME NEW q \in Request
                PROVE  Known(q)'
    BY DEF KnownInv
  <2>1. /\ \A u \in Request : u # r => pc'[u] = pc[u] /\ req'[u] = req[u]
        /\ pc'[r] \in {"idle", "append"}
    BY <1>7, AnswerOne, GotoOne DEF AppendOpen
  <2>2. /\ DOMAIN index \subseteq DOMAIN index'
        /\ file' = file
    BY <1>7 DEF AppendOpen
  <2>3. CASE q # r
    BY <2>1, <2>2, <2>3, KnownKept
  <2>4. CASE q = r
    BY <2>1, <2>4 DEF Known
  <2>. QED  BY <2>3, <2>4
<1>8. ASSUME NEW r \in Request, AppendChunk(r)
      PROVE  KnownInv'
  <2>. SUFFICES ASSUME NEW q \in Request
                PROVE  Known(q)'
    BY DEF KnownInv
  <2>1. /\ \A u \in Request : u # r => pc'[u] = pc[u] /\ req'[u] = req[u]
        /\ pc'[r] = "append" /\ pc[r] = "append" /\ index' = index
    BY <1>8 DEF AppendChunk, Flows
  <2>2. \A j \in Id : j # req[r].id => file'[j] = file[j]
    BY <1>8 DEF AppendChunk, TypeOK
  <2>3. CASE q # r
    <3>1. req[r].sends
      BY <1>8 DEF AppendChunk, Flows, Flow
    <3>2. pc[q] \in Sending => req[q].id # req[r].id
      BY <2>1, <2>3, <3>1 DEF AloneInv, Sending, Place
    <3>3. pc[q] \in Sending => req[q].id \in Id
      BY DEF Sending, Flows, Flow, TypeOK
    <3>4. CASE pc[q] \in Sending
      BY <2>1, <2>2, <2>3, <3>2, <3>3, <3>4, KnownKept
    <3>5. CASE pc[q] \notin Sending
      BY <2>1, <2>3, <3>5 DEF Known, Sending, Place
    <3>. QED  BY <3>4, <3>5
  <2>4. CASE q = r
    BY <2>1, <2>4 DEF Known
  <2>. QED  BY <2>3, <2>4
<1>9. ASSUME NEW r \in Request, AppendBreaks(r)
      PROVE  KnownInv'
  <2>. SUFFICES ASSUME NEW q \in Request
                PROVE  Known(q)'
    BY DEF KnownInv
  <2>1. /\ \A u \in Request : u # r => pc'[u] = pc[u] /\ req'[u] = req[u]
        /\ pc'[r] \in {"idle"}
    BY <1>9, AnswerOne DEF AppendBreaks
  <2>2. /\ DOMAIN index \subseteq DOMAIN index'
        /\ file' = file
    BY <1>9 DEF AppendBreaks
  <2>3. CASE q # r
    BY <2>1, <2>2, <2>3, KnownKept
  <2>4. CASE q = r
    BY <2>1, <2>4 DEF Known
  <2>. QED  BY <2>3, <2>4
<1>10. ASSUME NEW r \in Request, AppendMeasure(r)
      PROVE  KnownInv'
  <2>. SUFFICES ASSUME NEW q \in Request
                PROVE  Known(q)'
    BY DEF KnownInv
  <2>1. /\ \A u \in Request : u # r => pc'[u] = pc[u] /\ req'[u] = req[u]
        /\ pc'[r] = "record" /\ req'[r].id = req[r].id
        /\ file[req[r].id] # None => req'[r].size = Len(file[req[r].id])
    BY <1>10, GotoOne DEF AppendMeasure, Flows, Req
  <2>2. /\ DOMAIN index \subseteq DOMAIN index'
        /\ file' = file
    BY <1>10 DEF AppendMeasure
  <2>3. CASE q # r
    BY <2>1, <2>2, <2>3, KnownKept
  <2>4. CASE q = r
    BY <2>1, <2>2, <2>4 DEF Known
  <2>. QED  BY <2>3, <2>4
<1>11. ASSUME NEW r \in Request, AppendRecord(r)
      PROVE  KnownInv'
  <2>. SUFFICES ASSUME NEW q \in Request
                PROVE  Known(q)'
    BY DEF KnownInv
  <2>1. /\ \A u \in Request : u # r => pc'[u] = pc[u] /\ req'[u] = req[u]
        /\ pc'[r] \in {"idle", "take"}
    BY <1>11, AnswerOne, GotoOne DEF AppendRecord
  <2>2. /\ DOMAIN index \subseteq DOMAIN index'
        /\ file' = file
    BY <1>11 DEF AppendRecord
  <2>3. CASE q # r
    BY <2>1, <2>2, <2>3, KnownKept
  <2>4. CASE q = r
    BY <2>1, <2>4 DEF Known
  <2>. QED  BY <2>3, <2>4
<1>12. ASSUME NEW r \in Request, PutTake(r)
      PROVE  KnownInv'
  <2>. SUFFICES ASSUME NEW q \in Request
                PROVE  Known(q)'
    BY DEF KnownInv
  <2>1. /\ \A u \in Request : u # r => pc'[u] = pc[u] /\ req'[u] = req[u]
        /\ pc'[r] \in {"idle", "hash"}
    BY <1>12, AnswerOne, GotoOne DEF PutTake
  <2>2. /\ DOMAIN index \subseteq DOMAIN index'
        /\ file' = file
    BY <1>12 DEF PutTake
  <2>3. CASE q # r
    BY <2>1, <2>2, <2>3, KnownKept
  <2>4. CASE q = r
    BY <2>1, <2>4 DEF Known
  <2>. QED  BY <2>3, <2>4
<1>13. ASSUME NEW r \in Request, PutHash(r)
      PROVE  KnownInv'
  <2>. SUFFICES ASSUME NEW q \in Request
                PROVE  Known(q)'
    BY DEF KnownInv
  <2>0. \A u \in Request : pc[u] # "idle" => req[u].id \in Id
    BY DEF Flows, Flow, TypeOK
  <2>1. /\ \A u \in Request : u # r => pc'[u] = pc[u] /\ req'[u] = req[u]
        /\ \/ pc'[r] = "idle"
           \/ /\ pc'[r] = "import" /\ req'[r].id = req[r].id
              /\ file' = file /\ req'[r].hash = file[req[r].id]
    BY <1>13, AnswerOne, GotoOne DEF PutHash, Flows, Req
  <2>2. /\ DOMAIN index \subseteq DOMAIN index'
        /\ \A j \in Id : file'[j] \in {None, file[j]}
    BY <1>13 DEF PutHash, Unlink, TypeOK
  <2>3. CASE q # r
    BY <2>0, <2>1, <2>2, <2>3, KnownKept
  <2>4. CASE q = r
    BY <2>1, <2>4 DEF Known
  <2>. QED  BY <2>3, <2>4
<1>14. ASSUME NEW r \in Request, PutImport(r)
      PROVE  KnownInv'
  <2>. SUFFICES ASSUME NEW q \in Request
                PROVE  Known(q)'
    BY DEF KnownInv
  <2>0. \A u \in Request : pc[u] # "idle" => req[u].id \in Id
    BY DEF Flows, Flow, TypeOK
  <2>a. Answer(r) \/ (Goto(r, "created") /\ req' = req)
    BY <1>14 DEF PutImport
  <2>1. /\ \A u \in Request : u # r => pc'[u] = pc[u] /\ req'[u] = req[u]
        /\ pc'[r] = "idle" \/ (pc'[r] = "created" /\ req'[r] = req[r])
    BY <2>a, AnswerOne, GotoOne
  <2>2. /\ DOMAIN index \subseteq DOMAIN index'
        /\ \A j \in Id : file'[j] \in {None, file[j]}
    BY <1>14 DEF PutImport, Unlink, TypeOK
  <2>3. CASE q # r
    BY <2>0, <2>1, <2>2, <2>3, KnownKept
  <2>4. CASE q = r
    <3>1. pc'[r] = "created" => req[r].hash \in DOMAIN index'
      BY <1>14, AnswerOne DEF PutImport
    <3>2. req[r].hash = req[r].digest
      BY <1>14 DEF PutImport, Flows, Flow
    <3>. QED  BY <2>1, <2>4, <3>1, <3>2 DEF Known
  <2>. QED  BY <2>3, <2>4
<1>15. ASSUME NEW r \in Request, PutAnswer(r)
      PROVE  KnownInv'
  <2>. SUFFICES ASSUME NEW q \in Request
                PROVE  Known(q)'
    BY DEF KnownInv
  <2>1. /\ \A u \in Request : u # r => pc'[u] = pc[u] /\ req'[u] = req[u]
        /\ pc'[r] \in {"idle"}
    BY <1>15, AnswerOne DEF PutAnswer
  <2>2. /\ DOMAIN index \subseteq DOMAIN index'
        /\ file' = file
    BY <1>15 DEF PutAnswer
  <2>3. CASE q # r
    BY <2>1, <2>2, <2>3, KnownKept
  <2>4. CASE q = r
    BY <2>1, <2>4 DEF Known
  <2>. QED  BY <2>3, <2>4
<1>16. ASSUME NEW r \in Request, CancelUnlink(r)
      PROVE  KnownInv'
  <2>. SUFFICES ASSUME NEW q \in Request
                PROVE  Known(q)'
    BY DEF KnownInv
  <2>0. \A u \in Request : pc[u] # "idle" => req[u].id \in Id
    BY DEF Flows, Flow, TypeOK
  <2>1. /\ \A u \in Request : u # r => pc'[u] = pc[u] /\ req'[u] = req[u]
        /\ pc'[r] = "idle"
    BY <1>16, AnswerOne DEF CancelUnlink
  <2>2. /\ DOMAIN index \subseteq DOMAIN index'
        /\ \A j \in Id : file'[j] \in {None, file[j]}
    BY <1>16 DEF CancelUnlink, Unlink, TypeOK
  <2>3. CASE q # r
    BY <2>0, <2>1, <2>2, <2>3, KnownKept
  <2>4. CASE q = r
    BY <2>1, <2>4 DEF Known
  <2>. QED  BY <2>3, <2>4
<1>17. ASSUME NEW r \in Request, Leave(r)
      PROVE  KnownInv'
  <2>. SUFFICES ASSUME NEW q \in Request
                PROVE  Known(q)'
    BY DEF KnownInv
  <2>0. \A u \in Request : pc[u] # "idle" => req[u].id \in Id
    BY DEF Flows, Flow, TypeOK
  <2>1. /\ \A u \in Request : u # r => pc'[u] = pc[u] /\ req'[u] = req[u]
        /\ pc'[r] = "idle"
    BY <1>17, AnswerOne DEF Leave
  <2>2. /\ DOMAIN index \subseteq DOMAIN index'
        /\ \A j \in Id : file'[j] \in {None, file[j]}
    BY <1>17 DEF Leave, Unlink, TypeOK
  <2>3. CASE q # r
    BY <2>0, <2>1, <2>2, <2>3, KnownKept
  <2>4. CASE q = r
    BY <2>1, <2>4 DEF Known
  <2>. QED  BY <2>3, <2>4
<1>18. CASE Prune
  <2>. SUFFICES ASSUME NEW q \in Request
                PROVE  Known(q)'
    BY DEF KnownInv
  <2>0. \A u \in Request : pc[u] # "idle" => req[u].id \in Id
    BY DEF Flows, Flow, TypeOK
  <2>. QED  BY <1>18, <2>0, KnownKept DEF Prune
<1>19. CASE Stop
  BY <1>19 DEF Stop, KnownInv, Known
<1>. QED
  BY <1>1, <1>2, <1>3, <1>4, <1>5, <1>6, <1>7, <1>8, <1>9, <1>10, <1>11, <1>12, <1>13,
     <1>14, <1>15, <1>16, <1>17, <1>18, <1>19 DEF Next, Step, DayPasses, vars

\* The size of a session stays right when its file and its entry do, unless
\* someone who was writing is done.
LEMMA SizeKept ==
  ASSUME SizeInv, NEW j \in DOMAIN sessions, file'[j] # None,
         j \in DOMAIN sessions', sessions'[j] = sessions[j], file'[j] = file[j],
         torn \subseteq torn',
         \A r \in Request :
           req[r].id = j /\ pc[r] \in {"append", "record"} /\ req[r].sends /\ j \notin torn'
             => req'[r].id = j /\ pc'[r] \in {"append", "record"} /\ req'[r].sends
  PROVE  Sized(j)'
  BY DEF SizeInv, Sized

\* The size of a session is brought up to date by whoever has written.
LEMMA SizeStep == TypeOK /\ Flows /\ KnownInv /\ SizeInv /\ [Next]_vars => SizeInv'
<1>. SUFFICES ASSUME TypeOK, Flows, KnownInv, SizeInv, [Next]_vars
              PROVE  SizeInv'
  OBVIOUS
<1>1. CASE UNCHANGED <<file, sessions, torn, pc, req>>
  BY <1>1 DEF SizeInv, Sized
<1>2. ASSUME NEW r \in Request, NEW i \in Id, NEW d \in Content \cup {None},
             NEW body \in Content, Begin(r, i, d, body)
      PROVE  SizeInv'
  <2>. SUFFICES ASSUME NEW j \in DOMAIN sessions', file'[j] # None
                PROVE  Sized(j)'
    BY DEF SizeInv
  <2>1. /\ \A q \in Request : q # r => pc'[q] = pc[q] /\ req'[q] = req[q]
        /\ pc[r] \notin {"append", "record"}
    BY <1>2, GotoOne, NewOne DEF Begin, MayBegin
  <2>2. /\ j \in DOMAIN sessions /\ sessions'[j] = sessions[j]
        /\ file'[j] = file[j] /\ torn \subseteq torn'
    BY <1>2 DEF Begin
  <2>. QED  BY <2>1, <2>2, SizeKept
<1>3. ASSUME NEW r \in Request, NEW i \in Id, NEW d \in Content \cup {None},
             NEW body \in Content, Start(r, i, d, body)
      PROVE  SizeInv'
  <2>. SUFFICES ASSUME NEW j \in DOMAIN sessions', file'[j] # None
                PROVE  Sized(j)'
    BY DEF SizeInv
  <2>1. /\ \A q \in Request : q # r => pc'[q] = pc[q] /\ req'[q] = req[q]
        /\ pc[r] = "idle"
    BY <1>3, GotoOne, NewOne DEF Start
  <2>2. j \in DOMAIN sessions /\ sessions' = sessions /\ torn' = torn /\ file'[j] = file[j]
    BY <1>3 DEF Start, TypeOK
  <2>. QED  BY <2>1, <2>2, SizeKept
<1>4. ASSUME NEW r \in Request, NEW i \in Id, Cancel(r, i)
      PROVE  SizeInv'
  <2>. SUFFICES ASSUME NEW j \in DOMAIN sessions', file'[j] # None
                PROVE  Sized(j)'
    BY DEF SizeInv
  <2>1. /\ \A q \in Request : q # r => pc'[q] = pc[q] /\ req'[q] = req[q]
        /\ pc[r] \notin {"append", "record"}
    BY <1>4, GotoOne DEF Cancel, Flows
  <2>2. /\ j \in DOMAIN sessions /\ sessions'[j] = sessions[j]
        /\ file'[j] = file[j] /\ torn \subseteq torn'
    BY <1>4 DEF Cancel
  <2>. QED  BY <2>1, <2>2, SizeKept
<1>5. ASSUME NEW r \in Request, StartEnter(r)
      PROVE  SizeInv'
  <2>. SUFFICES ASSUME NEW j \in DOMAIN sessions', file'[j] # None
                PROVE  Sized(j)'
    BY DEF SizeInv
  <2>1. /\ \A q \in Request : q # r => pc'[q] = pc[q] /\ req'[q] = req[q]
        /\ pc[r] = "enter" /\ file' = file /\ torn' = torn
    BY <1>5, AnswerOne, GotoOne DEF StartEnter
  <2>2. CASE j = req[r].id
    <3>1. sessions'[j] = 0 /\ file'[j] = <<>>
      BY <1>5, <2>1, <2>2 DEF StartEnter, KnownInv, Known
    <3>. QED  BY <3>1 DEF Sized
  <2>3. CASE j # req[r].id
    <3>1. j \in DOMAIN sessions /\ sessions'[j] = sessions[j]
      BY <1>5, <2>3 DEF StartEnter
    <3>. QED  BY <2>1, <3>1, SizeKept
  <2>. QED  BY <2>2, <2>3
<1>6. ASSUME NEW r \in Request, AppendLookup(r)
      PROVE  SizeInv'
  <2>. SUFFICES ASSUME NEW j \in DOMAIN sessions', file'[j] # None
                PROVE  Sized(j)'
    BY DEF SizeInv
  <2>1. /\ \A q \in Request : q # r => pc'[q] = pc[q] /\ req'[q] = req[q]
        /\ pc[r] \notin {"append", "record"}
    BY <1>6, AnswerOne, GotoOne DEF AppendLookup
  <2>2. /\ j \in DOMAIN sessions /\ sessions'[j] = sessions[j]
        /\ file'[j] = file[j] /\ torn \subseteq torn'
    BY <1>6 DEF AppendLookup
  <2>. QED  BY <2>1, <2>2, SizeKept
<1>7. ASSUME NEW r \in Request, AppendOpen(r)
      PROVE  SizeInv'
  <2>. SUFFICES ASSUME NEW j \in DOMAIN sessions', file'[j] # None
                PROVE  Sized(j)'
    BY DEF SizeInv
  <2>1. /\ \A q \in Request : q # r => pc'[q] = pc[q] /\ req'[q] = req[q]
        /\ pc[r] \notin {"append", "record"}
    BY <1>7, AnswerOne, GotoOne DEF AppendOpen
  <2>2. /\ j \in DOMAIN sessions /\ sessions'[j] = sessions[j]
        /\ file'[j] = file[j] /\ torn \subseteq torn'
    BY <1>7 DEF AppendOpen
  <2>. QED  BY <2>1, <2>2, SizeKept
<1>8. ASSUME NEW r \in Request, AppendChunk(r)
      PROVE  SizeInv'
  <2>. SUFFICES ASSUME NEW j \in DOMAIN sessions', file'[j] # None
                PROVE  Sized(j)'
    BY DEF SizeInv
  <2>1. /\ \A q \in Request : q # r => pc'[q] = pc[q] /\ req'[q] = req[q]
        /\ pc'[r] = "append" /\ req'[r].id = req[r].id /\ req'[r].sends = req[r].sends
        /\ sessions' = sessions /\ torn' = torn /\ j \in Id
    BY <1>8 DEF AppendChunk, Flows, Req, TypeOK
  <2>2. CASE j = req[r].id
    <3>1. req[r].sends /\ req[r].body \in Content /\ req[r].body # <<>>
      BY <1>8 DEF AppendChunk, Flows, Flow, Req
    <3>2. /\ file[j] # None /\ file'[j] = Append(file[j], Head(req[r].body))
          /\ Len(file[j]) < MaxLen
      BY <1>8, <2>1, <2>2 DEF AppendChunk, TypeOK
    <3>3. Len(file'[j]) = Len(file[j]) + 1 /\ Len(file[j]) \in Nat
      BY <2>1, <3>1, <3>2, ContentFacts, UploadsAssumption DEF TypeOK
    <3>4. sessions[j] <= Len(file[j]) /\ sessions[j] \in Nat
      BY <2>1, <3>2, UploadsAssumption DEF SizeInv, Sized, TypeOK
    <3>5. sessions'[j] <= Len(file'[j])
      BY <2>1, <3>3, <3>4
    <3>. QED  BY <2>1, <2>2, <3>1, <3>5 DEF Sized
  <2>3. CASE j # req[r].id
    <3>1. file'[j] = file[j]
      BY <1>8, <2>3 DEF AppendChunk, TypeOK
    <3>. QED  BY <1>8, <2>1, <2>3, <3>1, SizeKept DEF AppendChunk
  <2>. QED  BY <2>2, <2>3
<1>9. ASSUME NEW r \in Request, AppendBreaks(r)
      PROVE  SizeInv'
  <2>. SUFFICES ASSUME NEW j \in DOMAIN sessions', file'[j] # None
                PROVE  Sized(j)'
    BY DEF SizeInv
  <2>1. /\ \A q \in Request : q # r => pc'[q] = pc[q] /\ req'[q] = req[q]
        /\ req[r].id \in torn'
    BY <1>9, AnswerOne DEF AppendBreaks
  <2>2. /\ j \in DOMAIN sessions /\ sessions'[j] = sessions[j]
        /\ file'[j] = file[j] /\ torn \subseteq torn'
    BY <1>9 DEF AppendBreaks
  <2>. QED  BY <2>1, <2>2, SizeKept
<1>10. ASSUME NEW r \in Request, AppendMeasure(r)
      PROVE  SizeInv'
  <2>. SUFFICES ASSUME NEW j \in DOMAIN sessions', file'[j] # None
                PROVE  Sized(j)'
    BY DEF SizeInv
  <2>1. /\ \A q \in Request : q # r => pc'[q] = pc[q] /\ req'[q] = req[q]
        /\ pc'[r] = "record" /\ req'[r].id = req[r].id /\ req'[r].sends = req[r].sends
    BY <1>10, GotoOne DEF AppendMeasure, Flows, Req
  <2>2. /\ j \in DOMAIN sessions /\ sessions'[j] = sessions[j]
        /\ file'[j] = file[j] /\ torn \subseteq torn'
    BY <1>10 DEF AppendMeasure
  <2>. QED  BY <2>1, <2>2, SizeKept
<1>11. ASSUME NEW r \in Request, AppendRecord(r)
      PROVE  SizeInv'
  <2>. SUFFICES ASSUME NEW j \in DOMAIN sessions', file'[j] # None
                PROVE  Sized(j)'
    BY DEF SizeInv
  <2>1. /\ \A q \in Request : q # r => pc'[q] = pc[q] /\ req'[q] = req[q]
        /\ pc[r] = "record" /\ file' = file /\ torn' = torn
    BY <1>11, AnswerOne, GotoOne DEF AppendRecord
  <2>2. /\ j \in DOMAIN sessions
        /\ sessions'[j] = IF j = req[r].id THEN req[r].size ELSE sessions[j]
    BY <1>11 DEF AppendRecord
  <2>3. CASE j = req[r].id
    <3>1. sessions'[j] = Len(file'[j]) /\ sessions'[j] \in Nat
      BY <2>1, <2>2, <2>3, UploadsAssumption DEF KnownInv, Known, Flows, Req
    <3>. QED  BY <3>1 DEF Sized
  <2>4. CASE j # req[r].id
    BY <2>1, <2>2, <2>4, SizeKept
  <2>. QED  BY <2>3, <2>4
<1>12. ASSUME NEW r \in Request, PutTake(r)
      PROVE  SizeInv'
  <2>. SUFFICES ASSUME NEW j \in DOMAIN sessions', file'[j] # None
                PROVE  Sized(j)'
    BY DEF SizeInv
  <2>1. /\ \A q \in Request : q # r => pc'[q] = pc[q] /\ req'[q] = req[q]
        /\ pc[r] \notin {"append", "record"}
    BY <1>12, AnswerOne, GotoOne DEF PutTake
  <2>2. /\ j \in DOMAIN sessions /\ sessions'[j] = sessions[j]
        /\ file'[j] = file[j] /\ torn \subseteq torn'
    BY <1>12 DEF PutTake
  <2>. QED  BY <2>1, <2>2, SizeKept
<1>13. ASSUME NEW r \in Request, PutHash(r)
      PROVE  SizeInv'
  <2>. SUFFICES ASSUME NEW j \in DOMAIN sessions', file'[j] # None
                PROVE  Sized(j)'
    BY DEF SizeInv
  <2>1. /\ \A q \in Request : q # r => pc'[q] = pc[q] /\ req'[q] = req[q]
        /\ pc[r] \notin {"append", "record"}
    BY <1>13, AnswerOne, GotoOne DEF PutHash, Flows
  <2>2. /\ j \in DOMAIN sessions /\ j \in Id /\ sessions'[j] = sessions[j]
        /\ torn \subseteq torn'
    BY <1>13 DEF PutHash, TypeOK
  <2>3. file'[j] = file[j]
    BY <1>13, <2>2 DEF PutHash, Unlink, TypeOK
  <2>. QED  BY <2>1, <2>2, <2>3, SizeKept
<1>14. ASSUME NEW r \in Request, PutImport(r)
      PROVE  SizeInv'
  <2>. SUFFICES ASSUME NEW j \in DOMAIN sessions', file'[j] # None
                PROVE  Sized(j)'
    BY DEF SizeInv
  <2>a. Answer(r) \/ (Goto(r, "created") /\ req' = req)
    BY <1>14 DEF PutImport
  <2>1. /\ \A q \in Request : q # r => pc'[q] = pc[q] /\ req'[q] = req[q]
        /\ pc[r] \notin {"append", "record"}
    BY <1>14, <2>a, AnswerOne, GotoOne DEF PutImport
  <2>2. /\ j \in DOMAIN sessions /\ j \in Id /\ sessions'[j] = sessions[j]
        /\ torn \subseteq torn'
    BY <1>14 DEF PutImport, TypeOK
  <2>3. file'[j] = file[j]
    BY <1>14, <2>2 DEF PutImport, Unlink, TypeOK
  <2>. QED  BY <2>1, <2>2, <2>3, SizeKept
<1>15. ASSUME NEW r \in Request, PutAnswer(r)
      PROVE  SizeInv'
  <2>. SUFFICES ASSUME NEW j \in DOMAIN sessions', file'[j] # None
                PROVE  Sized(j)'
    BY DEF SizeInv
  <2>1. /\ \A q \in Request : q # r => pc'[q] = pc[q] /\ req'[q] = req[q]
        /\ pc[r] \notin {"append", "record"}
    BY <1>15, AnswerOne DEF PutAnswer
  <2>2. /\ j \in DOMAIN sessions /\ sessions'[j] = sessions[j]
        /\ file'[j] = file[j] /\ torn \subseteq torn'
    BY <1>15 DEF PutAnswer
  <2>. QED  BY <2>1, <2>2, SizeKept
<1>16. ASSUME NEW r \in Request, CancelUnlink(r)
      PROVE  SizeInv'
  <2>. SUFFICES ASSUME NEW j \in DOMAIN sessions', file'[j] # None
                PROVE  Sized(j)'
    BY DEF SizeInv
  <2>1. /\ \A q \in Request : q # r => pc'[q] = pc[q] /\ req'[q] = req[q]
        /\ pc[r] \notin {"append", "record"}
    BY <1>16, AnswerOne DEF CancelUnlink
  <2>2. /\ j \in DOMAIN sessions /\ j \in Id /\ sessions'[j] = sessions[j]
        /\ torn \subseteq torn'
    BY <1>16 DEF CancelUnlink, TypeOK
  <2>3. file'[j] = file[j]
    BY <1>16, <2>2 DEF CancelUnlink, Unlink, TypeOK
  <2>. QED  BY <2>1, <2>2, <2>3, SizeKept
<1>17. ASSUME NEW r \in Request, Leave(r)
      PROVE  SizeInv'
  <2>. SUFFICES ASSUME NEW j \in DOMAIN sessions', file'[j] # None
                PROVE  Sized(j)'
    BY DEF SizeInv
  <2>1. /\ \A q \in Request : q # r => pc'[q] = pc[q] /\ req'[q] = req[q]
        /\ req[r].id \in torn'
    BY <1>17, AnswerOne DEF Leave
  <2>2. /\ j \in DOMAIN sessions /\ j \in Id /\ sessions'[j] = sessions[j]
        /\ torn \subseteq torn'
    BY <1>17 DEF Leave, TypeOK
  <2>3. file'[j] = file[j]
    BY <1>17, <2>2 DEF Leave, Unlink, TypeOK
  <2>. QED  BY <2>1, <2>2, <2>3, SizeKept
<1>18. CASE Prune
  <2>. SUFFICES ASSUME NEW j \in DOMAIN sessions', file'[j] # None
                PROVE  Sized(j)'
    BY DEF SizeInv
  <2>1. file'[j] = file[j]
    BY <1>18 DEF Prune, TypeOK
  <2>. QED  BY <1>18, <2>1, SizeKept DEF Prune
<1>19. CASE Stop
  BY <1>19, NoEntries DEF Stop, SizeInv
<1>. QED
  BY <1>1, <1>2, <1>3, <1>4, <1>5, <1>6, <1>7, <1>8, <1>9, <1>10, <1>11, <1>12, <1>13,
     <1>14, <1>15, <1>16, <1>17, <1>18, <1>19 DEF Next, Step, DayPasses, vars

\* What is stored has its digest, and what is answered is stored.
LEMMA StoredStep == KnownInv /\ StoredMatches /\ [Next]_vars => StoredMatches'
<1>. SUFFICES ASSUME KnownInv, StoredMatches, [Next]_vars
              PROVE  StoredMatches'
  OBVIOUS
<1>1. CASE UNCHANGED <<index, created>>
  BY <1>1 DEF StoredMatches
<1>2. ASSUME NEW r \in Request, PutImport(r)
      PROVE  StoredMatches'
  <2>1. CASE file[req[r].id] = None
    BY <1>2, <2>1 DEF PutImport, StoredMatches
  <2>2. CASE file[req[r].id] # None
    <3>1. file[req[r].id] = req[r].hash
      BY <1>2, <2>2 DEF PutImport, KnownInv, Known
    <3>2. index' = [e \in DOMAIN index \cup {req[r].hash} |->
                      IF e = req[r].hash THEN file[req[r].id] ELSE index[e]]
      BY <1>2, <2>2 DEF PutImport
    <3>. QED  BY <1>2, <3>1, <3>2 DEF PutImport, StoredMatches
  <2>. QED  BY <2>1, <2>2
<1>3. ASSUME NEW r \in Request, PutAnswer(r)
      PROVE  StoredMatches'
  BY <1>3 DEF PutAnswer, StoredMatches, KnownInv, Known
<1>. QED
  BY <1>1, <1>2, <1>3 DEF Next, Step, AppendBreaks, AppendChunk, AppendLookup,
                          AppendMeasure, AppendOpen, AppendRecord, Begin, Cancel, CancelUnlink,
                          DayPasses, Leave, Prune, PutHash, PutTake, Start, StartEnter,
                          Stop, vars

-----------------------------------------------------------------------------
\* A range that is answered.
LEMMA RangeSent ==
  ASSUME NEW d, NEW spec, NEW lo \in Nat, NEW hi \in Nat,
         Len(d) \in Nat, lo <= hi, hi < Len(d), index[d] = d,
         ParseRange(spec, Len(d)) = <<lo, hi>>
  PROVE  BlobGet(d, spec).sent = lo .. hi /\ BlobGet(d, spec).length = Cardinality(lo .. hi)
<1>1. ParseRange(spec, Len(d)) # None
  BY UploadsAssumption
<1>2. BlobGet(d, spec) = [length |-> hi - lo + 1, sent |-> {p \in lo .. hi : p < Len(d)}]
  BY <1>1 DEF BlobGet
<1>3. {p \in lo .. hi : p < Len(d)} = lo .. hi
  OBVIOUS
<1>4. Cardinality(lo .. hi) = hi - lo + 1
  BY FS_Interval
<1>. QED  BY <1>2, <1>3, <1>4

\* A range that is not (416).
LEMMA RangeRefused ==
  ASSUME NEW d, NEW spec, ParseRange(spec, Len(d)) = None
  PROVE  BlobGet(d, spec).sent = {} /\ BlobGet(d, spec).length = Cardinality({})
  BY FS_EmptySet DEF BlobGet

\* The form <<first, last>>.
LEMMA RangeBoth ==
  ASSUME NEW d, NEW a \in Nat, NEW b \in Nat, Len(d) \in Nat, index[d] = d
  PROVE  LET bytes == {p \in 0 .. Len(d) - 1 : a <= p /\ p <= b}
         IN  /\ BlobGet(d, <<a, b>>).sent = bytes
             /\ BlobGet(d, <<a, b>>).length = Cardinality(bytes)
<1>. DEFINE bytes == {p \in 0 .. Len(d) - 1 : a <= p /\ p <= b}
            end == IF b >= Len(d) THEN Len(d) - 1 ELSE b
<1>1. <<a, b>>[1] = a /\ <<a, b>>[2] = b /\ <<a, b>> # <<None, 0>> /\ a # None /\ b # None
  BY UploadsAssumption
<1>2. CASE a < Len(d) /\ a <= b
  <2>1. ParseRange(<<a, b>>, Len(d)) = <<a, end>>
    BY <1>1, <1>2 DEF ParseRange
  <2>2. end \in Nat /\ a <= end /\ end < Len(d) /\ bytes = a .. end
    BY <1>2
  <2>. HIDE DEF end, bytes
  <2>3. /\ BlobGet(d, <<a, b>>).sent = a .. end
        /\ BlobGet(d, <<a, b>>).length = Cardinality(a .. end)
    BY <2>1, <2>2, RangeSent
  <2>. QED  BY <2>2, <2>3 DEF bytes
<1>3. CASE ~(a < Len(d) /\ a <= b)
  <2>1. ParseRange(<<a, b>>, Len(d)) = None
    BY <1>1, <1>3 DEF ParseRange
  <2>2. bytes = {}
    BY <1>3
  <2>. QED  BY <2>1, <2>2, RangeRefused
<1>. QED  BY <1>2, <1>3

\* The form <<first, None>>.
LEMMA RangeFrom ==
  ASSUME NEW d, NEW a \in Nat, Len(d) \in Nat, index[d] = d
  PROVE  LET bytes == {p \in 0 .. Len(d) - 1 : a <= p}
         IN  /\ BlobGet(d, <<a, None>>).sent = bytes
             /\ BlobGet(d, <<a, None>>).length = Cardinality(bytes)
<1>. DEFINE bytes == {p \in 0 .. Len(d) - 1 : a <= p}
            last == Len(d) - 1
<1>1. <<a, None>>[1] = a /\ <<a, None>>[2] = None /\ <<a, None>> # <<None, 0>> /\ a # None
  BY UploadsAssumption
<1>2. CASE a < Len(d)
  <2>1. ParseRange(<<a, None>>, Len(d)) = <<a, last>>
    BY <1>1, <1>2 DEF ParseRange
  <2>2. last \in Nat /\ a <= last /\ last < Len(d) /\ bytes = a .. last
    BY <1>2
  <2>. HIDE DEF last, bytes
  <2>3. /\ BlobGet(d, <<a, None>>).sent = a .. last
        /\ BlobGet(d, <<a, None>>).length = Cardinality(a .. last)
    BY <2>1, <2>2, RangeSent
  <2>. QED  BY <2>2, <2>3 DEF bytes
<1>3. CASE ~(a < Len(d))
  <2>1. ParseRange(<<a, None>>, Len(d)) = None
    BY <1>1, <1>3 DEF ParseRange
  <2>2. bytes = {}
    BY <1>3
  <2>. QED  BY <2>1, <2>2, RangeRefused
<1>. QED  BY <1>2, <1>3

\* The form <<None, suffix>>.
LEMMA RangeSuffix ==
  ASSUME NEW d, NEW b \in Nat, Len(d) \in Nat, index[d] = d
  PROVE  LET bytes == {p \in 0 .. Len(d) - 1 : p + b >= Len(d)}
         IN  /\ BlobGet(d, <<None, b>>).sent = bytes
             /\ BlobGet(d, <<None, b>>).length = Cardinality(bytes)
<1>. DEFINE bytes == {p \in 0 .. Len(d) - 1 : p + b >= Len(d)}
            start == IF b >= Len(d) THEN 0 ELSE Len(d) - b
            last == Len(d) - 1
<1>1. /\ <<None, b>>[1] = None /\ <<None, b>>[2] = b
      /\ <<None, b>> # <<None, 0>> <=> b # 0
  OBVIOUS
<1>2. CASE Len(d) > 0 /\ b > 0
  <2>1. ParseRange(<<None, b>>, Len(d)) = <<start, last>>
    BY <1>1, <1>2 DEF ParseRange
  <2>2. /\ start \in Nat /\ last \in Nat /\ start <= last /\ last < Len(d)
        /\ bytes = start .. last
    BY <1>2
  <2>. HIDE DEF start, last, bytes
  <2>3. /\ BlobGet(d, <<None, b>>).sent = start .. last
        /\ BlobGet(d, <<None, b>>).length = Cardinality(start .. last)
    BY <2>1, <2>2, RangeSent
  <2>. QED  BY <2>2, <2>3 DEF bytes
<1>3. CASE ~(Len(d) > 0 /\ b > 0)
  <2>1. ParseRange(<<None, b>>, Len(d)) = None
    BY <1>1, <1>3 DEF ParseRange
  <2>2. bytes = {}
    BY <1>3
  <2>. QED  BY <2>1, <2>2, RangeRefused
<1>. QED  BY <1>2, <1>3
-----------------------------------------------------------------------------
\* Nothing is there at first.
LEMMA InitInv ==
  Init => /\ TypeOK /\ Flows /\ FileInv /\ AloneInv
          /\ KnownInv /\ SizeInv /\ StoredMatches
<1>. SUFFICES ASSUME Init
              PROVE  /\ TypeOK /\ Flows /\ FileInv /\ AloneInv
                     /\ KnownInv /\ SizeInv /\ StoredMatches
  OBVIOUS
<1>1. TypeOK /\ FileInv /\ SizeInv /\ StoredMatches
  BY NoEntries, UploadsAssumption DEF Init, TypeOK, FileInv, SizeInv, StoredMatches
<1>2. \A r \in Request : pc[r] = "idle" /\ req[r] = NoReq
  BY DEF Init
<1>3. Flows /\ AloneInv /\ KnownInv
  BY <1>2, NoReqType DEF Init, Flows, Flow, Place, AloneInv, Sending, KnownInv, Known
<1>. QED  BY <1>1, <1>3

\* The files, the sessions, the index and the digests answered keep their types.
THEOREM TypeCorrect == Spec => []TypeOK
<1>1. Init => TypeOK /\ Flows
  BY InitInv
<1>. QED  BY <1>1, TypeStep, FlowStep, PTL DEF Spec

\* No upload file is left behind by a session that was finished or cancelled
\* (upload_put, put_blob_file, upload_cancel), however requests on one session
\* overlap: who is left with a file has broken off or the daemon has stopped.
THEOREM NoFileLeft == Spec => []FilesHaveSessions
<1>1. Init => TypeOK /\ Flows /\ FileInv
  BY InitInv
<1>2. Flows /\ FileInv => FilesHaveSessions
  BY DEF FileInv, Filed, FilesHaveSessions, Idle
<1>. QED  BY <1>1, <1>2, TypeStep, FlowStep, FileStep, PTL DEF Spec

\* With the bodies of a session apart, nobody changes a file between the
\* moments it is measured or hashed and used.
LEMMA AlwaysApart ==
  ASSUME Apart
  PROVE  Spec => [](TypeOK /\ Flows /\ KnownInv /\ SizeInv /\ StoredMatches)
<1>1. Init => TypeOK /\ Flows /\ AloneInv /\ KnownInv /\ SizeInv /\ StoredMatches
  BY InitInv
<1>. QED
  BY <1>1, TypeStep, FlowStep, AloneStep, KnownStep, SizeStep, StoredStep, PTL DEF Spec

\* What is stored under a digest has that digest and what was answered with 201
\* is stored (put_blob_file: "the sha256 must match"), over retries, breaks,
\* cancellations, prunes and stops, when the bodies of a session do not overlap.
THEOREM StoredAlwaysMatches ==
  ASSUME Apart
  PROVE  Spec => []StoredMatches
  BY AlwaysApart, PTL

\* The position that upload_status reports is the end of the file, or not past
\* it where a body broke off, when the bodies of a session do not overlap.
THEOREM StatusAlwaysTruthful ==
  ASSUME Apart
  PROVE  Spec => []StatusTruthful
<1>1. TypeOK /\ Flows /\ SizeInv => StatusTruthful
  <2>. SUFFICES ASSUME TypeOK, Flows, SizeInv, NEW i \in DOMAIN sessions,
                       Idle(i), file[i] \notin {None, <<>>}
                PROVE  LET last == Len(file[i]) - 1
                       IN  IF i \in torn THEN UploadStatus(i) <= last
                           ELSE UploadStatus(i) = last
    BY DEF StatusTruthful
  <2>1. Len(file[i]) \in Nat /\ Len(file[i]) # 0 /\ sessions[i] \in Nat
    BY ContentFacts, UploadsAssumption DEF TypeOK
  <2>2. sessions[i] <= Len(file[i]) /\ (i \notin torn => sessions[i] = Len(file[i]))
    BY DEF SizeInv, Sized, Idle
  <2>. QED  BY <2>1, <2>2 DEF UploadStatus
<1>. QED  BY <1>1, AlwaysApart, PTL

\* A read of a range (blob_get, parse_range) sends the bytes that the header
\* names and as many as Content-Length says, for every blob that is stored.
THEOREM RangesAlwaysExact ==
  ASSUME Apart
  PROVE  Spec => []RangesExact
<1>1. TypeOK /\ StoredMatches => RangesExact
  <2>. SUFFICES ASSUME TypeOK, StoredMatches, NEW d \in DOMAIN index,
                       NEW a \in 0 .. MaxLen + 1, NEW b \in 0 .. MaxLen + 1
                PROVE  LET size == Len(d)
                           Check(spec, expect) ==
                             LET got == BlobGet(d, spec)
                             IN  got.sent = expect /\ got.length = Cardinality(expect)
                       IN  /\ Check(<<a, b>>, {p \in 0 .. size - 1 : a <= p /\ p <= b})
                           /\ Check(<<a, None>>, {p \in 0 .. size - 1 : a <= p})
                           /\ Check(<<None, b>>, {p \in 0 .. size - 1 : p + b >= size})
    BY DEF RangesExact
  <2>1. Len(d) \in Nat /\ index[d] = d /\ a \in Nat /\ b \in Nat
    BY ContentFacts, UploadsAssumption DEF TypeOK, StoredMatches
  <2>. QED  BY <2>1, RangeBoth, RangeFrom, RangeSuffix
<1>. QED  BY <1>1, AlwaysApart, PTL
=============================================================================
