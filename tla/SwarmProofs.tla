----------------------------- MODULE SwarmProofs -----------------------------
(***************************************************************************)
(* The policy, the topics and the peers of a daemon, for any rules, tasks  *)
(* and peers: an edit is lost only to a writer whose reading was outdated, *)
(* the topics follow the file when operations do not overlap, a neighbor   *)
(* is on every topic unless it was missed by a sync_topics under way, and  *)
(* peers.json never loses a peer.                                          *)
(***************************************************************************)
EXTENDS Swarm, TLAPS

Actor == Task \cup {Boot}

\* sync_topics is under way.
Settling == {"settle", "neighbors", "peers", "subscribe"}

Step == Asked \cup Settling \cup {"idle", "swap", "reload", "poll"}

\* TypeOK, and the types of the tasks.
Shape ==
  /\ file \in SUBSET Rule /\ mem \in SUBSET Rule /\ phase \in {"down", "starting", "up"}
  /\ pc \in [Actor -> Step]
  /\ copy \in [Actor -> SUBSET Rule]
  /\ edit \in [Actor -> Edit \cup {None}]
  /\ stale \in [Actor -> BOOLEAN]
  /\ wanted \in [Actor -> SUBSET (Publisher \cup {Self})]
  /\ bootstrap \in [Actor -> SUBSET Peer]
  /\ owing \in BOOLEAN
  /\ DOMAIN topics \subseteq Publisher \cup {Self}
  /\ \A p \in DOMAIN topics : topics[p] \in SUBSET Peer
  /\ neighbors \in SUBSET Peer /\ peers \in SUBSET Peer /\ peersFile \in SUBSET Peer
  /\ seen \in SUBSET Peer /\ joining \in SUBSET Peer /\ missed \in SUBSET Peer
  /\ arriving \in Peer \cup {None}

\* The start is the only operation of a daemon that is starting, and an edit
\* is known as long as it is asked for.
StepInv ==
  /\ pc[Boot] \in Settling \cup {"idle"}
  /\ pc[Boot] # "idle" => phase = "starting"
  /\ phase = "starting" => pc[Boot] # "idle"
  /\ \A t \in Task : pc[t] \in Asked => edit[t] \in Edit

\* Operations do not overlap.
OneInv ==
  \A t, u \in Actor : pc[t] # "idle" /\ pc[u] # "idle" => t = u

\* A client may have left between the write of the file and the swap.
Forgotten == owing /\ "swap" \in Leaves

\* The daemon has what the file says, or is about to; and whoever writes the
\* file next writes what it says now with one edit.
FileInv ==
  /\ phase # "down" => \/ mem = file \/ Forgotten
                       \/ \E t \in Actor : pc[t] \in {"swap", "reload"}
  /\ \A t \in Actor :
       /\ pc[t] = "swap" => copy[t] = file /\ phase # "down"
       /\ pc[t] \in Settling => mem = file /\ phase # "down"
       /\ pc[t] = "save" => copy[t] = Edited(mem, edit[t]) /\ phase # "down"
       /\ pc[t] \in {"write", "write offline", "write top"} => copy[t] = Edited(file, edit[t])
       /\ pc[t] \in {"load offline", "write offline"} => phase = "down"

\* The topics that the daemon should be on by its policy.
Due == (mem \cap Publisher) \cup {Self}
OnTopics == IF JoinFails THEN DOMAIN topics \subseteq Due ELSE DOMAIN topics = Due

\* It is on them, or sync_topics is under way and wants them.
TopicInv ==
  /\ phase = "up" /\ ~owing => OnTopics \/ \E t \in Actor : pc[t] \in Settling
  /\ \A t \in Actor : pc[t] \in Settling \ {"settle"} => wanted[t] = Due

\* Who is a neighbor is on every topic and will be on those about to be joined,
\* unless it has been missed or is about to be introduced.
NeighborInv ==
  /\ \A p \in DOMAIN topics : neighbors \ (missed \cup {arriving}) \subseteq topics[p]
  /\ \A t \in Actor : pc[t] \in {"peers", "subscribe"} =>
       neighbors \ (missed \cup {arriving}) \subseteq bootstrap[t]

\* About to write: what the task read is outdated, or it has applied its edit
\* to what the file says.  ocitop's copy is outdated or is the file.
Writing == {"save", "write", "write offline", "write top"}

KeepInv ==
  /\ \A t \in Task : pc[t] \in Writing /\ ~stale[t] => copy[t] = Edited(file, edit[t])
  /\ \A t \in Top :
       /\ pc[t] = "idle" /\ ~stale[t] => copy[t] = file
       /\ pc[t] \in Settling \cup {"idle", "swap", "reload", "poll", "write top"}

\* The second part of PeersDurable.
PeersInv ==
  phase # "down" => IF SaveFails THEN peersFile \subseteq peers ELSE peersFile = peers
-----------------------------------------------------------------------------
\* A function without arguments.
LEMMA NoTopics == DOMAIN <<>> = {}
  OBVIOUS

\* All of it holds of a daemon that is down, without a policy.
LEMMA InitInv ==
  SwarmInit => /\ Shape /\ StepInv /\ OneInv
               /\ FileInv /\ TopicInv /\ NeighborInv /\ KeepInv /\ PeersInv
<1>. SUFFICES ASSUME SwarmInit
              PROVE  /\ Shape /\ StepInv /\ OneInv
                     /\ FileInv /\ TopicInv /\ NeighborInv /\ KeepInv /\ PeersInv
  OBVIOUS
<1>. USE DEF SwarmInit, Init, Actor
<1>1. \A t \in Actor : pc[t] = "idle" /\ copy[t] = {} /\ edit[t] = None
  OBVIOUS
<1>2. Shape
  BY NoTopics DEF Shape, Step
<1>3. StepInv /\ OneInv
  BY <1>1 DEF StepInv, OneInv, Asked, Settling
<1>4. FileInv
  BY <1>1 DEF FileInv, Settling
<1>5. TopicInv /\ NeighborInv /\ PeersInv
  BY <1>1, NoTopics DEF TopicInv, NeighborInv, PeersInv, Settling
<1>6. KeepInv
  BY <1>1 DEF KeepInv, Writing, Task
<1>. QED  BY <1>2, <1>3, <1>4, <1>5, <1>6

\* Shape has all of TypeOK.
LEMMA ShapeType == Shape => TypeOK
  BY DEF Shape, TypeOK

\* Requests, the processes of ocictl and ocitop, and the start of the daemon.
LEMMA Actors ==
  /\ Handler \subseteq Task /\ Ctl \subseteq Task /\ Top \subseteq Task
  /\ Task \subseteq Actor /\ Boot \in Actor /\ Boot \notin Task
  /\ \A t \in Actor : t # Boot => t \in Task
  BY PolicyStoreAssumption DEF Actor, Task

\* An edited policy is one, and an edit is not None.
LEMMA EditedType ==
  ASSUME NEW p \in SUBSET Rule, NEW e \in Edit
  PROVE  Edited(p, e) \in SUBSET Rule /\ e # None
  BY PolicyStoreAssumption DEF Edited, Edit

\* What the end of an operation does to its task, and that it leaves the others.
LEMMA EndsTask ==
  ASSUME Shape, NEW t \in Actor, NEW w \in {"idle", "reload", "poll"}, Ends(t, w)
  PROVE  /\ pc' \in [Actor -> Step] /\ pc'[t] = w
         /\ copy' \in [Actor -> SUBSET Rule]
         /\ edit' \in [Actor -> Edit \cup {None}]
         /\ \A u \in Actor :
              u # t => pc'[u] = pc[u] /\ copy'[u] = copy[u] /\ edit'[u] = edit[u]
<1>1. pc' = [pc EXCEPT ![t] = w] /\ edit' = [edit EXCEPT ![t] = None]
  BY DEF Ends, Goto
<1>2. copy' = [copy EXCEPT ![t] = IF t \in Top THEN @ ELSE {}]
  BY DEF Ends
<1>3. (IF t \in Top THEN copy[t] ELSE {}) \in SUBSET Rule
  BY DEF Shape
<1>. QED  BY <1>1, <1>2, <1>3 DEF Shape, Step

\* Where an operation of the daemon ends.
LEMMA AfterTask == \A t : After(t) \in {"idle", "poll"} /\ (t = Boot => After(t) = "idle")
  BY PolicyStoreAssumption DEF After, Task

\* The same of an operation that ends in the daemon.
LEMMA EndsAfter ==
  ASSUME Shape, NEW t \in Actor, Ends(t, After(t))
  PROVE  /\ pc'[t] \in {"idle", "poll"}
         /\ \A u \in Actor :
              u # t => pc'[u] = pc[u] /\ copy'[u] = copy[u] /\ edit'[u] = edit[u]
<1>1. After(t) \in {"idle", "poll"}
  BY AfterTask
<1>2. pc'[t] = After(t)
  BY <1>1, EndsTask
<1>. QED  BY <1>1, <1>2, EndsTask

\* The topics after sync_topics are topics that were wanted, with peers.
LEMMA SubscribedType ==
  ASSUME Shape, NEW t \in Actor, NEW failed,
         topics' = Subscribed(wanted[t], bootstrap[t], failed)
  PROVE  /\ DOMAIN topics' = (wanted[t] \cap DOMAIN topics) \cup (wanted[t] \ failed)
         /\ DOMAIN topics' \subseteq Publisher \cup {Self}
         /\ \A p \in DOMAIN topics' :
              /\ topics'[p] = IF p \in DOMAIN topics THEN topics[p] ELSE bootstrap[t]
              /\ topics'[p] \in SUBSET Peer
<1>1. /\ DOMAIN topics' = (wanted[t] \cap DOMAIN topics) \cup (wanted[t] \ failed)
      /\ \A p \in DOMAIN topics' :
           topics'[p] = IF p \in DOMAIN topics THEN topics[p] ELSE bootstrap[t]
  BY DEF Subscribed
<1>. QED  BY <1>1 DEF Shape

\* What a stop does to the tasks.
LEMMA StopTasks ==
  ASSUME Shape, StopNode
  PROVE  /\ pc' \in [Actor -> Step]
         /\ copy' \in [Actor -> SUBSET Rule]
         /\ edit' \in [Actor -> Edit \cup {None}]
         /\ \A t \in Actor :
              IF pc[t] \in Settling \cup {"save", "swap"}
              THEN pc'[t] = After(t)
              ELSE pc'[t] = pc[t] /\ copy'[t] = copy[t] /\ edit'[t] = edit[t]
<1>1. /\ pc' = [t \in Actor |-> IF pc[t] \in InDaemon THEN After(t) ELSE pc[t]]
      /\ copy' = [t \in Actor |-> IF pc[t] \in InDaemon /\ t \notin Top THEN {} ELSE copy[t]]
      /\ edit' = [t \in Actor |-> IF pc[t] \in InDaemon THEN None ELSE edit[t]]
  BY DEF StopNode, Stop, Shape
<1>2. InDaemon = Settling \cup {"save", "swap"}
  BY DEF InDaemon, Settling
<1>. QED  BY <1>1, <1>2, AfterTask DEF Shape, Step

\* Whether what a task read is outdated is known after a write too.
LEMMA OutdatesType ==
  ASSUME Shape, NEW t, Outdates(t)
  PROVE  stale' \in [Actor -> BOOLEAN]
  BY DEF Outdates, Shape

\* Every step keeps the types and the steps of the tasks.
LEMMA TypeStep == Shape /\ StepInv /\ [SwarmNext]_vars => Shape' /\ StepInv'
<1>. SUFFICES ASSUME Shape, StepInv, [SwarmNext]_vars
              PROVE  Shape' /\ StepInv'
  OBVIOUS
<1>. USE Actors, EditedType DEF Shape, StepInv, Step, Asked, Settling
<1>1. ASSUME NEW t \in Handler, NEW e \in Edit, Mutate(t, e),
             UNCHANGED <<gossipVars, readVars>>
      PROVE  Shape' /\ StepInv'
  BY <1>1 DEF Mutate, MayBegin, Asks, Goto, gossipVars, readVars
<1>2. ASSUME NEW t \in Ctl, NEW e \in Edit, CtlOffline(t, e),
             UNCHANGED <<gossipVars, readVars>>
      PROVE  Shape' /\ StepInv'
  BY <1>2 DEF CtlOffline, MayBegin, Asks, Goto, gossipVars, readVars
<1>3. ASSUME NEW t \in Ctl, NEW e \in Edit, CtlTrack(t, e),
             UNCHANGED <<gossipVars, readVars>>
      PROVE  Shape' /\ StepInv'
  BY <1>3 DEF CtlTrack, MayBegin, Asks, Goto, gossipVars, readVars
<1>4. ASSUME NEW t \in Top, NEW e \in Edit, TopEdit(t, e),
             UNCHANGED <<gossipVars, readVars>>
      PROVE  Shape' /\ StepInv'
  BY <1>4 DEF TopEdit, MayBegin, Asks, Goto, gossipVars, readVars
<1>5. ASSUME NEW t \in Actor, TopPoll(t), UNCHANGED <<gossipVars, readVars>>
      PROVE  Shape' /\ StepInv'
  BY <1>5 DEF TopPoll, Goto, gossipVars, readVars
<1>6. ASSUME NEW t \in Actor, MutateSave(t), UNCHANGED <<gossipVars, readVars>>
      PROVE  Shape' /\ StepInv'
  <2>1. pc[t] = "save" /\ t # Boot /\ UNCHANGED <<mem, phase, gossipVars, readVars>>
    BY <1>6 DEF MutateSave
  <2>4. stale' \in [Actor -> BOOLEAN]
    BY <1>6, OutdatesType DEF MutateSave
  <2>2. CASE file' = copy[t] /\ Goto(t, "swap") /\ UNCHANGED <<copy, edit>>
    BY <2>1, <2>2, <2>4 DEF Goto, gossipVars, readVars
  <2>3. CASE file' = file /\ Ends(t, "idle")
    BY <2>1, <2>3, <2>4, EndsTask DEF gossipVars, readVars
  <2>. QED  BY <1>6, <2>2, <2>3 DEF MutateSave
<1>7. ASSUME NEW t \in Actor, Swap(t), UNCHANGED <<gossipVars, readVars>>
      PROVE  Shape' /\ StepInv'
  BY <1>7 DEF Swap, Goto, gossipVars, readVars
<1>8. ASSUME NEW t \in Actor, Reload(t), UNCHANGED <<gossipVars, readVars>>
      PROVE  Shape' /\ StepInv'
  <2>1. pc[t] = "reload" /\ t # Boot /\ UNCHANGED <<file, mem, phase, stale, gossipVars, readVars>>
    BY <1>8 DEF Reload
  <2>2. CASE copy' = [copy EXCEPT ![t] = file] /\ Goto(t, "swap") /\ UNCHANGED edit
    BY <2>1, <2>2 DEF Goto, gossipVars, readVars
  <2>3. CASE Ends(t, After(t))
    BY <2>1, <2>3, AfterTask, EndsTask DEF gossipVars, readVars
  <2>. QED  BY <1>8, <2>2, <2>3 DEF Reload
<1>9. ASSUME NEW t \in Actor, CtlLoad(t), UNCHANGED <<gossipVars, readVars>>
      PROVE  Shape' /\ StepInv'
  <2>1. /\ pc[t] \in {"load", "load offline"} /\ t # Boot
        /\ UNCHANGED <<file, mem, phase, edit, gossipVars, readVars>>
    BY <1>9 DEF CtlLoad
  <2>2. Edited(file, edit[t]) \in SUBSET Rule /\ edit[t] \in Edit
    BY <2>1
  <2>3. copy' = [copy EXCEPT ![t] = Edited(file, edit[t])]
    BY <1>9 DEF CtlLoad
  <2>4. \E w \in {"write", "write offline"} : pc' = [pc EXCEPT ![t] = w]
    BY <1>9 DEF CtlLoad, Goto
  <2>5. stale' \in [Actor -> BOOLEAN]
    BY <1>9 DEF CtlLoad
  <2>. QED  BY <2>1, <2>2, <2>3, <2>4, <2>5 DEF gossipVars, readVars
<1>10. ASSUME NEW t \in Actor, CtlWrite(t), UNCHANGED <<gossipVars, readVars>>
       PROVE  Shape' /\ StepInv'
  <2>1. /\ pc[t] \in {"write", "write offline"} /\ t # Boot
        /\ UNCHANGED <<mem, phase, gossipVars, readVars>> /\ file' \in SUBSET Rule
    BY <1>10 DEF CtlWrite
  <2>2. \E w \in {"idle", "reload"} : Ends(t, w)
    BY <1>10 DEF CtlWrite
  <2>3. stale' \in [Actor -> BOOLEAN]
    BY <1>10, OutdatesType DEF CtlWrite
  <2>. QED  BY <2>1, <2>2, <2>3, EndsTask DEF gossipVars, readVars
<1>11. ASSUME NEW t \in Actor, TopWrite(t), UNCHANGED <<gossipVars, readVars>>
       PROVE  Shape' /\ StepInv'
  <2>1. stale' \in [Actor -> BOOLEAN]
    BY <1>11, OutdatesType DEF TopWrite
  <2>. QED  BY <1>11, <2>1 DEF TopWrite, Goto, gossipVars, readVars
<1>12. ASSUME NEW t \in Actor, TopicsWanted(t)
       PROVE  Shape' /\ StepInv'
  BY <1>12 DEF TopicsWanted, Goto, gossipVars
<1>13. ASSUME NEW t \in Actor, TopicsNeighbors(t)
       PROVE  Shape' /\ StepInv'
  BY <1>13 DEF TopicsNeighbors, Goto, gossipVars
<1>14. ASSUME NEW t \in Actor, TopicsPeers(t)
       PROVE  Shape' /\ StepInv'
  BY <1>14 DEF TopicsPeers, Goto, gossipVars
<1>15. ASSUME NEW t \in Actor, TopicsSubscribe(t)
       PROVE  Shape' /\ StepInv'
  <2>1. /\ pc[t] = "subscribe" /\ Ends(t, After(t))
        /\ phase' = IF t = Boot THEN "up" ELSE phase
        /\ wanted' = [wanted EXCEPT ![t] = {}] /\ bootstrap' = [bootstrap EXCEPT ![t] = {}]
        /\ owing' = FALSE
        /\ UNCHANGED <<file, mem, stale, neighbors, peers, peersFile, seen, arriving, missed,
                       joining>>
    BY <1>15 DEF TopicsSubscribe
  <2>2. /\ DOMAIN topics' \subseteq Publisher \cup {Self}
        /\ \A p \in DOMAIN topics' : topics'[p] \in SUBSET Peer
    <3>. PICK failed : topics' = Subscribed(wanted[t], bootstrap[t], failed)
      BY <1>15 DEF TopicsSubscribe
    <3>. HIDE DEF Shape
    <3>. QED  BY SubscribedType
  <2>. QED  BY <2>1, <2>2, AfterTask, EndsTask
<1>16. ASSUME NEW t \in Actor, ClientLeaves(t)
       PROVE  Shape' /\ StepInv'
  <2>1. /\ t \in Task /\ Ends(t, After(t))
        /\ wanted' = [wanted EXCEPT ![t] = {}] /\ bootstrap' = [bootstrap EXCEPT ![t] = {}]
        /\ owing' = TRUE
        /\ UNCHANGED <<file, mem, phase, stale, neighbors, peers, peersFile, seen, arriving, missed,
                       joining>>
    BY <1>16 DEF ClientLeaves, Leave
  <2>2. /\ DOMAIN topics' \subseteq Publisher \cup {Self}
        /\ \A p \in DOMAIN topics' : topics'[p] \in SUBSET Peer
    <3>1. UNCHANGED topics \/ \E undone : topics' = Subscribed(wanted[t], bootstrap[t], undone)
      BY <1>16 DEF ClientLeaves
    <3>2. CASE UNCHANGED topics
      BY <3>2
    <3>. HIDE DEF Shape
    <3>. QED  BY <3>1, <3>2, SubscribedType
  <2>. QED  BY <2>1, <2>2, AfterTask, EndsTask
<1>17. CASE NeighborIntroduce
  BY <1>17 DEF NeighborIntroduce, Introduce, policyVars, readVars
<1>18. ASSUME NEW id \in Peer, NeighborUp(id)
       PROVE  Shape' /\ StepInv'
  BY <1>18 DEF NeighborUp, policyVars, readVars
<1>19. ASSUME NEW id \in Peer, NeighborDown(id)
       PROVE  Shape' /\ StepInv'
  BY <1>19 DEF NeighborDown, policyVars, readVars
<1>20. ASSUME NEW id \in Peer, Hello(id)
       PROVE  Shape' /\ StepInv'
  BY <1>20 DEF Hello, RememberPeer, policyVars, readVars
<1>21. ASSUME NEW id \in Peer, AddPeer(id)
       PROVE  Shape' /\ StepInv'
  BY <1>21 DEF AddPeer, RememberPeer, policyVars, readVars
<1>22. ASSUME NEW id \in Peer, LanPeer(id)
       PROVE  Shape' /\ StepInv'
  BY <1>22 DEF LanPeer, policyVars, readVars
<1>23. ASSUME NEW id \in Peer, JoinTopics(id)
       PROVE  Shape' /\ StepInv'
  BY <1>23 DEF JoinTopics, Introduce, policyVars, readVars
<1>24. CASE StartNode
  BY <1>24 DEF StartNode, Start, Goto, readVars
<1>25. CASE StopNode
  <2>1. /\ mem' = {} /\ phase' = "down" /\ topics' = <<>> /\ neighbors' = {} /\ peers' = {}
        /\ seen' = {} /\ arriving' = None /\ missed' = {} /\ joining' = {} /\ owing' = FALSE
        /\ wanted' = [t \in Actor |-> {}] /\ bootstrap' = [t \in Actor |-> {}]
        /\ UNCHANGED <<file, stale, peersFile>>
    BY <1>25 DEF StopNode, Stop
  <2>. QED  BY <1>25, <2>1, StopTasks, AfterTask, NoTopics
<1>26. CASE UNCHANGED vars
  BY <1>26 DEF vars, policyVars, gossipVars, readVars
<1>. QED
  BY <1>1, <1>2, <1>3, <1>4, <1>5, <1>6, <1>7, <1>8, <1>9, <1>10, <1>11, <1>12, <1>13,
     <1>14, <1>15, <1>16, <1>17, <1>18, <1>19, <1>20, <1>21, <1>22, <1>23, <1>24, <1>25,
     <1>26
  DEF SwarmNext, Begin, TaskStep, Continue, Shape

-----------------------------------------------------------------------------
\* When operations are kept apart, one runs at a time.
LEMMA OneStep ==
  ASSUME Apart
  PROVE  Shape /\ StepInv /\ OneInv /\ [SwarmNext]_vars => OneInv'
<1>. SUFFICES ASSUME Shape, StepInv, OneInv, [SwarmNext]_vars
              PROVE  OneInv'
  OBVIOUS
<1>. USE Actors DEF Shape, OneInv
<1>1. ASSUME NEW t \in Handler, NEW e \in Edit, Mutate(t, e),
             UNCHANGED <<gossipVars, readVars>>
      PROVE  OneInv'
  BY <1>1 DEF Mutate, MayBegin, Asks, Goto, gossipVars, readVars, Quiet, Actor
<1>2. ASSUME NEW t \in Ctl, NEW e \in Edit, CtlOffline(t, e),
             UNCHANGED <<gossipVars, readVars>>
      PROVE  OneInv'
  BY <1>2 DEF CtlOffline, MayBegin, Asks, Goto, gossipVars, readVars, Quiet, Actor
<1>3. ASSUME NEW t \in Ctl, NEW e \in Edit, CtlTrack(t, e),
             UNCHANGED <<gossipVars, readVars>>
      PROVE  OneInv'
  BY <1>3 DEF CtlTrack, MayBegin, Asks, Goto, gossipVars, readVars, Quiet, Actor
<1>4. ASSUME NEW t \in Top, NEW e \in Edit, TopEdit(t, e),
             UNCHANGED <<gossipVars, readVars>>
      PROVE  OneInv'
  BY <1>4 DEF TopEdit, MayBegin, Asks, Goto, gossipVars, readVars, Quiet, Actor
<1>5. ASSUME NEW t \in Actor, TopPoll(t), UNCHANGED <<gossipVars, readVars>>
      PROVE  OneInv'
  <2>1. \A u \in Actor : pc'[u] # "idle" => pc[u] # "idle"
    BY <1>5 DEF TopPoll, Goto
  <2>. QED  BY <2>1
<1>6. ASSUME NEW t \in Actor, MutateSave(t), UNCHANGED <<gossipVars, readVars>>
      PROVE  OneInv'
  <2>1. \A u \in Actor : pc'[u] # "idle" => pc[u] # "idle"
    BY <1>6, EndsTask DEF MutateSave, Goto
  <2>. QED  BY <2>1
<1>7. ASSUME NEW t \in Actor, Swap(t), UNCHANGED <<gossipVars, readVars>>
      PROVE  OneInv'
  <2>1. \A u \in Actor : pc'[u] # "idle" => pc[u] # "idle"
    BY <1>7 DEF Swap, Goto
  <2>. QED  BY <2>1
<1>8. ASSUME NEW t \in Actor, Reload(t), UNCHANGED <<gossipVars, readVars>>
      PROVE  OneInv'
  <2>1. \A u \in Actor : pc'[u] # "idle" => pc[u] # "idle"
    BY <1>8, EndsTask, AfterTask DEF Reload, Goto
  <2>. QED  BY <2>1
<1>9. ASSUME NEW t \in Actor, CtlLoad(t), UNCHANGED <<gossipVars, readVars>>
      PROVE  OneInv'
  <2>1. \A u \in Actor : pc'[u] # "idle" => pc[u] # "idle"
    BY <1>9 DEF CtlLoad, Goto
  <2>. QED  BY <2>1
<1>10. ASSUME NEW t \in Actor, CtlWrite(t), UNCHANGED <<gossipVars, readVars>>
       PROVE  OneInv'
  <2>1. \A u \in Actor : pc'[u] # "idle" => pc[u] # "idle"
    BY <1>10, EndsTask DEF CtlWrite
  <2>. QED  BY <2>1
<1>11. ASSUME NEW t \in Actor, TopWrite(t), UNCHANGED <<gossipVars, readVars>>
       PROVE  OneInv'
  <2>1. \A u \in Actor : pc'[u] # "idle" => pc[u] # "idle"
    BY <1>11 DEF TopWrite, Goto
  <2>. QED  BY <2>1
<1>12. ASSUME NEW t \in Actor, TopicsWanted(t)
       PROVE  OneInv'
  <2>1. \A u \in Actor : pc'[u] # "idle" => pc[u] # "idle"
    BY <1>12 DEF TopicsWanted, Goto
  <2>. QED  BY <2>1
<1>13. ASSUME NEW t \in Actor, TopicsNeighbors(t)
       PROVE  OneInv'
  <2>1. \A u \in Actor : pc'[u] # "idle" => pc[u] # "idle"
    BY <1>13 DEF TopicsNeighbors, Goto
  <2>. QED  BY <2>1
<1>14. ASSUME NEW t \in Actor, TopicsPeers(t)
       PROVE  OneInv'
  <2>1. \A u \in Actor : pc'[u] # "idle" => pc[u] # "idle"
    BY <1>14 DEF TopicsPeers, Goto
  <2>. QED  BY <2>1
<1>15. ASSUME NEW t \in Actor, TopicsSubscribe(t)
       PROVE  OneInv'
  <2>1. \A u \in Actor : pc'[u] # "idle" => pc[u] # "idle"
    BY <1>15, EndsTask, AfterTask DEF TopicsSubscribe
  <2>. QED  BY <2>1
<1>16. ASSUME NEW t \in Actor, ClientLeaves(t)
       PROVE  OneInv'
  <2>1. \A u \in Actor : pc'[u] # "idle" => pc[u] # "idle"
    BY <1>16, EndsTask, AfterTask, PolicyStoreAssumption DEF ClientLeaves, Leave
  <2>. QED  BY <2>1
<1>17. CASE UNCHANGED <<policyVars, readVars>>
  BY <1>17 DEF policyVars
<1>18. CASE StartNode
  BY <1>18 DEF StartNode, Start, Goto, readVars, Quiet, Actor
<1>19. CASE StopNode
  <2>1. \A u \in Actor : pc'[u] # "idle" => pc[u] # "idle"
    BY <1>19, StopTasks, AfterTask DEF Settling
  <2>. QED  BY <2>1
<1>20. CASE UNCHANGED vars
  BY <1>20 DEF vars, policyVars, gossipVars, readVars
<1>. QED
  BY <1>1, <1>2, <1>3, <1>4, <1>5, <1>6, <1>7, <1>8, <1>9, <1>10, <1>11, <1>12, <1>13,
     <1>14, <1>15, <1>16, <1>17, <1>18, <1>19, <1>20
  DEF SwarmNext, Begin, TaskStep, Continue, Shape, NeighborIntroduce, NeighborUp,
      NeighborDown, Hello, AddPeer, LanPeer, JoinTopics

\* The daemon and the file stay in step.
LEMMA FileStep ==
  ASSUME Apart
  PROVE  Shape /\ StepInv /\ OneInv /\ FileInv /\ [SwarmNext]_vars => FileInv'
<1>. SUFFICES ASSUME Shape, StepInv, OneInv, FileInv, [SwarmNext]_vars
              PROVE  FileInv'
  OBVIOUS
<1>. USE Actors DEF Shape, StepInv, OneInv, FileInv, Forgotten, Settling, Step, Asked
<1>1. ASSUME NEW t \in Handler, NEW e \in Edit, Mutate(t, e),
             UNCHANGED <<gossipVars, readVars>>
      PROVE  FileInv'
  BY <1>1 DEF Mutate, MayBegin, Asks, Goto, gossipVars, readVars, Quiet, Actor
<1>2. ASSUME NEW t \in Ctl, NEW e \in Edit, CtlOffline(t, e),
             UNCHANGED <<gossipVars, readVars>>
      PROVE  FileInv'
  BY <1>2 DEF CtlOffline, MayBegin, Asks, Goto, gossipVars, readVars, Quiet, Actor
<1>3. ASSUME NEW t \in Ctl, NEW e \in Edit, CtlTrack(t, e),
             UNCHANGED <<gossipVars, readVars>>
      PROVE  FileInv'
  BY <1>3 DEF CtlTrack, MayBegin, Asks, Goto, gossipVars, readVars, Quiet, Actor
<1>4. ASSUME NEW t \in Top, NEW e \in Edit, TopEdit(t, e),
             UNCHANGED <<gossipVars, readVars>>
      PROVE  FileInv'
  BY <1>4 DEF TopEdit, MayBegin, Asks, Goto, gossipVars, readVars, Quiet, Actor
<1>5. ASSUME NEW t \in Actor, TopPoll(t), UNCHANGED <<gossipVars, readVars>>
      PROVE  FileInv'
  BY <1>5 DEF TopPoll, Goto, gossipVars, readVars
<1>6. ASSUME NEW t \in Actor, MutateSave(t), UNCHANGED <<gossipVars, readVars>>
      PROVE  FileInv'
  <2>1. pc[t] = "save" /\ \A u \in Actor : u # t => pc[u] = "idle"
    BY <1>6 DEF MutateSave
  <2>2. mem' = mem /\ phase' = phase /\ owing' = owing /\ phase # "down"
    BY <1>6, <2>1 DEF MutateSave, readVars
  <2>3. CASE file' = copy[t] /\ Goto(t, "swap") /\ UNCHANGED <<copy, edit>>
    <3>1. pc'[t] = "swap" /\ \A u \in Actor : u # t => pc'[u] = "idle"
      BY <2>1, <2>3 DEF Goto
    <3>. QED  BY <2>2, <2>3, <3>1
  <2>4. CASE file' = file /\ Ends(t, "idle")
    <3>1. \A u \in Actor : pc'[u] = "idle"
      BY <2>1, <2>4, EndsTask
    <3>2. mem = file \/ Forgotten
      BY <2>1, <2>2
    <3>. QED  BY <2>2, <2>4, <3>1, <3>2
  <2>. QED  BY <1>6, <2>3, <2>4 DEF MutateSave
<1>7. ASSUME NEW t \in Actor, Swap(t), UNCHANGED <<gossipVars, readVars>>
      PROVE  FileInv'
  BY <1>7 DEF Swap, Goto, gossipVars, readVars
<1>8. ASSUME NEW t \in Actor, Reload(t), UNCHANGED <<gossipVars, readVars>>
      PROVE  FileInv'
  <2>0. pc[t] = "reload" /\ \A u \in Actor : u # t => pc[u] = "idle"
    BY <1>8 DEF Reload
  <2>1. CASE phase = "up"
    <3>1. /\ phase' = "up" /\ file' = file /\ pc' = [pc EXCEPT ![t] = "swap"]
          /\ copy' = [copy EXCEPT ![t] = file]
      BY <1>8, <2>1 DEF Reload, Goto
    <3>2. pc'[t] = "swap" /\ copy'[t] = file /\ \A u \in Actor : u # t => pc'[u] = "idle"
      BY <2>0, <3>1
    <3>. QED  BY <3>1, <3>2
  <2>2. CASE phase # "up"
    <3>1. phase = "down" /\ phase' = "down" /\ file' = file
      BY <1>8, <2>2 DEF Reload
    <3>2. Ends(t, After(t))
      BY <1>8, <2>2 DEF Reload
    <3>. QED  BY <2>0, <3>1, <3>2, EndsAfter
  <2>. QED  BY <2>1, <2>2
<1>9. ASSUME NEW t \in Actor, CtlLoad(t), UNCHANGED <<gossipVars, readVars>>
      PROVE  FileInv'
  BY <1>9 DEF CtlLoad, Goto, gossipVars, readVars
<1>10. ASSUME NEW t \in Actor, CtlWrite(t), UNCHANGED <<gossipVars, readVars>>
       PROVE  FileInv'
  <2>1. /\ pc[t] \in {"write", "write offline"}
        /\ mem' = mem /\ phase' = phase /\ owing' = owing
    BY <1>10 DEF CtlWrite, readVars
  <2>2. \A u \in Actor : u # t => pc[u] = "idle"
    BY <2>1
  <2>3. CASE file' = copy[t] /\ Ends(t, IF pc[t] = "write" THEN "reload" ELSE "idle")
    <3>1. /\ pc'[t] = (IF pc[t] = "write" THEN "reload" ELSE "idle")
          /\ \A u \in Actor : u # t => pc'[u] = "idle"
      BY <2>2, <2>3, EndsTask
    <3>. QED  BY <2>1, <3>1
  <2>4. CASE file' = file /\ Ends(t, "idle")
    <3>1. \A u \in Actor : pc'[u] = "idle"
      BY <2>2, <2>4, EndsTask
    <3>2. phase # "down" => mem = file \/ Forgotten
      BY <2>1, <2>2
    <3>. QED  BY <2>1, <2>4, <3>1, <3>2
  <2>. QED  BY <1>10, <2>3, <2>4 DEF CtlWrite
<1>11. ASSUME NEW t \in Actor, TopWrite(t), UNCHANGED <<gossipVars, readVars>>
       PROVE  FileInv'
  BY <1>11 DEF TopWrite, Goto, gossipVars, readVars
<1>12. ASSUME NEW t \in Actor, TopicsWanted(t)
       PROVE  FileInv'
  BY <1>12 DEF TopicsWanted, Goto, gossipVars
<1>13. ASSUME NEW t \in Actor, TopicsNeighbors(t)
       PROVE  FileInv'
  BY <1>13 DEF TopicsNeighbors, Goto, gossipVars
<1>14. ASSUME NEW t \in Actor, TopicsPeers(t)
       PROVE  FileInv'
  BY <1>14 DEF TopicsPeers, Goto, gossipVars
<1>15. ASSUME NEW t \in Actor, TopicsSubscribe(t)
       PROVE  FileInv'
  <2>1. pc[t] = "subscribe" /\ UNCHANGED <<file, mem>> /\ Ends(t, After(t))
    BY <1>15 DEF TopicsSubscribe
  <2>2. mem = file /\ \A u \in Actor : u # t => pc[u] = "idle"
    BY <2>1
  <2>. QED  BY <2>1, <2>2, EndsAfter
<1>16. ASSUME NEW t \in Actor, ClientLeaves(t)
       PROVE  FileInv'
  <2>1. /\ pc[t] \in Leaves /\ UNCHANGED <<file, mem, phase>> /\ Ends(t, After(t))
        /\ owing' = TRUE
    BY <1>16 DEF ClientLeaves, Leave
  <2>2. mem = file \/ "swap" \in Leaves
    BY <2>1, PolicyStoreAssumption
  <2>3. \A u \in Actor : u # t => pc[u] = "idle"
    BY <2>1, PolicyStoreAssumption
  <2>. QED  BY <2>1, <2>2, <2>3, EndsAfter
<1>17. CASE UNCHANGED <<policyVars, readVars>>
  BY <1>17 DEF policyVars, readVars
<1>18. CASE StartNode
  BY <1>18 DEF StartNode, Start, Goto, readVars, Quiet, Actor
<1>19. CASE StopNode
  <2>1. phase' = "down" /\ file' = file
    BY <1>19 DEF StopNode, Stop
  <2>2. ASSUME NEW t \in Actor
        PROVE  \/ pc'[t] \in {"idle", "poll"}
               \/ /\ pc[t] \notin Settling \cup {"save", "swap"}
                  /\ pc'[t] = pc[t] /\ copy'[t] = copy[t] /\ edit'[t] = edit[t]
    <3>1. After(t) \in {"idle", "poll"}
      BY AfterTask
    <3>. HIDE DEF Shape, Settling, StepInv, OneInv, FileInv
    <3>2. IF pc[t] \in Settling \cup {"save", "swap"}
          THEN pc'[t] = After(t)
          ELSE pc'[t] = pc[t] /\ copy'[t] = copy[t] /\ edit'[t] = edit[t]
      BY <1>19, StopTasks
    <3>. QED  BY <3>1, <3>2
  <2>3. ASSUME NEW t \in Actor
        PROVE  pc'[t] \notin {"save", "swap"} \cup Settling
    BY <2>2
  <2>4. ASSUME NEW t \in Actor, pc'[t] \in {"write", "write offline", "write top"}
        PROVE  copy'[t] = Edited(file', edit'[t])
    BY <2>1, <2>2, <2>4
  <2>. QED  BY <2>1, <2>3, <2>4
<1>20. CASE UNCHANGED vars
  BY <1>20 DEF vars, policyVars, gossipVars, readVars
<1>. QED
  BY <1>1, <1>2, <1>3, <1>4, <1>5, <1>6, <1>7, <1>8, <1>9, <1>10, <1>11, <1>12, <1>13,
     <1>14, <1>15, <1>16, <1>17, <1>18, <1>19, <1>20
  DEF SwarmNext, Begin, TaskStep, Continue, Shape, NeighborIntroduce, NeighborUp,
      NeighborDown, Hello, AddPeer, LanPeer, JoinTopics

\* The topics follow the policy.
LEMMA TopicStep ==
  ASSUME Apart
  PROVE  Shape /\ StepInv /\ OneInv /\ TopicInv /\ [SwarmNext]_vars => TopicInv'
<1>. SUFFICES ASSUME Shape, StepInv, OneInv, TopicInv, [SwarmNext]_vars
              PROVE  TopicInv'
  OBVIOUS
<1>. USE Actors DEF Shape, OneInv, TopicInv, Settling, Due
<1>1. ASSUME NEW t \in Handler, NEW e \in Edit, Mutate(t, e),
             UNCHANGED <<gossipVars, readVars>>
      PROVE  TopicInv'
  <2>1. UNCHANGED <<topics, mem, phase, owing, wanted>>
    BY <1>1 DEF Mutate, gossipVars, readVars
  <2>2. \A u \in Actor : pc'[u] \in Settling <=> pc[u] \in Settling
    BY <1>1 DEF Mutate, Goto, MayBegin, Quiet
  <2>3. \A u \in Actor : pc'[u] \in Settling => pc'[u] = pc[u]
    BY <1>1 DEF Mutate, Goto, MayBegin, Quiet
  <2>. QED  BY <2>1, <2>2, <2>3 DEF OnTopics
<1>2. ASSUME NEW t \in Ctl, NEW e \in Edit, CtlOffline(t, e),
             UNCHANGED <<gossipVars, readVars>>
      PROVE  TopicInv'
  <2>1. UNCHANGED <<topics, mem, phase, owing, wanted>>
    BY <1>2 DEF CtlOffline, gossipVars, readVars
  <2>2. \A u \in Actor : pc'[u] \in Settling <=> pc[u] \in Settling
    BY <1>2 DEF CtlOffline, Goto, MayBegin, Quiet
  <2>3. \A u \in Actor : pc'[u] \in Settling => pc'[u] = pc[u]
    BY <1>2 DEF CtlOffline, Goto, MayBegin, Quiet
  <2>. QED  BY <2>1, <2>2, <2>3 DEF OnTopics
<1>3. ASSUME NEW t \in Ctl, NEW e \in Edit, CtlTrack(t, e),
             UNCHANGED <<gossipVars, readVars>>
      PROVE  TopicInv'
  <2>1. UNCHANGED <<topics, mem, phase, owing, wanted>>
    BY <1>3 DEF CtlTrack, gossipVars, readVars
  <2>2. \A u \in Actor : pc'[u] \in Settling <=> pc[u] \in Settling
    BY <1>3 DEF CtlTrack, Goto, MayBegin, Quiet
  <2>3. \A u \in Actor : pc'[u] \in Settling => pc'[u] = pc[u]
    BY <1>3 DEF CtlTrack, Goto, MayBegin, Quiet
  <2>. QED  BY <2>1, <2>2, <2>3 DEF OnTopics
<1>4. ASSUME NEW t \in Top, NEW e \in Edit, TopEdit(t, e),
             UNCHANGED <<gossipVars, readVars>>
      PROVE  TopicInv'
  <2>1. UNCHANGED <<topics, mem, phase, owing, wanted>>
    BY <1>4 DEF TopEdit, gossipVars, readVars
  <2>2. \A u \in Actor : pc'[u] \in Settling <=> pc[u] \in Settling
    BY <1>4 DEF TopEdit, Goto, MayBegin, Quiet
  <2>3. \A u \in Actor : pc'[u] \in Settling => pc'[u] = pc[u]
    BY <1>4 DEF TopEdit, Goto, MayBegin, Quiet
  <2>. QED  BY <2>1, <2>2, <2>3 DEF OnTopics
<1>5. ASSUME NEW t \in Actor, TopPoll(t), UNCHANGED <<gossipVars, readVars>>
      PROVE  TopicInv'
  <2>1. UNCHANGED <<topics, mem, phase, owing, wanted>>
    BY <1>5 DEF TopPoll, gossipVars, readVars
  <2>2. \A u \in Actor : pc'[u] \in Settling <=> pc[u] \in Settling
    BY <1>5 DEF TopPoll, Goto
  <2>3. \A u \in Actor : pc'[u] \in Settling => pc'[u] = pc[u]
    BY <1>5 DEF TopPoll, Goto
  <2>. QED  BY <2>1, <2>2, <2>3 DEF OnTopics
<1>6. ASSUME NEW t \in Actor, MutateSave(t), UNCHANGED <<gossipVars, readVars>>
      PROVE  TopicInv'
  <2>1. UNCHANGED <<topics, mem, phase, owing, wanted>>
    BY <1>6 DEF MutateSave, gossipVars, readVars
  <2>2. \A u \in Actor : pc'[u] \in Settling <=> pc[u] \in Settling
    BY <1>6, EndsTask DEF MutateSave, Goto
  <2>3. \A u \in Actor : pc'[u] \in Settling => pc'[u] = pc[u]
    BY <1>6, EndsTask DEF MutateSave, Goto
  <2>. QED  BY <2>1, <2>2, <2>3 DEF OnTopics
<1>7. ASSUME NEW t \in Actor, Swap(t), UNCHANGED <<gossipVars, readVars>>
      PROVE  TopicInv'
  BY <1>7 DEF Swap, Goto, gossipVars, readVars
<1>8. ASSUME NEW t \in Actor, Reload(t), UNCHANGED <<gossipVars, readVars>>
      PROVE  TopicInv'
  <2>1. UNCHANGED <<topics, mem, phase, owing, wanted>>
    BY <1>8 DEF Reload, gossipVars, readVars
  <2>2. \A u \in Actor : pc'[u] \in Settling <=> pc[u] \in Settling
    BY <1>8, EndsAfter DEF Reload, Goto
  <2>3. \A u \in Actor : pc'[u] \in Settling => pc'[u] = pc[u]
    BY <1>8, EndsAfter DEF Reload, Goto
  <2>. QED  BY <2>1, <2>2, <2>3 DEF OnTopics
<1>9. ASSUME NEW t \in Actor, CtlLoad(t), UNCHANGED <<gossipVars, readVars>>
      PROVE  TopicInv'
  <2>1. UNCHANGED <<topics, mem, phase, owing, wanted>>
    BY <1>9 DEF CtlLoad, gossipVars, readVars
  <2>2. \A u \in Actor : pc'[u] \in Settling <=> pc[u] \in Settling
    BY <1>9 DEF CtlLoad, Goto
  <2>3. \A u \in Actor : pc'[u] \in Settling => pc'[u] = pc[u]
    BY <1>9 DEF CtlLoad, Goto
  <2>. QED  BY <2>1, <2>2, <2>3 DEF OnTopics
<1>10. ASSUME NEW t \in Actor, CtlWrite(t), UNCHANGED <<gossipVars, readVars>>
       PROVE  TopicInv'
  <2>1. UNCHANGED <<topics, mem, phase, owing, wanted>>
    BY <1>10 DEF CtlWrite, gossipVars, readVars
  <2>2. \A u \in Actor : pc'[u] \in Settling <=> pc[u] \in Settling
    BY <1>10, EndsTask DEF CtlWrite
  <2>3. \A u \in Actor : pc'[u] \in Settling => pc'[u] = pc[u]
    BY <1>10, EndsTask DEF CtlWrite
  <2>. QED  BY <2>1, <2>2, <2>3 DEF OnTopics
<1>11. ASSUME NEW t \in Actor, TopWrite(t), UNCHANGED <<gossipVars, readVars>>
       PROVE  TopicInv'
  <2>1. UNCHANGED <<topics, mem, phase, owing, wanted>>
    BY <1>11 DEF TopWrite, gossipVars, readVars
  <2>2. \A u \in Actor : pc'[u] \in Settling <=> pc[u] \in Settling
    BY <1>11 DEF TopWrite, Goto
  <2>3. \A u \in Actor : pc'[u] \in Settling => pc'[u] = pc[u]
    BY <1>11 DEF TopWrite, Goto
  <2>. QED  BY <2>1, <2>2, <2>3 DEF OnTopics
<1>12. ASSUME NEW t \in Actor, TopicsWanted(t)
       PROVE  TopicInv'
  BY <1>12 DEF TopicsWanted, Goto, gossipVars
<1>13. ASSUME NEW t \in Actor, TopicsNeighbors(t)
       PROVE  TopicInv'
  BY <1>13 DEF TopicsNeighbors, Goto, gossipVars
<1>14. ASSUME NEW t \in Actor, TopicsPeers(t)
       PROVE  TopicInv'
  BY <1>14 DEF TopicsPeers, Goto, gossipVars
<1>15. ASSUME NEW t \in Actor, TopicsSubscribe(t)
       PROVE  TopicInv'
  <2>1. /\ pc[t] = "subscribe" /\ UNCHANGED mem /\ Ends(t, After(t))
        /\ wanted[t] = Due /\ \A u \in Actor : u # t => pc[u] = "idle"
    BY <1>15 DEF TopicsSubscribe
  <2>2. \A u \in Actor : pc'[u] \notin Settling
    BY <2>1, EndsAfter
  <2>. PICK failed \in SUBSET (wanted[t] \ DOMAIN topics) :
         /\ failed = {} \/ JoinFails
         /\ topics' = Subscribed(wanted[t], bootstrap[t], failed)
    BY <1>15 DEF TopicsSubscribe
  <2>3. DOMAIN topics' = (wanted[t] \cap DOMAIN topics) \cup (wanted[t] \ failed)
    BY SubscribedType
  <2>4. OnTopics'
    BY <2>1, <2>3, SwarmAssumption DEF OnTopics
  <2>. QED  BY <2>2, <2>4
<1>16. ASSUME NEW t \in Actor, ClientLeaves(t)
       PROVE  TopicInv'
  <2>1. /\ pc[t] \in Leaves /\ UNCHANGED mem /\ Ends(t, After(t)) /\ owing'
    BY <1>16 DEF ClientLeaves, Leave
  <2>2. \A u \in Actor : u # t => pc[u] = "idle"
    BY <2>1, PolicyStoreAssumption
  <2>. QED  BY <2>1, <2>2, EndsAfter
<1>17. CASE UNCHANGED <<policyVars, readVars>> /\ DOMAIN topics' = DOMAIN topics
  BY <1>17 DEF policyVars, readVars, OnTopics
<1>18. CASE StartNode
  <2>1. phase' = "starting" /\ pc' = [pc EXCEPT ![Boot] = "settle"]
    BY <1>18 DEF StartNode, Start, Goto
  <2>2. \A u \in Actor : pc[u] = "idle"
    BY <1>18 DEF StartNode, Start, Quiet, Actor
  <2>. QED  BY <2>1, <2>2
<1>19. CASE StopNode
  <2>1. phase' = "down"
    BY <1>19 DEF StopNode, Stop
  <2>2. ASSUME NEW t \in Actor
        PROVE  pc'[t] \notin Settling
    <3>1. After(t) \notin {"settle", "neighbors", "peers", "subscribe"}
      BY AfterTask
    <3>2. IF pc[t] \in Settling \cup {"save", "swap"}
          THEN pc'[t] = After(t) ELSE pc'[t] = pc[t]
      BY <1>19, StopTasks
    <3>. QED  BY <3>1, <3>2
  <2>. QED  BY <2>1, <2>2
<1>20. CASE UNCHANGED vars
  BY <1>20 DEF vars, policyVars, gossipVars, readVars, OnTopics
<1>. QED
  BY <1>1, <1>2, <1>3, <1>4, <1>5, <1>6, <1>7, <1>8, <1>9, <1>10, <1>11, <1>12, <1>13,
     <1>14, <1>15, <1>16, <1>17, <1>18, <1>19, <1>20
  DEF SwarmNext, Begin, TaskStep, Continue, Shape, NeighborIntroduce, NeighborUp,
      NeighborDown, Hello, AddPeer, LanPeer, JoinTopics, Introduce

\* Nobody becomes a neighbor unnoticed: who is introduced is on the topics that
\* are there, and on those about to be joined unless it is missed.
LEMMA IntroduceStep ==
  ASSUME Shape, NeighborInv, NEW id \in Peer, Introduce(id),
         UNCHANGED <<policyVars, readVars, neighbors>>,
         arriving' \in {arriving} \/ (arriving = id /\ arriving' = None)
  PROVE  NeighborInv'
<1>1. /\ DOMAIN topics' = DOMAIN topics
      /\ \A p \in DOMAIN topics : topics'[p] = topics[p] \cup {id}
  BY DEF Introduce
<1>2. pc' = pc /\ bootstrap' = bootstrap /\ neighbors' = neighbors
  BY DEF policyVars, readVars
<1>3. neighbors \ (missed' \cup {arriving'})
        \subseteq (neighbors \ (missed \cup {arriving})) \cup {id}
  BY DEF Introduce
<1>4. \A t \in Actor :
        pc[t] \in {"peers", "subscribe"} /\ id \notin bootstrap[t] => id \in missed'
  BY DEF Introduce, Shape
<1>5. \A p \in DOMAIN topics' : neighbors' \ (missed' \cup {arriving'}) \subseteq topics'[p]
  BY <1>1, <1>2, <1>3 DEF NeighborInv
<1>6. ASSUME NEW t \in Actor, pc'[t] \in {"peers", "subscribe"}
      PROVE  neighbors' \ (missed' \cup {arriving'}) \subseteq bootstrap'[t]
  BY <1>2, <1>3, <1>4, <1>6 DEF NeighborInv
<1>. QED  BY <1>5, <1>6 DEF NeighborInv

\* Every step keeps that.
LEMMA NeighborStep == Shape /\ NeighborInv /\ [SwarmNext]_vars => NeighborInv'
<1>. SUFFICES ASSUME Shape, NeighborInv, [SwarmNext]_vars
              PROVE  NeighborInv'
  OBVIOUS
<1>. USE Actors DEF Shape, NeighborInv
<1>1. ASSUME NEW t \in Handler, NEW e \in Edit, Mutate(t, e),
             UNCHANGED <<gossipVars, readVars>>
      PROVE  NeighborInv'
  <2>1. \A u \in Actor : pc'[u] \in {"peers", "subscribe"} => pc'[u] = pc[u]
    BY <1>1 DEF Mutate, Goto
  <2>. QED  BY <1>1, <2>1 DEF gossipVars, readVars
<1>2. ASSUME NEW t \in Ctl, NEW e \in Edit, CtlOffline(t, e),
             UNCHANGED <<gossipVars, readVars>>
      PROVE  NeighborInv'
  <2>1. \A u \in Actor : pc'[u] \in {"peers", "subscribe"} => pc'[u] = pc[u]
    BY <1>2 DEF CtlOffline, Goto
  <2>. QED  BY <1>2, <2>1 DEF gossipVars, readVars
<1>3. ASSUME NEW t \in Ctl, NEW e \in Edit, CtlTrack(t, e),
             UNCHANGED <<gossipVars, readVars>>
      PROVE  NeighborInv'
  <2>1. \A u \in Actor : pc'[u] \in {"peers", "subscribe"} => pc'[u] = pc[u]
    BY <1>3 DEF CtlTrack, Goto
  <2>. QED  BY <1>3, <2>1 DEF gossipVars, readVars
<1>4. ASSUME NEW t \in Top, NEW e \in Edit, TopEdit(t, e),
             UNCHANGED <<gossipVars, readVars>>
      PROVE  NeighborInv'
  <2>1. \A u \in Actor : pc'[u] \in {"peers", "subscribe"} => pc'[u] = pc[u]
    BY <1>4 DEF TopEdit, Goto
  <2>. QED  BY <1>4, <2>1 DEF gossipVars, readVars
<1>5. ASSUME NEW t \in Actor, TopPoll(t), UNCHANGED <<gossipVars, readVars>>
      PROVE  NeighborInv'
  <2>1. \A u \in Actor : pc'[u] \in {"peers", "subscribe"} => pc'[u] = pc[u]
    BY <1>5 DEF TopPoll, Goto
  <2>. QED  BY <1>5, <2>1 DEF gossipVars, readVars
<1>6. ASSUME NEW t \in Actor, MutateSave(t), UNCHANGED <<gossipVars, readVars>>
      PROVE  NeighborInv'
  <2>1. \A u \in Actor : pc'[u] \in {"peers", "subscribe"} => pc'[u] = pc[u]
    BY <1>6, EndsTask DEF MutateSave, Goto
  <2>. QED  BY <1>6, <2>1 DEF gossipVars, readVars
<1>7. ASSUME NEW t \in Actor, Swap(t), UNCHANGED <<gossipVars, readVars>>
      PROVE  NeighborInv'
  <2>1. \A u \in Actor : pc'[u] \in {"peers", "subscribe"} => pc'[u] = pc[u]
    BY <1>7 DEF Swap, Goto
  <2>. QED  BY <1>7, <2>1 DEF gossipVars, readVars
<1>8. ASSUME NEW t \in Actor, Reload(t), UNCHANGED <<gossipVars, readVars>>
      PROVE  NeighborInv'
  <2>1. \A u \in Actor : pc'[u] \in {"peers", "subscribe"} => pc'[u] = pc[u]
    BY <1>8, EndsAfter DEF Reload, Goto
  <2>. QED  BY <1>8, <2>1 DEF gossipVars, readVars
<1>9. ASSUME NEW t \in Actor, CtlLoad(t), UNCHANGED <<gossipVars, readVars>>
      PROVE  NeighborInv'
  <2>1. \A u \in Actor : pc'[u] \in {"peers", "subscribe"} => pc'[u] = pc[u]
    BY <1>9 DEF CtlLoad, Goto
  <2>. QED  BY <1>9, <2>1 DEF gossipVars, readVars
<1>10. ASSUME NEW t \in Actor, CtlWrite(t), UNCHANGED <<gossipVars, readVars>>
       PROVE  NeighborInv'
  <2>1. \A u \in Actor : pc'[u] \in {"peers", "subscribe"} => pc'[u] = pc[u]
    BY <1>10, EndsTask DEF CtlWrite
  <2>. QED  BY <1>10, <2>1 DEF gossipVars, readVars
<1>11. ASSUME NEW t \in Actor, TopWrite(t), UNCHANGED <<gossipVars, readVars>>
       PROVE  NeighborInv'
  <2>1. \A u \in Actor : pc'[u] \in {"peers", "subscribe"} => pc'[u] = pc[u]
    BY <1>11 DEF TopWrite, Goto
  <2>. QED  BY <1>11, <2>1 DEF gossipVars, readVars
<1>12. ASSUME NEW t \in Actor, TopicsWanted(t)
       PROVE  NeighborInv'
  BY <1>12 DEF TopicsWanted, Goto, gossipVars
<1>13. ASSUME NEW t \in Actor, TopicsNeighbors(t)
       PROVE  NeighborInv'
  BY <1>13 DEF TopicsNeighbors, Goto, gossipVars
<1>14. ASSUME NEW t \in Actor, TopicsPeers(t)
       PROVE  NeighborInv'
  BY <1>14 DEF TopicsPeers, Goto, gossipVars
<1>15. ASSUME NEW t \in Actor, TopicsSubscribe(t)
       PROVE  NeighborInv'
  <2>1. /\ pc[t] = "subscribe" /\ Ends(t, After(t)) /\ UNCHANGED <<neighbors, missed, arriving>>
        /\ bootstrap' = [bootstrap EXCEPT ![t] = {}]
    BY <1>15 DEF TopicsSubscribe
  <2>. PICK failed : topics' = Subscribed(wanted[t], bootstrap[t], failed)
    BY <1>15 DEF TopicsSubscribe
  <2>2. \A q \in DOMAIN topics' :
          topics'[q] = IF q \in DOMAIN topics THEN topics[q] ELSE bootstrap[t]
    BY SubscribedType
  <2>3. \A u \in Actor : pc'[u] \in {"peers", "subscribe"} => u # t /\ pc'[u] = pc[u]
    BY <2>1, EndsAfter
  <2>. QED  BY <2>1, <2>2, <2>3
<1>16. ASSUME NEW t \in Actor, ClientLeaves(t)
       PROVE  NeighborInv'
  <2>1. /\ Ends(t, After(t)) /\ UNCHANGED <<neighbors, missed, arriving>>
        /\ bootstrap' = [bootstrap EXCEPT ![t] = {}]
    BY <1>16 DEF ClientLeaves, Leave
  <2>2. \A u \in Actor : pc'[u] \in {"peers", "subscribe"} => u # t /\ pc'[u] = pc[u]
    BY <2>1, EndsAfter
  <2>3. CASE UNCHANGED topics
    BY <2>1, <2>2, <2>3
  <2>4. CASE ~UNCHANGED topics
    <3>1. pc[t] = "subscribe"
      BY <1>16, <2>4 DEF ClientLeaves
    <3>. PICK undone : topics' = Subscribed(wanted[t], bootstrap[t], undone)
      BY <1>16, <2>4 DEF ClientLeaves
    <3>2. \A q \in DOMAIN topics' :
            topics'[q] = IF q \in DOMAIN topics THEN topics[q] ELSE bootstrap[t]
      BY SubscribedType
    <3>. QED  BY <2>1, <2>2, <3>1, <3>2
  <2>. QED  BY <2>3, <2>4
<1>17. CASE NeighborIntroduce
  <2>1. /\ arriving \in Peer /\ Introduce(arriving) /\ arriving' = None
        /\ UNCHANGED <<policyVars, readVars, neighbors>>
    BY <1>17 DEF NeighborIntroduce
  <2>. HIDE DEF Shape, NeighborInv
  <2>. QED  BY <2>1, IntroduceStep
<1>18. ASSUME NEW id \in Peer, NeighborUp(id)
       PROVE  NeighborInv'
  <2>1. /\ arriving = None /\ neighbors' = neighbors \cup {id}
        /\ UNCHANGED <<topics, missed, pc, bootstrap>>
        /\ arriving' = IF id \in neighbors THEN None ELSE id
    BY <1>18 DEF NeighborUp, policyVars, readVars
  <2>2. neighbors' \ (missed' \cup {arriving'}) \subseteq neighbors \ (missed \cup {arriving})
    BY <2>1, SwarmAssumption
  <2>. QED  BY <2>1, <2>2
<1>19. ASSUME NEW id \in Peer, NeighborDown(id)
       PROVE  NeighborInv'
  BY <1>19 DEF NeighborDown, policyVars, readVars
<1>20. ASSUME NEW id \in Peer, Hello(id)
       PROVE  NeighborInv'
  BY <1>20 DEF Hello, RememberPeer, policyVars, readVars
<1>21. ASSUME NEW id \in Peer, AddPeer(id)
       PROVE  NeighborInv'
  BY <1>21 DEF AddPeer, RememberPeer, policyVars, readVars
<1>22. ASSUME NEW id \in Peer, LanPeer(id)
       PROVE  NeighborInv'
  BY <1>22 DEF LanPeer, policyVars, readVars
<1>23. ASSUME NEW id \in Peer, JoinTopics(id)
       PROVE  NeighborInv'
  <2>1. Introduce(id) /\ UNCHANGED <<policyVars, readVars, neighbors, arriving>>
    BY <1>23 DEF JoinTopics
  <2>. HIDE DEF Shape, NeighborInv
  <2>. QED  BY <2>1, IntroduceStep
<1>24. CASE StartNode
  BY <1>24 DEF StartNode, Start, Goto, readVars
<1>25. CASE StopNode
  BY <1>25, NoTopics DEF StopNode
<1>26. CASE UNCHANGED vars
  BY <1>26 DEF vars, policyVars, gossipVars, readVars
<1>. QED
  BY <1>1, <1>2, <1>3, <1>4, <1>5, <1>6, <1>7, <1>8, <1>9, <1>10, <1>11, <1>12, <1>13,
     <1>14, <1>15, <1>16, <1>17, <1>18, <1>19, <1>20, <1>21, <1>22, <1>23, <1>24, <1>25,
     <1>26
  DEF SwarmNext, Begin, TaskStep, Continue, Shape

\* peers.json keeps what it has.
LEMMA PeersStep ==
  Shape /\ StepInv /\ PeersInv /\ [SwarmNext]_vars
    => PeersInv' /\ peersFile \subseteq peersFile'
<1>. SUFFICES ASSUME Shape, StepInv, PeersInv, [SwarmNext]_vars
              PROVE  PeersInv' /\ peersFile \subseteq peersFile'
  OBVIOUS
<1>. USE Actors DEF Shape, StepInv, PeersInv
<1>1. CASE UNCHANGED <<phase, peers, peersFile>>
  BY <1>1
<1>2. ASSUME NEW t \in Actor, TopicsSubscribe(t)
      PROVE  PeersInv' /\ peersFile \subseteq peersFile'
  BY <1>2 DEF TopicsSubscribe, Settling
<1>3. ASSUME NEW id \in Peer, Hello(id)
      PROVE  PeersInv' /\ peersFile \subseteq peersFile'
  BY <1>3 DEF Hello, RememberPeer, policyVars, readVars
<1>4. ASSUME NEW id \in Peer, AddPeer(id)
      PROVE  PeersInv' /\ peersFile \subseteq peersFile'
  BY <1>4 DEF AddPeer, RememberPeer, policyVars, readVars
<1>5. CASE StartNode
  BY <1>5 DEF StartNode, Start, Goto, readVars
<1>6. CASE StopNode
  BY <1>6 DEF StopNode, Stop, After, InDaemon, readVars
<1>. QED
  BY <1>1, <1>2, <1>3, <1>4, <1>5, <1>6
  DEF SwarmNext, Begin, TaskStep, Continue, Shape, Mutate, CtlOffline, CtlTrack, TopEdit,
      TopPoll, MutateSave, Swap, Reload, CtlLoad, CtlWrite, TopWrite, TopicsWanted,
      TopicsNeighbors, TopicsPeers, ClientLeaves, Leave, NeighborIntroduce, NeighborUp,
      NeighborDown, LanPeer, JoinTopics, gossipVars, readVars, policyVars, vars

-----------------------------------------------------------------------------
\* What EditsKeepOthers says of a step.
KeepsOthers ==
  file' # file =>
    \E t \in Task :
      /\ pc[t] \in Asked /\ pc'[t] # pc[t] /\ file' = copy[t]
      /\ stale[t] \/ file' = Edited(file, edit[t])

\* A task writes what it has, or fails to; what the others read is outdated if
\* the file is another one now.
LEMMA WriteStep ==
  ASSUME Shape, KeepInv, NEW t \in Task, pc[t] \in Writing,
         t \in Top => pc[t] = "write top" /\ pc'[t] = "reload",
         pc'[t] \in {"idle", "swap", "reload"},
         Outdates(t), file' = copy[t] \/ file' = file,
         \A u \in Actor : u # t => pc'[u] = pc[u] /\ copy'[u] = copy[u] /\ edit'[u] = edit[u]
  PROVE  KeepInv' /\ KeepsOthers
<1>. USE Actors
<1>1. \A u \in Actor :
        stale'[u] = (u # t /\ (u \in Top \/ pc[u] \in Asked) /\ (stale[u] \/ file' # file))
  BY DEF Outdates, Shape
<1>2. ASSUME NEW u \in Task, pc'[u] \in Writing, ~stale'[u]
      PROVE  copy'[u] = Edited(file', edit'[u])
  <2>1. u # t /\ pc'[u] = pc[u] /\ copy'[u] = copy[u] /\ edit'[u] = edit[u]
    BY <1>2 DEF Writing
  <2>2. ~stale[u] /\ file' = file
    BY <1>1, <1>2, <2>1 DEF Writing, Asked, Shape
  <2>. QED  BY <1>2, <2>1, <2>2 DEF KeepInv
<1>3. ASSUME NEW u \in Top
      PROVE  /\ pc'[u] = "idle" /\ ~stale'[u] => copy'[u] = file'
             /\ pc'[u] \in Settling \cup {"idle", "swap", "reload", "poll", "write top"}
  <2>1. CASE u = t
    BY <2>1
  <2>2. CASE u # t
    <3>1. ~stale'[u] => ~stale[u] /\ file' = file
      BY <1>1, <2>2 DEF Shape
    <3>. QED  BY <2>2, <3>1 DEF KeepInv
  <2>. QED  BY <2>1, <2>2
<1>4. KeepsOthers
  BY DEF KeepsOthers, KeepInv, Writing, Asked
<1>. QED  BY <1>2, <1>3, <1>4 DEF KeepInv

\* The file stays, and whoever is about to write was before or has just applied
\* its edit; ocitop's copy stays.
LEMMA ReadStep ==
  ASSUME Shape, KeepInv, NEW t \in Actor, file' = file,
         t \in Task /\ pc'[t] \in Writing => stale'[t] \/ copy'[t] = Edited(file, edit'[t]),
         t \in Top => /\ pc'[t] = "idle" /\ ~stale'[t] => copy'[t] = file
                     /\ pc'[t] \in Settling \cup {"idle", "swap", "reload", "poll", "write top"},
         \A u \in Actor : u # t => /\ pc'[u] = pc[u] /\ copy'[u] = copy[u]
                                  /\ edit'[u] = edit[u] /\ stale'[u] = stale[u]
  PROVE  KeepInv' /\ KeepsOthers
<1>1. ASSUME NEW u \in Task, pc'[u] \in Writing, ~stale'[u]
      PROVE  copy'[u] = Edited(file', edit'[u])
  BY <1>1, Actors DEF KeepInv
<1>2. ASSUME NEW u \in Top
      PROVE  /\ pc'[u] = "idle" /\ ~stale'[u] => copy'[u] = file'
             /\ pc'[u] \in Settling \cup {"idle", "swap", "reload", "poll", "write top"}
  BY <1>2, Actors DEF KeepInv
<1>. QED  BY <1>1, <1>2 DEF KeepInv, KeepsOthers

\* Every step of the daemon and its clients is of one of these kinds.
LEMMA KeepStep == Shape /\ StepInv /\ KeepInv /\ [SwarmNext]_vars => KeepInv' /\ KeepsOthers
<1>. SUFFICES ASSUME Shape, StepInv, KeepInv, [SwarmNext]_vars
              PROVE  KeepInv' /\ KeepsOthers
  OBVIOUS
<1>. USE Actors
<1>1. ASSUME NEW t \in Handler, NEW e \in Edit, Mutate(t, e)
      PROVE  KeepInv' /\ KeepsOthers
  <2>1. /\ file' = file /\ t \notin Top
        /\ copy'[t] = Edited(mem, e) /\ edit'[t] = e /\ stale'[t] = (mem # file)
        /\ \A u \in Actor : u # t => /\ pc'[u] = pc[u] /\ copy'[u] = copy[u]
                                    /\ edit'[u] = edit[u] /\ stale'[u] = stale[u]
    BY <1>1, PolicyStoreAssumption DEF Mutate, Asks, Goto, Shape
  <2>. QED  BY <2>1, ReadStep
<1>2. ASSUME NEW t \in Ctl, NEW e \in Edit, CtlOffline(t, e) \/ CtlTrack(t, e)
      PROVE  KeepInv' /\ KeepsOthers
  <2>1. /\ file' = file /\ t \notin Top /\ pc'[t] \notin Writing
        /\ \A u \in Actor : u # t => /\ pc'[u] = pc[u] /\ copy'[u] = copy[u]
                                    /\ edit'[u] = edit[u] /\ stale'[u] = stale[u]
    BY <1>2, PolicyStoreAssumption DEF CtlOffline, CtlTrack, Asks, Goto, Shape, Writing
  <2>. QED  BY <2>1, ReadStep
<1>3. ASSUME NEW t \in Top, NEW e \in Edit, TopEdit(t, e)
      PROVE  KeepInv' /\ KeepsOthers
  <2>1. /\ file' = file /\ pc[t] = "idle" /\ pc'[t] = "write top"
        /\ copy'[t] = Edited(copy[t], e) /\ edit'[t] = e /\ stale'[t] = stale[t]
        /\ \A u \in Actor : u # t => /\ pc'[u] = pc[u] /\ copy'[u] = copy[u]
                                    /\ edit'[u] = edit[u] /\ stale'[u] = stale[u]
    BY <1>3 DEF TopEdit, MayBegin, Asks, Goto, Shape
  <2>2. stale'[t] \/ copy'[t] = Edited(file, edit'[t])
    BY <2>1 DEF KeepInv, Shape
  <2>. QED  BY <2>1, <2>2, ReadStep
<1>4. ASSUME NEW t \in Actor, TopPoll(t)
      PROVE  KeepInv' /\ KeepsOthers
  <2>1. /\ file' = file /\ pc'[t] = "idle" /\ copy'[t] = file
        /\ \A u \in Actor : u # t => /\ pc'[u] = pc[u] /\ copy'[u] = copy[u]
                                    /\ edit'[u] = edit[u] /\ stale'[u] = stale[u]
    BY <1>4 DEF TopPoll, Goto, Shape
  <2>2. pc'[t] \notin Writing
    BY <2>1 DEF Writing
  <2>. QED  BY <2>1, <2>2, ReadStep
<1>5. ASSUME NEW t \in Actor, MutateSave(t)
      PROVE  KeepInv' /\ KeepsOthers
  <2>1. pc[t] = "save" /\ Outdates(t) /\ t \in Task
    BY <1>5 DEF MutateSave, StepInv, Settling
  <2>2. t \notin Top
    BY <2>1 DEF KeepInv, Settling
  <2>3. /\ file' = copy[t] \/ file' = file
        /\ pc'[t] \in {"idle", "swap"}
        /\ \A u \in Actor : u # t => pc'[u] = pc[u] /\ copy'[u] = copy[u] /\ edit'[u] = edit[u]
    <3>1. CASE file' = copy[t] /\ Goto(t, "swap") /\ UNCHANGED <<copy, edit>>
      BY <3>1 DEF Goto, Shape
    <3>2. CASE file' = file /\ Ends(t, "idle")
      BY <3>2, EndsTask
    <3>. QED  BY <1>5, <3>1, <3>2 DEF MutateSave
  <2>. QED  BY <2>1, <2>2, <2>3, WriteStep DEF Writing
<1>6. ASSUME NEW t \in Actor, CtlWrite(t)
      PROVE  KeepInv' /\ KeepsOthers
  <2>1. pc[t] \in {"write", "write offline"} /\ Outdates(t) /\ t \in Task
    BY <1>6 DEF CtlWrite, StepInv, Settling
  <2>2. t \notin Top
    BY <2>1 DEF KeepInv, Settling
  <2>3. (file' = copy[t] \/ file' = file) /\ \E w \in {"idle", "reload"} : Ends(t, w)
    BY <1>6 DEF CtlWrite
  <2>4. /\ pc'[t] \in {"idle", "reload"}
        /\ \A u \in Actor : u # t => pc'[u] = pc[u] /\ copy'[u] = copy[u] /\ edit'[u] = edit[u]
    BY <2>3, EndsTask
  <2>. QED  BY <2>1, <2>2, <2>3, <2>4, WriteStep DEF Writing
<1>7. ASSUME NEW t \in Actor, TopWrite(t)
      PROVE  KeepInv' /\ KeepsOthers
  <2>1. /\ pc[t] = "write top" /\ Outdates(t) /\ t \in Task /\ pc'[t] = "reload"
        /\ file' = copy[t] \/ file' = file
        /\ \A u \in Actor : u # t => pc'[u] = pc[u] /\ copy'[u] = copy[u] /\ edit'[u] = edit[u]
    BY <1>7 DEF TopWrite, StepInv, Settling, Goto, Shape
  <2>. QED  BY <2>1, WriteStep DEF Writing
<1>8. ASSUME NEW t \in Actor, CtlLoad(t)
      PROVE  KeepInv' /\ KeepsOthers
  <2>1. /\ file' = file /\ pc[t] \in {"load", "load offline"}
        /\ copy' = [copy EXCEPT ![t] = Edited(file, edit[t])]
        /\ UNCHANGED edit /\ stale' = [stale EXCEPT ![t] = FALSE]
        /\ \A u \in Actor : u # t => pc'[u] = pc[u]
    BY <1>8 DEF CtlLoad, Goto, Shape
  <2>2. t \notin Top
    BY <2>1 DEF KeepInv, Settling
  <2>3. /\ copy'[t] = Edited(file, edit'[t])
        /\ \A u \in Actor : u # t => /\ pc'[u] = pc[u] /\ copy'[u] = copy[u]
                                    /\ edit'[u] = edit[u] /\ stale'[u] = stale[u]
    BY <2>1 DEF Shape
  <2>. QED  BY <2>1, <2>2, <2>3, ReadStep
<1>9. ASSUME NEW t \in Actor, file' = file, stale' = stale,
             pc'[t] \in Settling \cup {"swap", "poll"} \/ (pc'[t] = "idle" /\ t \notin Top),
             \A u \in Actor : u # t => pc'[u] = pc[u] /\ copy'[u] = copy[u] /\ edit'[u] = edit[u]
      PROVE  KeepInv' /\ KeepsOthers
  <2>1. pc'[t] \notin Writing
    BY <1>9 DEF Writing, Settling
  <2>2. t \in Top => /\ pc'[t] # "idle"
                    /\ pc'[t] \in Settling \cup {"idle", "swap", "reload", "poll", "write top"}
    BY <1>9 DEF Settling
  <2>3. \A u \in Actor : u # t => /\ pc'[u] = pc[u] /\ copy'[u] = copy[u]
                                /\ edit'[u] = edit[u] /\ stale'[u] = stale[u]
    BY <1>9
  <2>. QED  BY <1>9, <2>1, <2>2, <2>3, ReadStep
<1>10. ASSUME NEW t \in Actor, Ends(t, After(t)), file' = file, stale' = stale
       PROVE  KeepInv' /\ KeepsOthers
  <2>1. /\ pc'[t] = After(t)
        /\ \A u \in Actor : u # t => pc'[u] = pc[u] /\ copy'[u] = copy[u] /\ edit'[u] = edit[u]
    BY <1>10, AfterTask, EndsTask
  <2>. QED  BY <1>9, <1>10, <2>1 DEF After
<1>11. ASSUME NEW t \in Actor,
              \/ Swap(t) \/ Reload(t) \/ TopicsWanted(t) \/ TopicsNeighbors(t)
              \/ TopicsPeers(t) \/ TopicsSubscribe(t) \/ ClientLeaves(t)
       PROVE  KeepInv' /\ KeepsOthers
  <2>1. CASE Ends(t, After(t))
    <3>1. file' = file /\ stale' = stale
      BY <1>11 DEF Swap, Reload, TopicsWanted, TopicsNeighbors, TopicsPeers,
                   TopicsSubscribe, ClientLeaves, Leave
    <3>. QED  BY <1>10, <2>1, <3>1
  <2>2. CASE ~Ends(t, After(t))
    <3>1. /\ file' = file /\ stale' = stale /\ UNCHANGED edit
          /\ copy' = copy \/ copy' = [copy EXCEPT ![t] = file]
      BY <1>11, <2>2 DEF Swap, Reload, TopicsWanted, TopicsNeighbors, TopicsPeers,
                         TopicsSubscribe, ClientLeaves, Leave
    <3>2. \E w \in Settling \cup {"swap"} : pc' = [pc EXCEPT ![t] = w]
      BY <1>11, <2>2 DEF Swap, Reload, TopicsWanted, TopicsNeighbors, TopicsPeers,
                         TopicsSubscribe, ClientLeaves, Leave, Goto, Settling
    <3>3. pc'[t] \in Settling \cup {"swap"} /\ \A u \in Actor : u # t => pc'[u] = pc[u]
      BY <3>2 DEF Shape
    <3>4. \A u \in Actor : u # t => copy'[u] = copy[u] /\ edit'[u] = edit[u]
      BY <3>1 DEF Shape
    <3>. QED  BY <1>9, <3>1, <3>3, <3>4
  <2>. QED  BY <2>1, <2>2
<1>12. CASE UNCHANGED policyVars
  BY <1>12 DEF policyVars, KeepInv, KeepsOthers
<1>13. CASE StartNode
  <2>1. /\ file' = file /\ UNCHANGED <<copy, edit, stale>>
        /\ pc' = [pc EXCEPT ![Boot] = "settle"]
    BY <1>13 DEF StartNode, Start, Goto
  <2>2. pc'[Boot] \in Settling /\ \A u \in Actor : u # Boot => pc'[u] = pc[u]
    BY <2>1 DEF Shape, Settling
  <2>. QED  BY <1>9, <2>1, <2>2
<1>14. CASE StopNode
  <2>1. file' = file /\ stale' = stale
    BY <1>14 DEF StopNode, Stop
  <2>2. ASSUME NEW u \in Task, pc'[u] \in Writing, ~stale'[u]
        PROVE  copy'[u] = Edited(file', edit'[u])
    <3>1. After(u) \notin Writing
      BY AfterTask DEF Writing
    <3>2. IF pc[u] \in Settling \cup {"save", "swap"}
          THEN pc'[u] = After(u)
          ELSE pc'[u] = pc[u] /\ copy'[u] = copy[u] /\ edit'[u] = edit[u]
      BY <1>14, StopTasks
    <3>. QED  BY <2>1, <2>2, <3>1, <3>2 DEF KeepInv
  <2>3. ASSUME NEW u \in Top
        PROVE  /\ pc'[u] = "idle" /\ ~stale'[u] => copy'[u] = file'
               /\ pc'[u] \in Settling \cup {"idle", "swap", "reload", "poll", "write top"}
    <3>1. After(u) = "poll"
      BY DEF After
    <3>2. IF pc[u] \in Settling \cup {"save", "swap"}
          THEN pc'[u] = After(u)
          ELSE pc'[u] = pc[u] /\ copy'[u] = copy[u] /\ edit'[u] = edit[u]
      BY <1>14, StopTasks
    <3>. QED  BY <2>1, <3>1, <3>2 DEF KeepInv
  <2>. QED  BY <2>1, <2>2, <2>3 DEF KeepInv, KeepsOthers
<1>. QED
  BY <1>1, <1>2, <1>3, <1>4, <1>5, <1>6, <1>7, <1>8, <1>11, <1>12, <1>13, <1>14
  DEF SwarmNext, Begin, TaskStep, Continue, Shape, NeighborIntroduce, NeighborUp,
      NeighborDown, Hello, AddPeer, LanPeer, JoinTopics, vars
-----------------------------------------------------------------------------
\* The variables keep their types in every state of the daemon and its clients.
THEOREM TypeCorrect == SwarmSpec => []TypeOK
<1>1. SwarmInit => Shape /\ StepInv
  BY InitInv
<1>. QED  BY <1>1, TypeStep, ShapeType, PTL DEF SwarmSpec

\* Of operations that do not overlap there is one, and the file and the memory
\* of the daemon agree on what it is about.
LEMMA AlwaysApart ==
  ASSUME Apart
  PROVE  SwarmSpec => [](Shape /\ StepInv /\ OneInv /\ FileInv /\ TopicInv)
<1>1. SwarmInit => Shape /\ StepInv /\ OneInv /\ FileInv /\ TopicInv
  BY InitInv
<1>. QED  BY <1>1, TypeStep, OneStep, FileStep, TopicStep, PTL DEF SwarmSpec

\* Whoever changes policy.toml (mutate_policy, ocictl, ocitop) writes what it
\* says with the one edit that was asked for, unless what the writer read was
\* outdated: no other edit is lost, with any overlap, failed saves, clients that
\* leave anywhere and restarts.
THEOREM OtherEditsAreKept == SwarmSpec => EditsKeepOthers
<1>1. SwarmInit => Shape /\ StepInv /\ KeepInv
  BY InitInv
<1>2. Shape /\ StepInv /\ KeepInv /\ [SwarmNext]_vars => [KeepsOthers]_policyVars
  BY KeepStep
<1>3. SwarmSpec => [](Shape /\ StepInv /\ KeepInv)
  BY <1>1, TypeStep, KeepStep, PTL DEF SwarmSpec
<1>. QED  BY <1>2, <1>3, PTL DEF SwarmSpec, EditsKeepOthers, KeepsOthers

\* A running daemon at rest is on the topics of the publishers that policy.toml
\* names and on its own, on no other (sync_topics), when operations do not
\* overlap: also after failed saves and subscriptions, stops and clients that
\* left in any place of a request and were made up for.
THEOREM TopicsFollow ==
  ASSUME Apart
  PROVE  SwarmSpec => []TopicsFollowTheFile
<1>1. Shape /\ StepInv /\ OneInv /\ FileInv /\ TopicInv => TopicsFollowTheFile
  BY DEF FileInv, TopicInv, TopicsFollowTheFile, Quiet, Forgotten, Actor, Settling,
         OnTopics, Due
<1>. QED  BY <1>1, AlwaysApart, PTL

\* Every neighbor is on every topic (neighbor_up, join_topics), but for the one
\* that the receive loop is about to introduce and for those it introduced while
\* a sync_topics had read the neighbors and had not joined its topics: whatever
\* overlaps, whoever comes and goes, and wherever clients leave.
THEOREM NeighborsAllIntroduced == SwarmSpec => []NeighborsIntroduced
<1>1. SwarmInit => Shape /\ StepInv /\ NeighborInv
  BY InitInv
<1>2. Shape /\ NeighborInv => NeighborsIntroduced
  BY DEF NeighborInv, NeighborsIntroduced
<1>. QED  BY <1>1, <1>2, TypeStep, NeighborStep, PTL DEF SwarmSpec

\* peers.json never loses a peer, over starts, stops and failed saves, and the
\* daemon remembers what the file says or more (remember_peer, run).
THEOREM PeersAreDurable == SwarmSpec => PeersDurable
<1>1. SwarmInit => Shape /\ StepInv /\ PeersInv
  BY InitInv
<1>2. Shape /\ StepInv /\ PeersInv /\ [SwarmNext]_vars => [peersFile \subseteq peersFile']_vars
  BY PeersStep
<1>3. SwarmSpec => [](Shape /\ StepInv /\ PeersInv)
  BY <1>1, TypeStep, PeersStep, PTL DEF SwarmSpec
<1>. QED  BY <1>2, <1>3, PTL DEF SwarmSpec, PeersDurable, PeersInv
=============================================================================
