------------------------------- MODULE Swarm -------------------------------
(***************************************************************************)
(* The gossip topics and the peers of a daemon whose policy changes        *)
(* (node.rs, p2p/gossip.rs, p2p/sync.rs, the Peers of config.rs).          *)
(*                                                                         *)
(* A node is on its own topic and on the topic of every publisher that its *)
(* policy names.  sync_topics brings the topics in line after a change of  *)
(* the policy; it reads the policy, the neighbors and the peers before it  *)
(* takes the lock of the topics.  Whoever becomes a neighbor meanwhile is  *)
(* introduced to the topics by another task.                               *)
(***************************************************************************)
EXTENDS PolicyStore

CONSTANTS
  Publisher,    \* the rules that name a publisher, as its key
  Self,         \* our own key
  Peer,         \* other nodes
  JoinFails,    \* TRUE: a subscription may fail
  SaveFails     \* TRUE: a save of peers.json may fail

ASSUME SwarmAssumption ==
  /\ Publisher \subseteq Rule /\ Self \notin Rule /\ Self \notin Peer /\ None \notin Peer
  /\ {JoinFails, SaveFails} \subseteq BOOLEAN

VARIABLES
  topics,     \* topics[p]: the peers introduced to p's topic, for the topics joined
  neighbors,  \* Node.neighbors
  peers,      \* Node.peers
  peersFile,  \* peers.json
  seen,       \* the keys of Node.last_seen
  arriving,   \* the neighbor that the swarm's receive loop introduces, or None
  missed,     \* peers introduced while a sync_topics was past reading the neighbors
              \* without them, and not introduced again since
  joining,    \* peers that tasks of add_peer and on_lan_peer introduce
  wanted,     \* wanted[t], bootstrap[t]: what sync_topics has read
  bootstrap,
  owing       \* a client left, and sync_topics was not completed since

gossipVars == <<topics, neighbors, peers, peersFile, seen, arriving, missed, joining>>
readVars == <<wanted, bootstrap, owing>>
vars == <<policyVars, gossipVars, readVars>>

-----------------------------------------------------------------------------
\* sync_topics, for a task whose policy has been swapped in.

\* self.policy().await.publishers(), and our own key.
TopicsWanted(t) ==
  /\ pc[t] = "settle"
  /\ wanted' = [wanted EXCEPT ![t] = (mem \cap Publisher) \cup {Self}]
  /\ Goto(t, "neighbors")
  /\ UNCHANGED <<file, mem, phase, copy, edit, stale, edits, stops, gossipVars,
                 bootstrap, owing>>

\* Mutant of TopicsNeighbors: a node without neighbors waits for one.
TopicsNeighborsWaits(t) ==
  /\ pc[t] = "neighbors" /\ neighbors # {}
  /\ bootstrap' = [bootstrap EXCEPT ![t] = neighbors]
  /\ Goto(t, "peers")
  /\ UNCHANGED <<file, mem, phase, copy, edit, stale, edits, stops, gossipVars,
                 wanted, owing>>

\* gossip_bootstrap: the neighbors, then the remembered peers.
TopicsNeighbors(t) ==
  /\ pc[t] = "neighbors"
  /\ bootstrap' = [bootstrap EXCEPT ![t] = neighbors]
  /\ Goto(t, "peers")
  /\ UNCHANGED <<file, mem, phase, copy, edit, stale, edits, stops, gossipVars,
                 wanted, owing>>

TopicsPeers(t) ==
  /\ pc[t] = "peers"
  /\ bootstrap' = [bootstrap EXCEPT ![t] = @ \cup peers]
  /\ Goto(t, "subscribe")
  /\ UNCHANGED <<file, mem, phase, copy, edit, stale, edits, stops, gossipVars,
                 wanted, owing>>

\* Mutant of Subscribed: what is not wanted any more is not left.
SubscribedStays(want, boot, failed) ==
  [p \in DOMAIN topics \cup (want \ failed) |->
     IF p \in DOMAIN topics THEN topics[p] ELSE boot]

\* The topics after the stale ones are left (TopicSub::drop) and the wanted
\* ones joined, but for those whose subscription failed.
Subscribed(want, boot, failed) ==
  [p \in (want \cap DOMAIN topics) \cup (want \ failed) |->
     IF p \in DOMAIN topics THEN topics[p] ELSE boot]

\* With the lock of the topics held.  enforce_all_windows follows; it acts on
\* the releases only (Replication).  After its start the daemon listens.
TopicsSubscribe(t) ==
  /\ pc[t] = "subscribe"
  /\ \E failed \in SUBSET (wanted[t] \ DOMAIN topics) :
       /\ failed = {} \/ JoinFails
       /\ topics' = Subscribed(wanted[t], bootstrap[t], failed)
  /\ phase' = IF t = Boot THEN "up" ELSE phase
  /\ Ends(t, After(t))
  /\ wanted' = [wanted EXCEPT ![t] = {}]
  /\ bootstrap' = [bootstrap EXCEPT ![t] = {}]
  /\ owing' = FALSE
  /\ UNCHANGED <<file, mem, stale, edits, stops>>
  /\ UNCHANGED <<neighbors, peers, peersFile, seen, arriving, missed, joining>>

\* The client leaves: the topics are as they were, or have been changed in part.
ClientLeaves(t) ==
  /\ Leave(t)
  /\ \/ UNCHANGED topics
     \/ /\ pc[t] = "subscribe"
        /\ \E undone \in SUBSET (wanted[t] \ DOMAIN topics) :
             topics' = Subscribed(wanted[t], bootstrap[t], undone)
  /\ wanted' = [wanted EXCEPT ![t] = {}]
  /\ bootstrap' = [bootstrap EXCEPT ![t] = {}]
  /\ owing' = TRUE
  /\ UNCHANGED <<neighbors, peers, peersFile, seen, arriving, missed, joining>>

-----------------------------------------------------------------------------
\* join_peers on every topic; not on those that a task is about to join.
Introduce(id) ==
  /\ topics' = [p \in DOMAIN topics |-> topics[p] \cup {id}]
  /\ missed' = IF \E t \in DOMAIN pc : pc[t] \in {"peers", "subscribe"} /\ id \notin bootstrap[t]
               THEN missed \cup {id} ELSE missed \ {id}

\* gossip::run on the swarm's topic, Event::NeighborUp; the loop waits for
\* neighbor_up, which introduces a new neighbor once it has the lock.
NeighborUp(id) ==
  /\ phase # "down" /\ arriving = None
  /\ neighbors' = neighbors \cup {id}
  /\ seen' = seen \cup {id}
  /\ arriving' = IF id \in neighbors THEN None ELSE id
  /\ UNCHANGED <<policyVars, readVars, topics, peers, peersFile, missed, joining>>

\* Mutant of NeighborIntroduce: the new neighbor is not introduced.
NeighborIntroduceNot ==
  /\ arriving # None
  /\ arriving' = None
  /\ UNCHANGED <<policyVars, readVars, topics, neighbors, peers, peersFile, seen,
                 missed, joining>>

NeighborIntroduce ==
  /\ arriving # None
  /\ Introduce(arriving)
  /\ arriving' = None
  /\ UNCHANGED <<policyVars, readVars, neighbors, peers, peersFile, seen, joining>>

\* Event::NeighborDown; last_seen keeps the peer.
NeighborDown(id) ==
  /\ phase # "down" /\ arriving = None /\ id \in neighbors
  /\ neighbors' = neighbors \ {id}
  /\ UNCHANGED <<policyVars, readVars, topics, peers, peersFile, seen, arriving, missed,
                 joining>>

\* remember_peer: upsert and save under one lock; a failed save is logged.
RememberPeer(id) ==
  /\ peers' = peers \cup {id}
  /\ \/ peersFile' = peers \cup {id}
     \/ SaveFails /\ peersFile' = peersFile

\* sync.rs, Request::Hello of a peer that says its own address.
Hello(id) ==
  /\ phase # "down"
  /\ RememberPeer(id)
  /\ seen' = seen \cup {id}
  /\ UNCHANGED <<policyVars, readVars, topics, neighbors, arriving, missed, joining>>

\* add_peer, and add_peer_spec for the peer and for the seed of its record.
AddPeer(id) ==
  /\ phase = "up" /\ id \notin joining
  /\ RememberPeer(id)
  /\ joining' = joining \cup {id}
  /\ UNCHANGED <<policyVars, readVars, topics, neighbors, seen, arriving, missed>>

\* on_lan_peer: a node that was never seen is introduced; it is not remembered.
LanPeer(id) ==
  /\ phase = "up" /\ id \notin seen /\ id \notin neighbors /\ id \notin joining
  /\ seen' = seen \cup {id}
  /\ joining' = joining \cup {id}
  /\ UNCHANGED <<policyVars, readVars, topics, neighbors, peers, peersFile, arriving, missed>>

\* join_topics.
JoinTopics(id) ==
  /\ id \in joining
  /\ Introduce(id)
  /\ joining' = joining \ {id}
  /\ UNCHANGED <<policyVars, readVars, neighbors, peers, peersFile, seen, arriving>>

-----------------------------------------------------------------------------
\* Mutant of StartNode: peers.json is not loaded.
StartNodeForgets ==
  /\ Start
  /\ \E given \in SUBSET Peer :
       Cardinality(given) <= 1 /\ peers' = given /\ peersFile' = given
  /\ UNCHANGED <<readVars, topics, neighbors, seen, arriving, missed, joining>>

\* run: the policy and the peers are loaded, the peers of the command line
\* are added and the result is saved before anything else.
StartNode ==
  /\ Start
  /\ \E given \in SUBSET Peer :
       /\ Cardinality(given) <= 1
       /\ peers' = peersFile \cup given
       /\ peersFile' = peersFile \cup given
  /\ UNCHANGED <<readVars, topics, neighbors, seen, arriving, missed, joining>>

StopNode ==
  /\ Stop
  /\ topics' = <<>> /\ neighbors' = {} /\ peers' = {} /\ seen' = {}
  /\ arriving' = None /\ missed' = {} /\ joining' = {}
  /\ wanted' = [t \in DOMAIN wanted |-> {}]
  /\ bootstrap' = [t \in DOMAIN bootstrap |-> {}]
  /\ owing' = FALSE
  /\ UNCHANGED peersFile

SwarmInit ==
  /\ Init
  /\ topics = <<>> /\ neighbors = {} /\ peers = {} /\ peersFile = {} /\ seen = {}
  /\ arriving = None /\ missed = {} /\ joining = {}
  /\ wanted = [t \in DOMAIN pc |-> {}] /\ bootstrap = [t \in DOMAIN pc |-> {}]
  /\ owing = FALSE

\* What goes on by itself: tasks, the receive loop, calls of join_topics.
TaskStep(t) ==
  \/ Continue(t) /\ UNCHANGED <<gossipVars, readVars>>
  \/ TopicsWanted(t) \/ TopicsNeighbors(t) \/ TopicsPeers(t) \/ TopicsSubscribe(t)

SwarmNext ==
  \/ Begin /\ UNCHANGED <<gossipVars, readVars>>
  \/ \E t \in DOMAIN pc : TaskStep(t) \/ ClientLeaves(t)
  \/ NeighborIntroduce
  \/ \E id \in Peer :
       \/ NeighborUp(id) \/ NeighborDown(id)
       \/ Hello(id) \/ AddPeer(id) \/ LanPeer(id) \/ JoinTopics(id)
  \/ StartNode \/ StopNode

SwarmSpec == SwarmInit /\ [][SwarmNext]_vars

\* Tasks and the receive loop are scheduled; nothing makes a user, a peer or
\* a supervisor act.
SwarmFairSpec ==
  /\ SwarmSpec
  /\ \A t \in Task \cup {Boot} : WF_vars(TaskStep(t))
  /\ WF_vars(NeighborIntroduce)
  /\ \A id \in Peer : WF_vars(JoinTopics(id))

-----------------------------------------------------------------------------
TypeOK ==
  /\ file \subseteq Rule /\ mem \subseteq Rule
  /\ phase \in {"down", "starting", "up"}
  /\ \A t \in DOMAIN pc : copy[t] \subseteq Rule /\ edit[t] \in Edit \cup {None}
  /\ DOMAIN topics \subseteq Publisher \cup {Self}
  /\ \A p \in DOMAIN topics : topics[p] \subseteq Peer
  /\ neighbors \subseteq Peer /\ peers \subseteq Peer /\ peersFile \subseteq Peer
  /\ owing \in BOOLEAN
  /\ seen \subseteq Peer /\ joining \subseteq Peer /\ missed \subseteq Peer
  /\ arriving \in Peer \cup {None}
  /\ \A t \in DOMAIN pc : wanted[t] \subseteq Publisher \cup {Self}
                            /\ bootstrap[t] \subseteq Peer

\* Once no operation is under way the running daemon is on the topics of the
\* publishers that policy.toml names and on its own, on no other; a topic
\* whose subscription failed may be missing.  A client that left halfway is
\* made up for by the next change.
TopicsFollowTheFile ==
  phase = "up" /\ Quiet /\ ~owing =>
    LET due == (file \cap Publisher) \cup {Self}
    IN  IF JoinFails THEN DOMAIN topics \subseteq due ELSE DOMAIN topics = due

\* Whoever is a neighbor is on every topic, once the receive loop has had its
\* turn (node.rs, join_topics: "Introduce a newly reachable peer to every topic
\* we are on"), but for those it introduced while a sync_topics that had read
\* the neighbors before was about to join its topics.
NeighborsIntroduced ==
  \A p \in DOMAIN topics : neighbors \ (missed \cup {arriving}) \subseteq topics[p]

\* The same without the exception; no run checks it, the code does not ensure it.
NobodyMissed ==
  Quiet /\ arriving = None => \A p \in DOMAIN topics : neighbors \subseteq topics[p]

\* peers.json never loses a peer, and what the daemon remembers is what the
\* file says or more; it is more only after a save has failed.
PeersDurable ==
  /\ [][peersFile \subseteq peersFile']_vars
  /\ [](phase # "down" =>
          IF SaveFails THEN peersFile \subseteq peers ELSE peersFile = peers)

\* The topic of a publisher whose rule the daemon has is joined, unless the
\* rule goes, the daemon stops or the client leaves first.
TopicJoined ==
  \A p \in Publisher :
    p \in mem ~> p \in DOMAIN topics \/ p \notin mem \/ owing
=============================================================================
