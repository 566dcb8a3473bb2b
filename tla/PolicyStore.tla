---------------------------- MODULE PolicyStore ----------------------------
(***************************************************************************)
(* Who writes policy.toml, and when (node.rs, ocictl, ocitop).             *)
(*                                                                         *)
(* The daemon answers a policy request by copying its policy, editing the  *)
(* copy, writing the file and swapping the copy in; no lock is held over   *)
(* the four steps.  ocictl edits the file itself when no daemon answers    *)
(* and for `track`; ocitop edits the copy of its last poll.  The rules are *)
(* opaque here, PolicyRules has their meaning.                             *)
(***************************************************************************)
EXTENDS Naturals, FiniteSets

CONSTANTS
  Rule,     \* entries of the policy
  Handler,  \* requests to the daemon that may run at the same time
  Ctl,      \* processes of ocictl
  Top,      \* processes of ocitop
  Apart,    \* TRUE: operations do not overlap and ocitop's copy is fresh
  Leaves,   \* where in a request to the daemon its client may leave
  MaxEdits, \* bound: edits asked for
  MaxStops, \* bound: stops of the daemon
  None

Boot == "boot"  \* the start of the daemon
Task == Handler \cup Ctl \cup Top

ASSUME PolicyStoreAssumption ==
  /\ Apart \in BOOLEAN /\ MaxEdits \in Nat /\ MaxStops \in Nat
  /\ None \notin [op : {"add", "remove"}, rule : Rule]
  /\ Leaves \subseteq {"swap", "settle", "neighbors", "peers", "subscribe"}
  /\ Handler \cap Ctl = {} /\ Handler \cap Top = {} /\ Ctl \cap Top = {}
  /\ Boot \notin Task

VARIABLES
  file,   \* policy.toml
  mem,    \* Node.policy
  phase,  \* of the daemon: "down", "starting", "up"
  pc,     \* pc[t]: what task t does next
  copy,   \* copy[t]: the policy task t works on
  edit,   \* edit[t]: the edit task t was asked for
  stale,  \* stale[t]: what task t read is not, or no more, what policy.toml says
  edits,  \* number of edits asked for
  stops   \* number of stops of the daemon

policyVars == <<file, mem, phase, pc, copy, edit, stale, edits, stops>>

Edit == [op : {"add", "remove"}, rule : Rule]

\* The policy p after edit e.
Edited(p, e) == IF e.op = "add" THEN p \cup {e.rule} ELSE p \ {e.rule}

\* Where the operation of a task is in the daemon, and lost when that stops.
InDaemon == {"save", "swap", "settle", "neighbors", "peers", "subscribe"}

Quiet == \A t \in Task \cup {Boot} : pc[t] = "idle"

\* A new operation may begin.
MayBegin(t) == pc[t] = "idle" /\ (Apart => Quiet)

Asks(t, e) ==
  /\ edits < MaxEdits
  /\ edits' = edits + 1
  /\ edit' = [edit EXCEPT ![t] = e]

Goto(t, where) == pc' = [pc EXCEPT ![t] = where]

\* The daemon has answered, or has stopped: ocitop polls, others are done.
After(t) == IF t \in Top THEN "poll" ELSE "idle"

\* The operation of a task ends, and what it worked on is dropped.
Ends(t, where) ==
  /\ Goto(t, where)
  /\ copy' = [copy EXCEPT ![t] = IF t \in Top THEN @ ELSE {}]
  /\ edit' = [edit EXCEPT ![t] = None]

\* An edit is asked for until the file is written or the request fails.
Asked == {"save", "load", "load offline", "write", "write offline", "write top"}

\* Task t has written: what others have read may be what the file said before.
\* ocitop has always read something.
Outdates(t) ==
  stale' = [u \in DOMAIN stale |->
              u # t /\ (u \in Top \/ pc[u] \in Asked) /\ (stale[u] \/ file' # file)]

-----------------------------------------------------------------------------
\* mutate_policy: self.policy().await and f.
Mutate(t, e) ==
  /\ phase = "up" /\ MayBegin(t)
  /\ Asks(t, e)
  /\ copy' = [copy EXCEPT ![t] = Edited(mem, e)]
  /\ stale' = [stale EXCEPT ![t] = mem # file]
  /\ Goto(t, "save")
  /\ UNCHANGED <<file, mem, phase, stops>>

\* mutate_policy: p.save (write_atomic), whose error ends the request.
MutateSave(t) ==
  /\ pc[t] = "save"
  /\ \/ file' = copy[t] /\ Goto(t, "swap") /\ UNCHANGED <<copy, edit>>
     \/ file' = file /\ Ends(t, "idle")
  /\ Outdates(t)
  /\ UNCHANGED <<mem, phase, edits, stops>>

\* mutate_policy and reload_policy: *self.policy.write() = p.
Swap(t) ==
  /\ pc[t] = "swap"
  /\ mem' = copy[t]
  /\ Goto(t, "settle")
  /\ UNCHANGED <<file, phase, copy, edit, stale, edits, stops>>

\* sync_topics and enforce_all_windows, in one step; Swarm has the steps of
\* the former.  After those of the start the daemon listens.
Settle(t) ==
  /\ pc[t] = "settle"
  /\ phase' = IF t = Boot THEN "up" ELSE phase
  /\ Ends(t, After(t))
  /\ UNCHANGED <<file, mem, stale, edits, stops>>

\* reload_policy: Policy::load.  Without a daemon nothing happens.
Reload(t) ==
  /\ pc[t] = "reload"
  /\ IF phase = "up"
     THEN copy' = [copy EXCEPT ![t] = file] /\ Goto(t, "swap") /\ UNCHANGED edit
     ELSE Ends(t, After(t))
  /\ UNCHANGED <<file, mem, phase, stale, edits, stops>>

\* The client leaves, and the handler is dropped where it awaits.
Leave(t) ==
  /\ t \in Task /\ pc[t] \in Leaves
  /\ Ends(t, After(t))
  /\ UNCHANGED <<file, mem, phase, stale, edits, stops>>

-----------------------------------------------------------------------------
\* ocictl seed, follow, pin, ...: is_running fails, so the file is edited.
CtlOffline(t, e) ==
  /\ phase # "up" /\ MayBegin(t)
  /\ Asks(t, e)
  /\ Goto(t, "load offline")
  /\ UNCHANGED <<file, mem, phase, copy, stale, stops>>

\* ocictl track and untrack edit the file in any case.
CtlTrack(t, e) ==
  /\ MayBegin(t)
  /\ Asks(t, e)
  /\ Goto(t, "load")
  /\ UNCHANGED <<file, mem, phase, copy, stale, stops>>

\* Mutant of CtlLoad: an empty policy is edited.
CtlLoadDefault(t) ==
  /\ pc[t] \in {"load", "load offline"}
  /\ copy' = [copy EXCEPT ![t] = Edited({}, edit[t])]
  /\ Goto(t, IF pc[t] = "load" THEN "write" ELSE "write offline")
  /\ stale' = [stale EXCEPT ![t] = FALSE]
  /\ UNCHANGED <<file, mem, phase, edit, edits, stops>>

\* Policy::load and the editor.
CtlLoad(t) ==
  /\ pc[t] \in {"load", "load offline"}
  /\ copy' = [copy EXCEPT ![t] = Edited(file, edit[t])]
  /\ Goto(t, IF pc[t] = "load" THEN "write" ELSE "write offline")
  /\ stale' = [stale EXCEPT ![t] = FALSE]
  /\ UNCHANGED <<file, mem, phase, edit, edits, stops>>

\* policy.save, after which track asks the daemon to reload.
CtlWrite(t) ==
  /\ pc[t] \in {"write", "write offline"}
  /\ \/ file' = copy[t] /\ Ends(t, IF pc[t] = "write" THEN "reload" ELSE "idle")
     \/ file' = file /\ Ends(t, "idle")
  /\ Outdates(t)
  /\ UNCHANGED <<mem, phase, edits, stops>>

\* ocitop, App::poll.
TopPoll(t) ==
  /\ pc[t] \in {"idle", "poll"}
  /\ copy' = [copy EXCEPT ![t] = file]
  /\ stale' = [stale EXCEPT ![t] = FALSE]
  /\ Goto(t, "idle")
  /\ UNCHANGED <<file, mem, phase, edit, edits, stops>>

\* toggle_pin, follow, seed: the copy of the last poll is edited.
TopEdit(t, e) ==
  /\ MayBegin(t) /\ (Apart => copy[t] = file)
  /\ Asks(t, e)
  /\ copy' = [copy EXCEPT ![t] = Edited(@, e)]
  /\ Goto(t, "write top")
  /\ UNCHANGED <<file, mem, phase, stale, stops>>

\* App::reload_policy: the result of the save is ignored.
TopWrite(t) ==
  /\ pc[t] = "write top"
  /\ file' \in {copy[t], file}
  /\ Outdates(t)
  /\ Goto(t, "reload")
  /\ UNCHANGED <<mem, phase, copy, edit, edits, stops>>

-----------------------------------------------------------------------------
\* run: Policy::load.  The control API answers once `phase` is "up".
Start ==
  /\ phase = "down" /\ (Apart => Quiet)
  /\ phase' = "starting"
  /\ mem' = file
  /\ Goto(Boot, "settle")
  /\ UNCHANGED <<file, copy, edit, stale, edits, stops>>

\* The daemon stops or crashes, and its requests with it.
Stop ==
  /\ phase # "down" /\ stops < MaxStops
  /\ stops' = stops + 1
  /\ phase' = "down"
  /\ mem' = {}
  /\ pc' = [t \in DOMAIN pc |-> IF pc[t] \in InDaemon THEN After(t) ELSE pc[t]]
  /\ copy' = [t \in DOMAIN pc |->
                IF pc[t] \in InDaemon /\ t \notin Top THEN {} ELSE copy[t]]
  /\ edit' = [t \in DOMAIN pc |-> IF pc[t] \in InDaemon THEN None ELSE edit[t]]
  /\ UNCHANGED <<file, stale, edits>>

Init ==
  /\ file = {} /\ mem = {} /\ phase = "down"
  /\ pc = [t \in Task \cup {Boot} |-> "idle"]
  /\ copy = [t \in Task \cup {Boot} |-> {}]
  /\ edit = [t \in Task \cup {Boot} |-> None]
  /\ stale = [t \in Task \cup {Boot} |-> FALSE]
  /\ edits = 0 /\ stops = 0

\* The steps of a task that is under way.
Continue(t) ==
  \/ MutateSave(t) \/ Swap(t) \/ Reload(t)
  \/ CtlLoad(t) \/ CtlWrite(t) \/ TopWrite(t)
  \/ pc[t] = "poll" /\ TopPoll(t)

Begin ==
  \/ \E t \in Handler, e \in Edit : Mutate(t, e)
  \/ \E t \in Ctl, e \in Edit : CtlOffline(t, e) \/ CtlTrack(t, e)
  \/ \E t \in Top : TopPoll(t) \/ \E e \in Edit : TopEdit(t, e)

Next ==
  \/ Begin \/ Start \/ Stop
  \/ \E t \in Task \cup {Boot} : Continue(t) \/ Settle(t) \/ Leave(t)

Spec == Init /\ [][Next]_policyVars

\* A task that has begun goes on: handlers and clients are not suspended.
FairSpec ==
  Spec /\ \A t \in Task \cup {Boot} : WF_policyVars(Continue(t) \/ Settle(t))

-----------------------------------------------------------------------------
Atomic ==
  INSTANCE AtomicPolicy
    WITH policy <- file,
         asked <- [t \in Task |-> IF pc[t] \in Asked THEN edit[t] ELSE None]

\* The file implements AtomicPolicy: every write applies one edit to what the
\* file holds, also when the daemon stops in between, and every edit that was
\* asked for is written or fails (DESIGN.md: "The daemon is the single policy
\* writer while it runs").
EditsAtomic == Atomic!Spec

\* Whoever changes the file applies the one edit it was asked for to what the
\* file says, unless what it read was not what the file says, or is not any
\* more: no other edit is lost, with any overlap, failed saves, clients that
\* leave and restarts of the daemon.
EditsKeepOthers ==
  [][file' # file =>
       \E t \in Task :
         /\ pc[t] \in Asked /\ pc'[t] # pc[t] /\ file' = copy[t]
         /\ stale[t] \/ file' = Edited(file, edit[t])]_policyVars

=============================================================================
