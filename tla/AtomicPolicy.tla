---------------------------- MODULE AtomicPolicy ----------------------------
(***************************************************************************)
(* What a user may expect of the policy: an edit that was asked for is     *)
(* applied to the policy as it stands, in one step, or not at all, and the *)
(* edits of others stay.                                                   *)
(***************************************************************************)
CONSTANTS Rule, Task, None

VARIABLES
  policy,  \* the rules
  asked    \* asked[t]: the edit task t has asked for, or None

Edit == [op : {"add", "remove"}, rule : Rule]

\* The policy p after edit e.
Edited(p, e) == IF e.op = "add" THEN p \cup {e.rule} ELSE p \ {e.rule}

Ask(t, e) ==
  /\ asked[t] = None
  /\ asked' = [asked EXCEPT ![t] = e]
  /\ UNCHANGED policy

Apply(t) ==
  /\ asked[t] # None
  /\ policy' = Edited(policy, asked[t])
  /\ asked' = [asked EXCEPT ![t] = None]

\* Some of the requests fail.
Drop ==
  /\ \E failed \in SUBSET Task :
       asked' = [t \in Task |-> IF t \in failed THEN None ELSE asked[t]]
  /\ UNCHANGED policy

Init == policy = {} /\ asked = [t \in Task |-> None]
Next == (\E t \in Task : (\E e \in Edit : Ask(t, e)) \/ Apply(t)) \/ Drop

\* Every request is answered.
Answered == \A t \in Task : asked[t] # None ~> asked[t] = None

Safety == Init /\ [][Next]_<<policy, asked>>
Spec == Safety /\ Answered
=============================================================================
