---------------------------- MODULE MCReplication ----------------------------
(* Values for the constants of Replication. *)
EXTENDS Replication, TLC

CONSTANTS r1, t1, t2

SoloHome == [t \in {t1} |-> r1]
OneHome == [t \in {t1, t2} |-> r1]

TwoTags == {1, 2}
ThreeTags == {1, 2, 3}

LastThree == {WindowOf({3}, {})}
\* No rule, `latest` with a pin.
NoneOrPinned == {NoWindow, WindowOf({1}, {1})}

\* The tasks of one replica are alike.
Alike == Permutations(Task)

\* Only a sync reads `calm`, and it starts by setting it.
View == <<world, held, win, pc, locals, owing, {t \in Task : kind[t] = "sync" /\ calm[t]}>>

\* A pin next to `latest`, and no rule at all.
Changing == {WindowOf({1}, {}), WindowOf({1}, {1}), WindowOf({Full}, {}), WindowOf({}, {})}
=============================================================================
