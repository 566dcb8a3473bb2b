----------------------------- MODULE MCPublisher -----------------------------
(* Publisher on small sets of tags, manifests, referrers and requests. *)
EXTENDS Publisher, TLC

CONSTANTS g1, g2, m1, m2, s1, s2, t1, t2

\* Nothing orders tags, manifests, referrers or requests.
Alike == Permutations(Tag) \cup Permutations(Manifest)
           \cup Permutations(Referrer) \cup Permutations(Task)

\* With Apart, what is left out here changes nothing but itself: a referrer put
\* is always lone, and nothing reads acked and the index of the referrers.
View == <<clock, records, task, attached>>
=============================================================================
