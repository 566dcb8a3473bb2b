----------------------------- MODULE MCRetention -----------------------------
(* Values for the constants of Retention. *)
EXTENDS Retention

ThreeTags == {1, 2, 3}
FullOrLast == {Full, 1, 2, 3}
=============================================================================
