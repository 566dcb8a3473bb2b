------------------------------ MODULE MCDnsTofu ------------------------------
(* DnsTofu on small sets of tasks and keys. *)
EXTENDS DnsTofu, TLC

CONSTANTS k1, k2, t1, t2, t3

\* Requests are alike, and so are keys.
Alike == Permutations(Task) \cup Permutations(Publisher)
=============================================================================
