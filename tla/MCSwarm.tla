------------------------------- MODULE MCSwarm -------------------------------
(***************************************************************************)
(* A publisher and an alias as rules, one task of each kind, one peer.     *)
(***************************************************************************)
EXTENDS Swarm
=============================================================================
