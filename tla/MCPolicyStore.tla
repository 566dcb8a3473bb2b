---------------------------- MODULE MCPolicyStore ----------------------------
(***************************************************************************)
(* Two requests to the daemon, an ocictl and an ocitop, two rules.         *)
(***************************************************************************)
EXTENDS PolicyStore

=============================================================================
