----------------------------- MODULE MCDashboard -----------------------------
(***************************************************************************)
(* A short list, of which one release is this node's own.                  *)
(***************************************************************************)
EXTENDS Dashboard
=============================================================================
