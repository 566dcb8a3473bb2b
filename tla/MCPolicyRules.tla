---------------------------- MODULE MCPolicyRules ----------------------------
(***************************************************************************)
(* A zone whose owner moves from one key to another, and two words that    *)
(* may become aliases, one of them with the shape of the zone.             *)
(***************************************************************************)
EXTENDS PolicyRules, TLC

MCKey == {"me", "k1", "k2"}
MCPublished == "zone" :> {"k1", "k2"}
OldOnly == "zone" :> {"k1"}
MCName == {<<"app">>}
MCModeText == {<<"full", 0>>, <<"last", 0>>, <<"last", 1>>}
MCTag == {1}
=============================================================================
