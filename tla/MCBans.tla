-------------------------------- MODULE MCBans --------------------------------
(***************************************************************************)
(* Instances of BanEnforcement for TLC: one user with two connections.     *)
(***************************************************************************)
EXTENDS BanEnforcement, TLC

CONSTANTS u1, a1, a2

OneUser == (a1 :> u1) @@ (a2 :> u1)

Tabs == Permutations({a1, a2})
=============================================================================
