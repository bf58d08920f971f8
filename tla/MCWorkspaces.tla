----------------------------- MODULE MCWorkspaces -----------------------------
(***************************************************************************)
(* Instances of Workspaces for TLC.                                        *)
(***************************************************************************)
EXTENDS Workspaces, TLC

CONSTANTS u1, u2, u3, r1, r2

Symmetry == Permutations(Users) \cup Permutations(Requests)
=============================================================================
