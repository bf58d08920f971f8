------------------------------- MODULE MCMember -------------------------------
(***************************************************************************)
(* Instances of MemberCache for TLC.                                       *)
(***************************************************************************)
EXTENDS MemberCache, TLC

CONSTANTS u1, u2, u3, r1, r2, r3

Symmetry == Permutations(Requests)
=============================================================================
