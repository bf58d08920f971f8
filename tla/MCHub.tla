-------------------------------- MODULE MCHub --------------------------------
(***************************************************************************)
(* Instances of SSEHub for TLC.                                            *)
(***************************************************************************)
EXTENDS SSEHub, TLC

CONSTANTS u1, u2, a1, a2, b1

\* The first user has two connections (two tabs, or one that is reloaded).
TwoTabs == (a1 :> u1) @@ (a2 :> u1) @@ (b1 :> u2)

\* That user alone.
OneUser == (a1 :> u1) @@ (a2 :> u1)
=============================================================================
