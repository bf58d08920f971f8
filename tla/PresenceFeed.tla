---------------------------- MODULE PresenceFeed ----------------------------
(***************************************************************************)
(* What the hub promises about presence, without connections, queues or    *)
(* goroutines: users come and go, and every coming or going is announced   *)
(* to the workspace before anybody's next one is taken up.                 *)
(***************************************************************************)
CONSTANT Users

VARIABLES
    online,     \* the users who have a connection
    announced   \* the users who were last announced as online

vars == <<online, announced>>

Init == online = {} /\ announced = {}

ComeOnline(u) ==
    /\ announced = online
    /\ u \notin online
    /\ online' = online \cup {u}
    /\ UNCHANGED announced

GoOffline(u) ==
    /\ announced = online
    /\ u \in online
    /\ online' = online \ {u}
    /\ UNCHANGED announced

Announce ==
    /\ announced # online
    /\ announced' = online
    /\ UNCHANGED online

Next == (\E u \in Users : ComeOnline(u) \/ GoOffline(u)) \/ Announce

Spec == Init /\ [][Next]_vars
=============================================================================
