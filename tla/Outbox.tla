------------------------------- MODULE Outbox -------------------------------
(***************************************************************************)
(* What scheduled messages promise, without table, worker, handlers or     *)
(* faults: each message is claimed before it is sent, is sent at most once *)
(* and then stays sent, and leaves the queue only so or because its user   *)
(* deletes it.  The promise ends for a message that is put back into the   *)
(* queue while a send of it is under way or over ("loose").                *)
(***************************************************************************)
CONSTANT Ids

VARIABLE state    \* where each message is

Stages == {"new", "queued", "sending", "stranded", "failed", "sent",
           "recalled",      \* deleted during a send that may still succeed
           "withdrawn", "loose"}

Init == state = [id \in Ids |-> "new"]

Turn(id, from, to) == /\ state[id] \in from
                      /\ state' = [state EXCEPT ![id] = to]

Schedule(id) == Turn(id, {"new"}, "queued")
Edit(id) == Turn(id, {"failed"}, "queued")
Claim(id) == Turn(id, {"queued"}, "sending")
Deliver(id) == Turn(id, {"sending", "recalled"}, "sent")

\* A send fails: it is tried again, given up, or nobody can say.
Miss(id) == \/ \E to \in {"queued", "failed", "stranded"} : Turn(id, {"sending"}, to)
            \/ Turn(id, {"recalled"}, "withdrawn")

Delete(id) == \/ Turn(id, {"queued", "failed", "stranded"}, "withdrawn")
              \/ Turn(id, {"sending"}, "recalled")

\* Claims are taken for dead, rightly or wrongly.
Reclaim(S) ==
    /\ \A id \in S : state[id] \in {"stranded", "sending", "sent", "loose"}
    /\ state' = [id \in Ids |-> IF id \notin S THEN state[id]
                                ELSE IF state[id] = "stranded" THEN "queued"
                                ELSE "loose"]

Crash == state' = [id \in Ids |-> IF state[id] = "sending" THEN "stranded"
                                  ELSE IF state[id] = "recalled" THEN "withdrawn"
                                  ELSE state[id]]

Next == \/ \E id \in Ids : Schedule(id) \/ Edit(id) \/ Claim(id) \/ Deliver(id)
                             \/ Miss(id) \/ Delete(id)
        \/ \E S \in SUBSET Ids : Reclaim(S)
        \/ Crash

Spec == Init /\ [][Next]_state
=============================================================================
