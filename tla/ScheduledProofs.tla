--------------------------- MODULE ScheduledProofs ---------------------------
(***************************************************************************)
(* Theorems about ScheduledMessages: type correctness, and what the guard  *)
(* of MarkSending achieves for a row that is never reclaimed.              *)
(***************************************************************************)
EXTENDS ScheduledMessages, TLAPS

USE SchedAssumption

-----------------------------------------------------------------------------
(* A process that has read nothing holds a well-typed copy.                 *)
LEMMA BlankType == Blank \in Snapshots
  <1>1. (CHOOSE id \in Ids : TRUE) \in Ids
    OBVIOUS
  <1> QED
    BY <1>1 DEF Blank, Snapshots

(* A copy of a well-typed row is a well-typed copy.                         *)
LEMMA SnapshotType ==
  ASSUME TypeOK, NEW id \in Ids
  PROVE  /\ Snapshot(id) \in Snapshots
         /\ Snapshot(id).id = id
  BY DEF TypeOK, Snapshot, Snapshots, Row

(* Moving a process to a control point of its own keeps pc and loc typed.   *)
LEMMA GotoType ==
  ASSUME TypeOK, NEW p \in Procs, NEW point, NEW s \in Snapshots,
         Goto(p, point, s),
         p = Worker => point \in WorkerPoints,
         p # Worker => point \in RequestPoints
  PROVE  /\ pc' \in [Procs -> RequestPoints \cup WorkerPoints]
         /\ pc'[Worker] \in WorkerPoints
         /\ \A r \in Requests : pc'[r] \in RequestPoints
         /\ loc' \in [Procs -> Snapshots]
  <1>1. Worker \in Procs /\ Requests \subseteq Procs /\ Worker \notin Requests
    BY DEF Procs
  <1>2. point \in RequestPoints \cup WorkerPoints
    OBVIOUS
  <1> QED
    BY <1>1, <1>2 DEF TypeOK, Goto

(* ... and so does going back to the start of its loop.                     *)
LEMMA DoneType ==
  ASSUME TypeOK, NEW p \in Procs, Done(p)
  PROVE  /\ pc' \in [Procs -> RequestPoints \cup WorkerPoints]
         /\ pc'[Worker] \in WorkerPoints
         /\ \A r \in Requests : pc'[r] \in RequestPoints
         /\ loc' \in [Procs -> Snapshots]
  <1> DEFINE point == IF p = Worker THEN "listed" ELSE "idle"
  <1>1. Goto(p, point, Blank)
    BY DEF Done
  <1>2. /\ p = Worker => point \in WorkerPoints
        /\ p # Worker => point \in RequestPoints
    BY DEF WorkerPoints, RequestPoints
  <1> HIDE DEF point
  <1> QED
    BY <1>1, <1>2, BlankType, GotoType

(* What the statements change of a row leaves a row.                        *)
LEMMA RowFields ==
  ASSUME NEW row \in Row, NEW status \in Statuses, NEW att \in SUBSET Files
  PROVE  /\ SetStatus(row, status) \in Row
         /\ [row EXCEPT !.status = status] \in Row
         /\ [row EXCEPT !.status = status, !.att = att] \in Row
         /\ [row EXCEPT !.att = att, !.stale = FALSE] \in Row
         /\ [row EXCEPT !.due = TRUE] \in Row
         /\ [row EXCEPT !.stale = TRUE] \in Row
  BY DEF Row, SetStatus

(* ... and so does queueing it again.                                      *)
LEMMA RequeueType ==
  ASSUME NEW row \in Row
  PROVE  Requeue(row) \in Row
  <1>1. SetStatus(row, "pending") \in Row
    BY DEF SetStatus, Statuses, Row
  <1> QED
    BY <1>1 DEF Requeue, Row

(* Writing a row to the table leaves a table.                               *)
LEMMA RowWrite ==
  ASSUME TypeOK, NEW id \in Ids, NEW row \in Row
  PROVE  [rows EXCEPT ![id] = row] \in [Ids -> Row]
  BY DEF TypeOK

(* Counting a fault keeps the count a natural number.                       *)
LEMMA FaultType ==
  ASSUME TypeOK, NEW kind, Fault(kind)
  PROVE  faults' \in Nat
  BY DEF TypeOK, Fault

(* Init establishes the type invariant.                                     *)
LEMMA TypeInit == Init => TypeOK
  BY BlankType DEF Init, TypeOK, Row, Statuses, Procs, RequestPoints, WorkerPoints

(* Every step keeps the type invariant.                                     *)
LEMMA TypeNext == TypeOK /\ [Next]_vars => TypeOK'
  <1> SUFFICES ASSUME TypeOK, [Next]_vars PROVE TypeOK'
    OBVIOUS
  <1> USE DEF Statuses
  <1>0. Requests \subseteq Procs /\ Worker \in Procs /\ Worker \notin Requests
    BY DEF Procs
  <1>1. ASSUME NEW r \in Requests, NEW id \in Ids, ScheduleMessage(r, id)
        PROVE  TypeOK'
    <2>1. PICK att \in SUBSET files :
            rows' = [rows EXCEPT ![id] = [@ EXCEPT !.status = "pending", !.att = att]]
      BY <1>1 DEF ScheduleMessage
    <2>2. att \in SUBSET Files
      BY <2>1 DEF TypeOK
    <2>3. [rows[id] EXCEPT !.status = "pending", !.att = att] \in Row
      BY <2>2, RowFields DEF TypeOK
    <2>4. rows' \in [Ids -> Row]
      BY <2>1, <2>3, RowWrite
    <2> QED
      BY <1>1, <2>4 DEF TypeOK, ScheduleMessage
  <1>2. ASSUME NEW r \in Requests, NEW id \in Ids, BeginUpdate(r, id)
        PROVE  TypeOK'
    <2>1. PICK att \in {rows[id].att} \cup SUBSET files, due \in {FALSE, rows[id].due} :
            Goto(r, "update", [id |-> id, content |-> edits[id] + 1, att |-> att,
                               retry |-> rows[id].retry, due |-> due, err |-> "none"])
      BY <1>2 DEF BeginUpdate
    <2>2. [id |-> id, content |-> edits[id] + 1, att |-> att,
           retry |-> rows[id].retry, due |-> due, err |-> "none"] \in Snapshots
      <3>1. rows[id] \in Row /\ files \in SUBSET Files
        BY DEF TypeOK
      <3>2. /\ rows[id].retry \in Nat
            /\ rows[id].att \in SUBSET Files
            /\ rows[id].due \in BOOLEAN
        BY <3>1 DEF Row
      <3>3. att \in SUBSET Files
        BY <3>1, <3>2
      <3>4. due \in BOOLEAN
        BY <3>2
      <3>5. edits[id] + 1 \in Nat
        BY DEF TypeOK
      <3> QED
        BY <3>2, <3>3, <3>4, <3>5 DEF Snapshots
    <2>3. r # Worker /\ "update" \in RequestPoints
      BY <1>0 DEF RequestPoints
    <2>4. edits' \in [Ids -> Nat]
      BY <1>2 DEF BeginUpdate, TypeOK
    <2> QED
      BY <1>0, <1>2, <2>1, <2>2, <2>3, <2>4, GotoType DEF TypeOK, BeginUpdate
  <1>3. ASSUME NEW r \in Requests, CommitUpdate(r)
        PROVE  TypeOK'
    <2>1. loc[r] \in Snapshots /\ loc[r].id \in Ids
      BY <1>0 DEF TypeOK, Snapshots
    <2>2. rows' \in [Ids -> Row]
      BY <1>3, <2>1 DEF TypeOK, CommitUpdate, Row, Snapshots
    <2>3. reclaimed' \in [Ids -> BOOLEAN]
      BY <1>3, <2>1 DEF TypeOK, CommitUpdate
    <2> QED
      BY <1>0, <1>3, <2>2, <2>3, DoneType DEF TypeOK, CommitUpdate
  <1>4. ASSUME NEW r \in Requests, NEW id \in Ids, BeginDelete(r, id)
        PROVE  TypeOK'
    <2>1. r # Worker /\ "delete" \in RequestPoints
      BY <1>0 DEF RequestPoints
    <2> QED
      BY <1>0, <1>4, <2>1, SnapshotType, GotoType DEF TypeOK, BeginDelete
  <1>5. ASSUME NEW r \in Requests, CommitDelete(r)
        PROVE  TypeOK'
    <2>1. loc[r].id \in Ids
      BY <1>0 DEF TypeOK, Snapshots
    <2>2. rows' \in [Ids -> Row]
      <3>1. \A row \in Row : [row EXCEPT !.status = "gone"] \in Row
        BY DEF Row, Statuses
      <3>2. [rows[loc[r].id] EXCEPT !.status = "gone"] \in Row
        BY <2>1, <3>1 DEF TypeOK
      <3>3. rows \in [Ids -> Row]
        BY DEF TypeOK
      <3>4. rows' = [rows EXCEPT ![loc[r].id] = [rows[loc[r].id] EXCEPT !.status = "gone"]]
        BY <1>5 DEF CommitDelete
      <3> QED
        BY <2>1, <3>2, <3>3, <3>4
    <2>3. deleted' \in [Ids -> BOOLEAN]
      BY <1>5 DEF TypeOK, CommitDelete
    <2> QED
      BY <1>0, <1>5, <2>2, <2>3, DoneType DEF TypeOK, CommitDelete
  <1>6. ASSUME NEW r \in Requests, NEW id \in Ids, BeginSendNow(r, id)
        PROVE  TypeOK'
    <2>1. r # Worker /\ "claim" \in RequestPoints
      BY <1>0 DEF RequestPoints
    <2> QED
      BY <1>0, <1>6, <2>1, SnapshotType, GotoType DEF TypeOK, BeginSendNow
  <1>7. ASSUME NEW r \in Requests, NEW f \in Files, DeleteFile(r, f)
        PROVE  TypeOK'
    <2>1. r # Worker /\ "select" \in RequestPoints
      BY <1>0 DEF RequestPoints
    <2>2. [Blank EXCEPT !.att = {f}] \in Snapshots
      BY BlankType DEF Snapshots
    <2>3. files' \in SUBSET Files
      BY <1>7 DEF TypeOK, DeleteFile
    <2> QED
      BY <1>0, <1>7, <2>1, <2>2, <2>3, GotoType DEF TypeOK, DeleteFile
  <1>8. ASSUME NEW r \in Requests, SelectAttached(r)
        PROVE  TypeOK'
    <2> DEFINE hit == {id \in Ids : rows[id].status \in {"pending", "sending"}
                               /\ loc[r].att \subseteq rows[id].att}
               cut == {[Snapshot(id) EXCEPT !.att = @ \ loc[r].att] : id \in hit}
    <2>1. \A id \in Ids : [Snapshot(id) EXCEPT !.att = @ \ loc[r].att] \in Snapshots
      BY SnapshotType DEF Snapshots
    <2>2. cut \in SUBSET Snapshots
      BY <2>1
    <2>3. batch' \in [Procs -> SUBSET Snapshots]
      BY <1>0, <1>8, <2>2 DEF TypeOK, SelectAttached
    <2>4. Done(r) \/ Goto(r, "detach", Blank)
      BY <1>8 DEF SelectAttached
    <2>5. r # Worker /\ "detach" \in RequestPoints
      BY <1>0 DEF RequestPoints
    <2> QED
      BY <1>0, <1>8, <2>3, <2>4, <2>5, BlankType, GotoType, DoneType
      DEF TypeOK, SelectAttached
  <1>9. ASSUME NEW r \in Requests, DetachOne(r)
        PROVE  TypeOK'
    <2>1. PICK s \in batch[r] :
            /\ rows' = IF InTable(s.id)
                       THEN [rows EXCEPT ![s.id] = [@ EXCEPT !.att = s.att, !.stale = FALSE]]
                       ELSE rows
            /\ batch' = [batch EXCEPT ![r] = @ \ {s}]
            /\ IF batch[r] = {s} THEN Done(r) ELSE UNCHANGED <<pc, loc>>
      BY <1>9 DEF DetachOne
    <2>2. s \in Snapshots
      BY <1>0, <2>1 DEF TypeOK
    <2>3. rows' \in [Ids -> Row]
      <3>1. s.id \in Ids /\ s.att \in SUBSET Files
        BY <2>2 DEF Snapshots
      <3>2. [rows[s.id] EXCEPT !.att = s.att, !.stale = FALSE] \in Row
        BY <3>1, RowFields DEF TypeOK
      <3> QED
        BY <2>1, <3>1, <3>2, RowWrite DEF TypeOK
    <2>4. batch' \in [Procs -> SUBSET Snapshots]
      BY <1>0, <2>1 DEF TypeOK
    <2>5. Done(r) \/ UNCHANGED <<pc, loc>>
      BY <2>1
    <2> QED
      BY <1>0, <1>9, <2>3, <2>4, <2>5, DoneType DEF TypeOK, DetachOne
  <1>10. ASSUME NEW r \in Requests, HandlerFails(r)
         PROVE  TypeOK'
    <2>1. batch' \in [Procs -> SUBSET Snapshots]
      BY <1>0, <1>10 DEF TypeOK, HandlerFails
    <2>2. faults' \in Nat
      BY <1>10, FaultType DEF HandlerFails
    <2> QED
      BY <1>0, <1>10, <2>1, <2>2, DoneType DEF TypeOK, HandlerFails
  <1>11. CASE StartRun
    <2>1. "list" \in WorkerPoints
      BY DEF WorkerPoints
    <2>2. rows' \in [Ids -> Row] /\ reclaimed' \in [Ids -> BOOLEAN] /\ faults' \in Nat
      <3> DEFINE stuck == {id \in Ids : rows[id].status = "sending" /\ rows[id].stale}
      <3>1. CASE Fault("dbError") /\ UNCHANGED <<rows, reclaimed>>
        BY <3>1, FaultType DEF TypeOK
      <3>2. CASE /\ rows' = [id \in Ids |-> IF id \in stuck THEN Requeue(rows[id])
                                                     ELSE rows[id]]
                 /\ reclaimed' = [id \in Ids |-> reclaimed[id]
                                       \/ (id \in stuck /\ Underway(id))]
                 /\ UNCHANGED faults
        <4>1. rows' \in [Ids -> Row]
          BY <3>2, RequeueType DEF TypeOK
        <4>2. ASSUME NEW id \in Ids
              PROVE  (reclaimed[id] \/ (id \in stuck /\ Underway(id))) \in BOOLEAN
          BY Zenon DEF TypeOK
        <4> QED
          BY <3>2, <4>1, <4>2 DEF TypeOK
      <3> QED
        BY <1>11, <3>1, <3>2 DEF StartRun
    <2> QED
      BY <1>0, <1>11, <2>1, <2>2, BlankType, GotoType DEF TypeOK, StartRun
  <1>12. CASE ListDue
    <2>1. "listed" \in WorkerPoints /\ "idle" \in WorkerPoints
      BY DEF WorkerPoints
    <2>2. batch' \in [Procs -> SUBSET Snapshots] /\ faults' \in Nat
      BY <1>0, <1>12, SnapshotType, FaultType DEF TypeOK, ListDue
    <2>3. Goto(Worker, "listed", Blank) \/ Goto(Worker, "idle", Blank)
      BY <1>12 DEF ListDue
    <2> QED
      BY <1>0, <1>12, <2>1, <2>2, <2>3, BlankType, GotoType DEF TypeOK, ListDue
  <1>13. CASE EndRun
    <2>1. "idle" \in WorkerPoints
      BY DEF WorkerPoints
    <2> QED
      BY <1>0, <1>13, <2>1, BlankType, GotoType DEF TypeOK, EndRun
  <1>14. ASSUME NEW p \in Procs, NEW s \in Snapshots, MarkSending(p, s)
         PROVE  /\ rows' \in [Ids -> Row]
                /\ faults' \in Nat
                /\ pc' \in [Procs -> RequestPoints \cup WorkerPoints]
                /\ pc'[Worker] \in WorkerPoints
                /\ \A r \in Requests : pc'[r] \in RequestPoints
                /\ loc' \in [Procs -> Snapshots]
    <2>1. "exec" \in WorkerPoints /\ "exec" \in RequestPoints
      BY DEF WorkerPoints, RequestPoints, ClaimPoints
    <2>2. rows' \in [Ids -> Row] /\ faults' \in Nat
      <3>1. s.id \in Ids
        BY DEF Snapshots
      <3>2. SetStatus(rows[s.id], "sending") \in Row
        BY <3>1, RowFields DEF TypeOK
      <3> QED
        BY <1>14, <3>1, <3>2, RowWrite, FaultType DEF TypeOK, MarkSending
    <2>3. Goto(p, "exec", s) \/ Done(p)
      BY <1>14 DEF MarkSending
    <2> QED
      BY <1>0, <2>1, <2>2, <2>3, GotoType, DoneType
  <1>15. CASE WorkerClaim
    <2>1. PICK s \in batch[Worker] :
            MarkSending(Worker, s) /\ batch' = [batch EXCEPT ![Worker] = @ \ {s}]
      BY <1>15 DEF WorkerClaim
    <2>2. s \in Snapshots
      BY <1>0, <2>1 DEF TypeOK
    <2>3. batch' \in [Procs -> SUBSET Snapshots]
      BY <1>0, <2>1 DEF TypeOK
    <2> QED
      BY <1>0, <1>14, <1>15, <2>1, <2>2, <2>3 DEF TypeOK, WorkerClaim
  <1>16. ASSUME NEW r \in Requests, RequestClaim(r)
         PROVE  TypeOK'
    <2>1. loc[r] \in Snapshots
      BY <1>0 DEF TypeOK
    <2> QED
      BY <1>0, <1>14, <1>16, <2>1 DEF TypeOK, RequestClaim
  <1>17. ASSUME NEW p \in Procs, NEW point \in ClaimPoints, NEW err \in {"none", "permanent", "transient"},
                Goto(p, point, [loc[p] EXCEPT !.err = err]) \/ Goto(p, point, loc[p])
         PROVE  /\ pc' \in [Procs -> RequestPoints \cup WorkerPoints]
                /\ pc'[Worker] \in WorkerPoints
                /\ \A r \in Requests : pc'[r] \in RequestPoints
                /\ loc' \in [Procs -> Snapshots]
    <2>1. loc[p] \in Snapshots /\ [loc[p] EXCEPT !.err = err] \in Snapshots
      BY DEF TypeOK, Snapshots
    <2>2. point \in WorkerPoints /\ point \in RequestPoints
      BY DEF WorkerPoints, RequestPoints
    <2> QED
      BY <1>17, <2>1, <2>2, GotoType
  <1>18. ASSUME NEW p \in Procs, CheckAccess(p)
         PROVE  TypeOK'
    <2>1. "checked" \in ClaimPoints /\ "erred" \in ClaimPoints
      BY DEF ClaimPoints
    <2>2. \/ Goto(p, "checked", loc[p])
          \/ Goto(p, "erred", [loc[p] EXCEPT !.err = "permanent"])
          \/ Goto(p, "erred", [loc[p] EXCEPT !.err = "transient"])
      BY <1>18 DEF CheckAccess, Fail
    <2>3. faults' \in Nat
      BY <1>18, FaultType DEF CheckAccess, TypeOK
    <2> QED
      BY <1>17, <1>18, <2>1, <2>2, <2>3 DEF TypeOK, CheckAccess
  <1>19. ASSUME NEW p \in Procs, CreateMessage(p)
         PROVE  TypeOK'
    <2>1. "posted" \in ClaimPoints /\ "erred" \in ClaimPoints
      BY DEF ClaimPoints
    <2>2. \/ Goto(p, "posted", loc[p])
          \/ Goto(p, "erred", [loc[p] EXCEPT !.err = "transient"])
      BY <1>19 DEF CreateMessage, Fail
    <2>3. faults' \in Nat /\ posts' \in [Ids -> Nat]
      BY <1>19, FaultType DEF CreateMessage, TypeOK
    <2> QED
      BY <1>17, <1>19, <2>1, <2>2, <2>3 DEF TypeOK, CreateMessage
  <1>20. ASSUME NEW p \in Procs, DeleteSent(p)
         PROVE  TypeOK'
    <2>1. rows' \in [Ids -> Row] /\ faults' \in Nat
      <3>1. loc[p].id \in Ids
        BY DEF TypeOK, Snapshots
      <3>2. [rows[loc[p].id] EXCEPT !.status = "gone"] \in Row
        BY <3>1, RowFields DEF TypeOK
      <3> QED
        BY <1>20, <3>1, <3>2, RowWrite, FaultType DEF DeleteSent, TypeOK
    <2> QED
      BY <1>20, <2>1, DoneType DEF TypeOK, DeleteSent
  <1>21. ASSUME NEW p \in Procs, Settle(p)
         PROVE  TypeOK'
    <2>1. rows' \in [Ids -> Row] /\ faults' \in Nat
      <3> DEFINE id == loc[p].id
      <3>1. id \in Ids
        BY DEF TypeOK, Snapshots
      <3>2. SetStatus(rows[id], "failed") \in Row /\ Requeue(rows[id]) \in Row
        BY <3>1, RowFields, RequeueType DEF TypeOK
      <3>3. /\ [rows EXCEPT ![id] = SetStatus(@, "failed")] \in [Ids -> Row]
            /\ [rows EXCEPT ![id] = Requeue(@)] \in [Ids -> Row]
        BY <3>1, <3>2, RowWrite
      <3>4. \/ rows' = rows
            \/ rows' = [rows EXCEPT ![id] = SetStatus(@, "failed")]
            \/ rows' = [rows EXCEPT ![id] = Requeue(@)]
        BY <1>21 DEF Settle
      <3>5. faults' \in Nat
        BY <1>21, FaultType DEF Settle, TypeOK
      <3> QED
        BY <3>3, <3>4, <3>5 DEF TypeOK
    <2> QED
      BY <1>21, <2>1, DoneType DEF TypeOK, Settle
  <1>22. ASSUME NEW id \in Ids, BecomeDue(id) \/ BecomeStale(id)
         PROVE  TypeOK'
    <2>1. rows' \in [Ids -> Row] /\ faults' \in Nat
      <3>1. /\ [rows[id] EXCEPT !.due = TRUE] \in Row
            /\ [rows[id] EXCEPT !.stale = TRUE] \in Row
        BY RowFields DEF TypeOK
      <3>2. rows \in [Ids -> Row] /\ faults \in Nat
        BY DEF TypeOK
      <3>3. \/ rows' = [rows EXCEPT ![id] = [rows[id] EXCEPT !.due = TRUE]]
            \/ rows' = [rows EXCEPT ![id] = [rows[id] EXCEPT !.stale = TRUE]]
        BY <1>22 DEF BecomeDue, BecomeStale
      <3>4. faults' = faults \/ Fault("slowSend")
        BY <1>22 DEF BecomeDue, BecomeStale
      <3>5. rows' \in [Ids -> Row]
        BY <3>1, <3>2, <3>3, RowWrite
      <3> QED
        BY <3>2, <3>4, <3>5, FaultType
    <2> QED
      BY <1>22, <2>1 DEF TypeOK, BecomeDue, BecomeStale
  <1>23. CASE ChangeAccess
    <2>1. access' \in {"open", "archived", "left"}
      BY <1>23 DEF ChangeAccess, TypeOK
    <2> QED
      BY <1>23, <2>1 DEF ChangeAccess, TypeOK
  <1>24. CASE Crash
    <2>1. "idle" \in WorkerPoints /\ "idle" \in RequestPoints
      BY DEF WorkerPoints, RequestPoints
    <2> QED
      BY <1>0, <1>24, <2>1, BlankType, FaultType DEF TypeOK, Crash
  <1>25. CASE UNCHANGED vars
    BY <1>25 DEF TypeOK, vars
  <1>26. ASSUME NEW p \in Procs, BroadcastPanics(p)
         PROVE  TypeOK'
    <2>1. "idle" \in WorkerPoints /\ "idle" \in RequestPoints
      BY DEF WorkerPoints, RequestPoints
    <2>2. batch' \in [Procs -> SUBSET Snapshots]
      BY <1>26 DEF TypeOK, BroadcastPanics
    <2>3. faults' \in Nat
      BY <1>26, FaultType DEF BroadcastPanics
    <2> QED
      BY <1>0, <1>26, <2>1, <2>2, <2>3, BlankType
      DEF TypeOK, BroadcastPanics, Goto
  <1> QED
    BY <1>1, <1>2, <1>3, <1>4, <1>5, <1>6, <1>7, <1>8, <1>9, <1>10, <1>11, <1>12,
       <1>13, <1>15, <1>16, <1>18, <1>19, <1>20, <1>21, <1>22, <1>23, <1>24, <1>25,
       <1>26
    DEF Next, UserStep, HandlerStep, WorkerStep, SendStep

(* Every reachable state is well typed, for any number of messages, files,  *)
(* requests, edits and faults.                                              *)
THEOREM TypeCorrect == Spec => []TypeOK
  <1> QED
    BY TypeInit, TypeNext, PTL DEF Spec

-----------------------------------------------------------------------------
(* Who holds a claim after a process moves.                                 *)
LEMMA GotoHolds ==
  ASSUME TypeOK, NEW p \in Procs, NEW point, NEW s, Goto(p, point, s),
         NEW q \in Procs, NEW id \in Ids
  PROVE  /\ q # p => pc'[q] = pc[q] /\ loc'[q] = loc[q] /\ (Holds(q, id)' <=> Holds(q, id))
         /\ pc'[p] = point /\ loc'[p] = s
         /\ Holds(p, id)' <=> (point \in ClaimPoints /\ s.id = id)
  BY DEF TypeOK, Goto, Holds

(* A process that is done holds nothing, and the others what they held.     *)
LEMMA DoneHolds ==
  ASSUME TypeOK, NEW p \in Procs, Done(p), NEW q \in Procs, NEW id \in Ids
  PROVE  /\ q # p => pc'[q] = pc[q] /\ loc'[q] = loc[q] /\ (Holds(q, id)' <=> Holds(q, id))
         /\ ~Holds(p, id)'
         /\ pc'[p] # "posted"
  <1> DEFINE point == IF p = Worker THEN "listed" ELSE "idle"
  <1>1. Goto(p, point, Blank)
    BY DEF Done
  <1>2. point \notin ClaimPoints /\ point # "posted"
    BY DEF ClaimPoints
  <1> HIDE DEF point
  <1> QED
    BY <1>1, <1>2, GotoHolds

(* A step that gives no one a claim on id and does not post it keeps its    *)
(* part of the invariant, unless it queues the row while it is held or out. *)
LEMMA ClaimFrame ==
  ASSUME NEW id \in Ids, ClaimInv(id), posts'[id] = posts[id],
         \A q \in Procs : Holds(q, id)' =>
            Holds(q, id) /\ (pc'[q] = "posted" <=> pc[q] = "posted"),
         \/ rows'[id].status = rows[id].status
         \/ rows'[id].status \in {"sending", "gone"}
         \/ posts[id] = 0 /\ \A q \in Procs : ~Holds(q, id)'
  PROVE  ClaimInv(id)'
  <1>1. OneHolder(id)'
    BY DEF ClaimInv, OneHolder
  <1>2. HeldIsClaimed(id)'
    BY DEF ClaimInv, HeldIsClaimed
  <1>3. SentIsClaimed(id)'
    BY DEF ClaimInv, SentIsClaimed
  <1>4. PostedMeansSent(id)'
    BY DEF ClaimInv, PostedMeansSent
  <1> QED
    BY <1>1, <1>2, <1>3, <1>4 DEF ClaimInv

(* A row that is queued, failed or not yet made has no holder and no post.  *)
LEMMA IdleRow ==
  ASSUME NEW id \in Ids, ClaimInv(id), rows[id].status \notin {"sending", "gone"}
  PROVE  posts[id] = 0 /\ \A q \in Procs : ~Holds(q, id)
  BY DEF ClaimInv, HeldIsClaimed, SentIsClaimed

(* No statement forgets that a row was reclaimed.                           *)
LEMMA ReclaimedStays ==
  ASSUME TypeOK, [Next]_vars, NEW id \in Ids, ~reclaimed'[id]
  PROVE  ~reclaimed[id]
  <1>1. ASSUME NEW r \in Requests, CommitUpdate(r)
        PROVE  ~reclaimed[id]
    BY <1>1 DEF CommitUpdate, TypeOK
  <1>2. CASE StartRun
    BY <1>2 DEF StartRun, TypeOK
  <1>3. ASSUME UNCHANGED reclaimed
        PROVE  ~reclaimed[id]
    BY <1>3
  <1> QED
    BY <1>1, <1>2, <1>3
    DEF Next, UserStep, HandlerStep, WorkerStep, SendStep, vars, ScheduleMessage,
        BeginUpdate, BeginDelete, CommitDelete, BeginSendNow, DeleteFile,
        SelectAttached, DetachOne, HandlerFails, ListDue, EndRun, WorkerClaim,
        RequestClaim, CheckAccess, CreateMessage, DeleteSent, Settle, BecomeDue,
        BecomeStale, ChangeAccess, Crash, BroadcastPanics

(* Every step keeps the claim discipline of every row not reclaimed.        *)
LEMMA ClaimNext ==
  ASSUME TypeOK, \A i \in Ids : ~reclaimed[i] => ClaimInv(i), [Next]_vars,
         NEW id \in Ids, ~reclaimed'[id]
  PROVE  ClaimInv(id)'
  <1>0. ~reclaimed[id] /\ ClaimInv(id)
    BY ReclaimedStays
  <1>a. Requests \subseteq Procs /\ Worker \in Procs
    BY DEF Procs
  \* Steps that leave rows and posts alone and move a process outside its claim.
  <1>b. ASSUME NEW p \in Procs, NEW point, point \notin ClaimPoints, NEW s,
               Goto(p, point, s), UNCHANGED posts,
               rows'[id].status = rows[id].status
        PROVE  ClaimInv(id)'
    <2>1. \A q \in Procs : Holds(q, id)' =>
             Holds(q, id) /\ (pc'[q] = "posted" <=> pc[q] = "posted")
      BY <1>b, GotoHolds
    <2> QED
      BY <1>0, <1>b, <2>1, ClaimFrame
  \* Steps after which a process is done.
  <1>c. ASSUME NEW p \in Procs, Done(p), UNCHANGED posts,
               \/ rows'[id].status = rows[id].status
               \/ rows'[id].status \in {"sending", "gone"}
               \/ posts[id] = 0 /\ \A q \in Procs \ {p} : ~Holds(q, id)
        PROVE  ClaimInv(id)'
    <2>1. \A q \in Procs : Holds(q, id)' =>
             q # p /\ Holds(q, id) /\ (pc'[q] = "posted" <=> pc[q] = "posted")
      BY <1>c, DoneHolds
    <2>2. \/ rows'[id].status = rows[id].status
          \/ rows'[id].status \in {"sending", "gone"}
          \/ posts[id] = 0 /\ \A q \in Procs : ~Holds(q, id)'
      BY <1>c, <2>1
    <2> QED
      BY <1>0, <1>c, <2>1, <2>2, ClaimFrame
  \* Steps that move no process.
  <1>d. ASSUME UNCHANGED <<pc, loc, posts>>,
               \/ rows'[id].status = rows[id].status
               \/ posts[id] = 0 /\ \A q \in Procs : ~Holds(q, id)
        PROVE  ClaimInv(id)'
    <2>1. \A q \in Procs : (Holds(q, id)' <=> Holds(q, id)) /\ pc'[q] = pc[q]
      BY <1>d DEF Holds
    <2> QED
      BY <1>0, <1>d, <2>1, ClaimFrame
  <1>1. ASSUME NEW r \in Requests, NEW i \in Ids, ScheduleMessage(r, i)
        PROVE  ClaimInv(id)'
    <2>1. CASE i = id
      <3>1. posts[id] = 0 /\ \A q \in Procs : ~Holds(q, id)
        BY <1>0, <1>1, <2>1, IdleRow DEF ScheduleMessage
      <3> QED
        BY <1>1, <1>d, <3>1 DEF ScheduleMessage
    <2>2. CASE i # id
      BY <1>1, <1>d, <2>2 DEF ScheduleMessage, TypeOK
    <2> QED
      BY <2>1, <2>2
  <1>2. ASSUME NEW r \in Requests, NEW i \in Ids,
               BeginUpdate(r, i) \/ BeginDelete(r, i) \/ BeginSendNow(r, i)
        PROVE  ClaimInv(id)'
    <2>1. PICK s : Goto(r, "update", s) \/ Goto(r, "delete", s) \/ Goto(r, "claim", s)
      BY <1>2 DEF BeginUpdate, BeginDelete, BeginSendNow
    <2>2. {"update", "delete", "claim"} \cap ClaimPoints = {}
      BY DEF ClaimPoints
    <2> QED
      BY <1>2, <1>a, <1>b, <2>1, <2>2 DEF BeginUpdate, BeginDelete, BeginSendNow
  <1>3. ASSUME NEW r \in Requests, CommitUpdate(r)
        PROVE  ClaimInv(id)'
    <2> DEFINE u == loc[r].id
    <2>1. u \in Ids
      BY <1>a DEF TypeOK, Snapshots
    <2>2. CASE u # id \/ ~InTable(u)
      <3>1. rows'[id].status = rows[id].status
        BY <1>3, <2>1, <2>2 DEF CommitUpdate, TypeOK
      <3> QED
        BY <1>3, <1>a, <1>c, <3>1 DEF CommitUpdate
    <2>3. CASE u = id /\ InTable(u)
      <3>1. ~(rows[id].status = "sending" /\ Underway(id))
        BY <1>3, <2>3 DEF CommitUpdate, TypeOK
      <3>2. posts[id] = 0 /\ \A q \in Procs : ~Holds(q, id)
        <4>1. CASE rows[id].status = "sending"
          BY <3>1, <4>1 DEF Underway, TypeOK
        <4>2. CASE rows[id].status # "sending"
          BY <1>0, <2>3, <4>2, IdleRow DEF InTable
        <4> QED
          BY <4>1, <4>2
      <3> QED
        BY <1>3, <1>a, <1>c, <3>2 DEF CommitUpdate
    <2> QED
      BY <2>2, <2>3
  <1>4. ASSUME NEW r \in Requests, CommitDelete(r)
        PROVE  ClaimInv(id)'
    <2>1. rows'[id].status = rows[id].status \/ rows'[id].status = "gone"
      BY <1>4 DEF CommitDelete, TypeOK
    <2> QED
      BY <1>4, <1>a, <1>c, <2>1 DEF CommitDelete
  <1>5. ASSUME NEW r \in Requests, NEW f \in Files, DeleteFile(r, f)
        PROVE  ClaimInv(id)'
    <2>1. "select" \notin ClaimPoints
      BY DEF ClaimPoints
    <2> QED
      BY <1>5, <1>a, <1>b, <2>1 DEF DeleteFile
  <1>6. ASSUME NEW r \in Requests, SelectAttached(r)
        PROVE  ClaimInv(id)'
    <2>1. Done(r) \/ Goto(r, "detach", Blank)
      BY <1>6 DEF SelectAttached
    <2>2. "detach" \notin ClaimPoints
      BY DEF ClaimPoints
    <2> QED
      BY <1>6, <1>a, <1>b, <1>c, <2>1, <2>2 DEF SelectAttached
  <1>7. ASSUME NEW r \in Requests, DetachOne(r)
        PROVE  ClaimInv(id)'
    <2>1. PICK s \in batch[r] :
            /\ rows' = IF InTable(s.id)
                       THEN [rows EXCEPT ![s.id] = [@ EXCEPT !.att = s.att, !.stale = FALSE]]
                       ELSE rows
            /\ IF batch[r] = {s} THEN Done(r) ELSE UNCHANGED <<pc, loc>>
      BY <1>7 DEF DetachOne
    <2>2. rows'[id].status = rows[id].status
      BY <2>1 DEF TypeOK, Row
    <2>3. Done(r) \/ UNCHANGED <<pc, loc>>
      BY <2>1
    <2> QED
      BY <1>7, <1>a, <1>c, <1>d, <2>2, <2>3 DEF DetachOne
  <1>8. ASSUME NEW r \in Requests, HandlerFails(r)
        PROVE  ClaimInv(id)'
    BY <1>8, <1>a, <1>c DEF HandlerFails
  <1>9. CASE StartRun
    <2> DEFINE stuck == {i \in Ids : rows[i].status = "sending" /\ rows[i].stale}
    <2>0. "list" \notin ClaimPoints
      BY DEF ClaimPoints
    <2>1. CASE UNCHANGED rows
      BY <1>9, <1>a, <1>b, <2>0, <2>1 DEF StartRun
    <2>2. CASE /\ rows' = [i \in Ids |-> IF i \in stuck THEN Requeue(rows[i])
                                                   ELSE rows[i]]
               /\ reclaimed' = [i \in Ids |-> reclaimed[i]
                                     \/ (i \in stuck /\ Underway(i))]
      <3>1. CASE id \notin stuck
        <4>1. rows'[id] = rows[id]
          BY <2>2, <3>1
        <4> QED
          BY <1>9, <1>a, <1>b, <2>0, <4>1 DEF StartRun
      <3>2. CASE id \in stuck
        <4>1. ~Underway(id)
          BY <2>2, <3>2
        <4>2. posts[id] = 0 /\ \A q \in Procs : ~Holds(q, id)
          BY <4>1 DEF Underway, TypeOK
        <4>3. \A q \in Procs : ~Holds(q, id)'
          BY <1>9, <1>a, <2>0, <4>2, GotoHolds DEF StartRun
        <4> QED
          BY <1>0, <1>9, <4>2, <4>3, ClaimFrame DEF StartRun
      <3> QED
        BY <3>1, <3>2
    <2> QED
      BY <1>9, <2>1, <2>2 DEF StartRun
  <1>10. CASE ListDue \/ EndRun
    <2>1. "listed" \notin ClaimPoints /\ "idle" \notin ClaimPoints
      BY DEF ClaimPoints
    <2> QED
      BY <1>10, <1>a, <1>b, <2>1 DEF ListDue, EndRun
  <1>11. ASSUME NEW p \in Procs, NEW s \in Snapshots, MarkSending(p, s), UNCHANGED posts
         PROVE  ClaimInv(id)'
    <2>1. CASE Done(p) /\ UNCHANGED rows
      BY <1>11, <1>c, <2>1
    <2>2. CASE /\ rows[s.id].status = "pending"
               /\ rows' = [rows EXCEPT ![s.id] = SetStatus(@, "sending")]
               /\ Goto(p, "exec", s)
      <3>0. s.id \in Ids /\ "exec" \in ClaimPoints
        BY DEF Snapshots, ClaimPoints
      <3>1. CASE s.id # id
        <4>1. rows'[id] = rows[id]
          BY <2>2, <3>0, <3>1 DEF TypeOK
        <4>2. \A q \in Procs : Holds(q, id)' =>
                Holds(q, id) /\ (pc'[q] = "posted" <=> pc[q] = "posted")
          BY <2>2, <3>1, GotoHolds
        <4> QED
          BY <1>0, <1>11, <4>1, <4>2, ClaimFrame
      <3>2. CASE s.id = id
        <4>1. posts[id] = 0 /\ \A q \in Procs : ~Holds(q, id)
          BY <1>0, <2>2, <3>2, IdleRow
        <4>2. \A q \in Procs : Holds(q, id)' => q = p /\ pc'[q] = "exec"
          BY <2>2, <4>1, GotoHolds
        <4>3. rows'[id].status = "sending"
          BY <2>2, <3>0, <3>2 DEF TypeOK, SetStatus, Row
        <4> QED
          BY <1>11, <4>1, <4>2, <4>3
          DEF ClaimInv, OneHolder, HeldIsClaimed, SentIsClaimed, PostedMeansSent
      <3> QED
        BY <3>1, <3>2
    <2> QED
      BY <1>11, <2>1, <2>2 DEF MarkSending
  <1>12. CASE WorkerClaim
    <2>1. PICK s \in batch[Worker] : MarkSending(Worker, s)
      BY <1>12 DEF WorkerClaim
    <2>2. s \in Snapshots
      BY <1>a, <2>1 DEF TypeOK
    <2> QED
      BY <1>11, <1>12, <1>a, <2>1, <2>2 DEF WorkerClaim
  <1>13. ASSUME NEW r \in Requests, RequestClaim(r)
         PROVE  ClaimInv(id)'
    <2>1. loc[r] \in Snapshots
      BY <1>a DEF TypeOK
    <2> QED
      BY <1>11, <1>13, <1>a, <2>1 DEF RequestClaim
  \* A holder moves on, or fails, without having posted its message.
  <1>e. ASSUME NEW p \in Procs, pc[p] \in ClaimPoints, pc[p] # "posted",
               NEW point \in {"checked", "erred"}, NEW s, s.id = loc[p].id,
               Goto(p, point, s), UNCHANGED <<rows, posts>>
        PROVE  ClaimInv(id)'
    <2>1. \A q \in Procs : Holds(q, id)' =>
             Holds(q, id) /\ (pc'[q] = "posted" <=> pc[q] = "posted")
      BY <1>e, GotoHolds DEF Holds
    <2> QED
      BY <1>0, <1>e, <2>1, ClaimFrame
  <1>14. ASSUME NEW p \in Procs, CheckAccess(p)
         PROVE  ClaimInv(id)'
    <2>1. PICK point, s : /\ point \in {"checked", "erred"}
                            /\ s.id = loc[p].id
                            /\ Goto(p, point, s)
      BY <1>14 DEF CheckAccess, Fail, TypeOK, Snapshots
    <2>2. pc[p] \in ClaimPoints /\ pc[p] # "posted"
      BY <1>14 DEF CheckAccess, ClaimPoints
    <2> QED
      BY <1>14, <1>e, <2>1, <2>2 DEF CheckAccess
  <1>15. ASSUME NEW p \in Procs, CreateMessage(p)
         PROVE  ClaimInv(id)'
    <2>0. pc[p] \in ClaimPoints /\ pc[p] # "posted"
      BY <1>15 DEF CreateMessage, ClaimPoints
    <2>1. CASE Fail(p, "transient") /\ UNCHANGED posts
      <3>1. PICK s : s.id = loc[p].id /\ Goto(p, "erred", s)
        BY <2>1 DEF Fail, TypeOK, Snapshots
      <3> QED
        BY <1>15, <1>e, <2>0, <2>1, <3>1 DEF CreateMessage
    <2>2. CASE /\ posts' = [posts EXCEPT ![loc[p].id] = @ + 1]
               /\ Goto(p, "posted", loc[p])
      <3>0. loc[p].id \in Ids /\ "posted" \in ClaimPoints
        BY DEF TypeOK, Snapshots, ClaimPoints
      <3>1. CASE loc[p].id # id
        <4>1. posts'[id] = posts[id] /\ rows' = rows
          BY <1>15, <2>2, <3>0, <3>1 DEF TypeOK, CreateMessage
        <4>2. \A q \in Procs : Holds(q, id)' =>
                Holds(q, id) /\ (pc'[q] = "posted" <=> pc[q] = "posted")
          BY <2>2, <3>1, GotoHolds
        <4> QED
          BY <1>0, <4>1, <4>2, ClaimFrame
      <3>2. CASE loc[p].id = id
        <4>1. Holds(p, id)
          BY <2>0, <3>2 DEF Holds
        <4>2. rows[id].status \in {"sending", "gone"} /\ posts[id] = 0
          BY <1>0, <2>0, <4>1 DEF ClaimInv, HeldIsClaimed, PostedMeansSent
        <4>3. posts'[id] = 1
          BY <2>2, <3>2, <4>2 DEF TypeOK
        <4>4. \A q \in Procs : Holds(q, id)' => q = p /\ pc'[q] = "posted"
          BY <1>0, <2>2, <4>1, GotoHolds DEF ClaimInv, OneHolder
        <4> QED
          BY <1>15, <4>2, <4>3, <4>4
          DEF CreateMessage, ClaimInv, OneHolder, HeldIsClaimed, SentIsClaimed,
              PostedMeansSent
      <3> QED
        BY <3>1, <3>2
    <2> QED
      BY <1>15, <2>1, <2>2 DEF CreateMessage
  <1>16. ASSUME NEW p \in Procs, DeleteSent(p)
         PROVE  ClaimInv(id)'
    <2>1. rows'[id].status = rows[id].status \/ rows'[id].status = "gone"
      <3>1. CASE rows' = rows
        BY <3>1
      <3>2. CASE rows' = [rows EXCEPT ![loc[p].id] = [@ EXCEPT !.status = "gone"]]
        BY <3>2 DEF TypeOK, Row
      <3> QED
        BY <1>16, <3>1, <3>2 DEF DeleteSent
    <2> QED
      BY <1>16, <1>c, <2>1 DEF DeleteSent
  <1>17. ASSUME NEW p \in Procs, Settle(p)
         PROVE  ClaimInv(id)'
    <2>1. CASE loc[p].id = id
      <3>1. Holds(p, id)
        BY <1>17, <2>1 DEF Settle, Holds, ClaimPoints
      <3>2. posts[id] = 0
        BY <1>0, <1>17, <3>1 DEF Settle, ClaimInv, PostedMeansSent
      <3>3. \A q \in Procs \ {p} : ~Holds(q, id)
        BY <1>0, <3>1 DEF ClaimInv, OneHolder
      <3> QED
        BY <1>17, <1>c, <3>2, <3>3 DEF Settle
    <2>2. CASE loc[p].id # id
      <3>1. rows'[id] = rows[id]
        <4>1. \/ rows' = rows
              \/ \E row : rows' = [rows EXCEPT ![loc[p].id] = row]
          BY <1>17 DEF Settle
        <4> QED
          BY <2>2, <4>1 DEF TypeOK
      <3> QED
        BY <1>17, <1>c, <3>1 DEF Settle
    <2> QED
      BY <2>1, <2>2
  <1>18. ASSUME NEW i \in Ids, BecomeDue(i) \/ BecomeStale(i)
         PROVE  ClaimInv(id)'
    <2>1. rows'[id].status = rows[id].status
      BY <1>18 DEF BecomeDue, BecomeStale, TypeOK, Row
    <2> QED
      BY <1>18, <1>d, <2>1 DEF BecomeDue, BecomeStale
  <1>19. CASE ChangeAccess
    BY <1>19, <1>d DEF ChangeAccess
  <1>20. CASE Crash
    <2>1. \A q \in Procs : ~Holds(q, id)'
      BY <1>20 DEF Crash, Holds, ClaimPoints
    <2> QED
      BY <1>0, <1>20, <2>1, ClaimFrame DEF Crash
  <1>21. CASE UNCHANGED vars
    BY <1>21, <1>d DEF vars
  <1>22. ASSUME NEW p \in Procs, BroadcastPanics(p)
         PROVE  ClaimInv(id)'
    <2>1. \A q \in Procs : Holds(q, id)' =>
            Holds(q, id) /\ (pc'[q] = "posted" <=> pc[q] = "posted")
      <3>1. Goto(p, "idle", Blank) /\ "idle" \notin ClaimPoints
        BY <1>22 DEF BroadcastPanics, ClaimPoints
      <3>2. /\ pc'[p] = "idle"
            /\ \A q \in Procs \ {p} : pc'[q] = pc[q] /\ loc'[q] = loc[q]
        BY <3>1 DEF Goto, TypeOK
      <3> QED
        BY <3>1, <3>2 DEF Holds
    <2> QED
      BY <1>0, <1>22, <2>1, ClaimFrame DEF BroadcastPanics
  <1> QED
    BY <1>1, <1>2, <1>3, <1>4, <1>5, <1>6, <1>7, <1>8, <1>9, <1>10, <1>12, <1>13,
       <1>14, <1>15, <1>16, <1>17, <1>18, <1>19, <1>20, <1>21, <1>22
    DEF Next, UserStep, HandlerStep, WorkerStep, SendStep

-----------------------------------------------------------------------------
(* A process that stands at "posted" has created its chat message, and no   *)
(* step uncounts one.                                                       *)
LEMMA PostedNext ==
  ASSUME TypeOK, PostedIsCounted, [Next]_vars
  PROVE  PostedIsCounted' /\ \A id \in Ids : posts[id] # 0 => posts'[id] # 0
  <1>0. Requests \subseteq Procs /\ Worker \in Procs
    BY DEF Procs
  <1>1. \A id \in Ids : posts[id] # 0 => posts'[id] # 0
    <2>1. ASSUME NEW p \in Procs, CreateMessage(p)
          PROVE  \A id \in Ids : posts[id] # 0 => posts'[id] # 0
      BY <2>1 DEF CreateMessage, TypeOK
    <2>2. ASSUME UNCHANGED posts
          PROVE  \A id \in Ids : posts[id] # 0 => posts'[id] # 0
      BY <2>2
    <2> QED
      BY <2>1, <2>2
      DEF Next, UserStep, HandlerStep, WorkerStep, SendStep, vars, ScheduleMessage,
          BeginUpdate, CommitUpdate, BeginDelete, CommitDelete, BeginSendNow, DeleteFile,
          SelectAttached, DetachOne, HandlerFails, StartRun, ListDue, EndRun, WorkerClaim,
          RequestClaim, CheckAccess, DeleteSent, Settle, BecomeDue, BecomeStale,
          ChangeAccess, Crash, BroadcastPanics
  \* A step that moves p elsewhere than to "posted", or moves no one.
  <1>2. ASSUME NEW p \in Procs, NEW point, point # "posted", NEW s, Goto(p, point, s)
        PROVE  PostedIsCounted'
    <2>1. \A q \in Procs : q # p => pc'[q] = pc[q] /\ loc'[q] = loc[q]
      BY <1>2 DEF Goto, TypeOK
    <2>2. pc'[p] # "posted"
      BY <1>2 DEF Goto, TypeOK
    <2>3. \A q \in Procs : loc[q].id \in Ids
      BY DEF TypeOK, Snapshots
    <2> QED
      BY <1>1, <2>1, <2>2, <2>3 DEF PostedIsCounted
  <1>3. ASSUME UNCHANGED <<pc, loc>>
        PROVE  PostedIsCounted'
    <2>1. \A q \in Procs : loc[q].id \in Ids
      BY DEF TypeOK, Snapshots
    <2> QED
      BY <1>1, <1>3, <2>1 DEF PostedIsCounted
  <1>4. ASSUME NEW p \in Procs, Done(p)
        PROVE  PostedIsCounted'
    <2>1. PICK point \in {"listed", "idle"} : Goto(p, point, Blank)
      BY <1>4 DEF Done
    <2> QED
      BY <1>2, <2>1
  <1>5. ASSUME NEW p \in Procs, NEW s, MarkSending(p, s)
        PROVE  PostedIsCounted'
    BY <1>2, <1>4, <1>5 DEF MarkSending
  <1>6. ASSUME NEW p \in Procs, CreateMessage(p)
        PROVE  PostedIsCounted'
    <2>1. CASE Fail(p, "transient")
      BY <1>2, <2>1 DEF Fail
    <2>2. CASE /\ posts' = [posts EXCEPT ![loc[p].id] = @ + 1]
               /\ Goto(p, "posted", loc[p])
      <3>1. \A q \in Procs : loc[q].id \in Ids
        BY DEF TypeOK, Snapshots
      <3>2. posts'[loc[p].id] # 0 /\ loc'[p] = loc[p]
        <4>1. posts[loc[p].id] \in Nat /\ posts'[loc[p].id] = posts[loc[p].id] + 1
          BY <2>2, <3>1 DEF TypeOK
        <4>2. loc'[p] = loc[p]
          BY <2>2 DEF TypeOK, Goto
        <4> QED
          BY <4>1, <4>2
      <3>3. \A q \in Procs : q # p => pc'[q] = pc[q] /\ loc'[q] = loc[q]
        BY <2>2 DEF Goto, TypeOK
      <3> QED
        BY <1>1, <3>1, <3>2, <3>3 DEF PostedIsCounted
    <2> QED
      BY <1>6, <2>1, <2>2 DEF CreateMessage
  <1>7. CASE Crash
    BY <1>7 DEF Crash, PostedIsCounted
  <1>8. ASSUME NEW r \in Requests,
               \/ UserStep(r) \/ CommitUpdate(r) \/ CommitDelete(r)
               \/ SelectAttached(r) \/ DetachOne(r) \/ HandlerFails(r)
        PROVE  PostedIsCounted'
    <2>1. \/ UNCHANGED <<pc, loc>>
          \/ Done(r)
          \/ \E s : \/ Goto(r, "update", s) \/ Goto(r, "delete", s)
                    \/ Goto(r, "claim", s) \/ Goto(r, "select", s)
                    \/ Goto(r, "detach", s)
      BY <1>8 DEF UserStep, ScheduleMessage, BeginUpdate, BeginDelete, BeginSendNow,
                  DeleteFile, CommitUpdate, CommitDelete, SelectAttached, DetachOne,
                  HandlerFails
    <2> QED
      BY <1>0, <1>2, <1>3, <1>4, <2>1
  <1>9. CASE StartRun \/ ListDue \/ EndRun
    <2>1. PICK point \in {"list", "listed", "idle"} : Goto(Worker, point, Blank)
      BY <1>9 DEF StartRun, ListDue, EndRun
    <2> QED
      BY <1>0, <1>1, <1>2, <2>1
  <1>10. CASE WorkerClaim \/ \E r \in Requests : RequestClaim(r)
    BY <1>0, <1>5, <1>10 DEF WorkerClaim, RequestClaim
  <1>11. ASSUME NEW p \in Procs, CheckAccess(p)
         PROVE  PostedIsCounted'
    BY <1>2, <1>11 DEF CheckAccess, Fail
  <1>12. ASSUME NEW p \in Procs, DeleteSent(p) \/ Settle(p)
         PROVE  PostedIsCounted'
    BY <1>4, <1>12 DEF DeleteSent, Settle
  <1>13. CASE (\E id \in Ids : BecomeDue(id) \/ BecomeStale(id)) \/ ChangeAccess
    BY <1>3, <1>13 DEF BecomeDue, BecomeStale, ChangeAccess
  <1>14. CASE UNCHANGED vars
    BY <1>3, <1>14 DEF vars
  <1>15. ASSUME NEW p \in Procs, BroadcastPanics(p)
         PROVE  PostedIsCounted'
    BY <1>2, <1>15 DEF BroadcastPanics
  <1> QED
    BY <1>1, <1>6, <1>7, <1>8, <1>9, <1>10, <1>11, <1>12, <1>13, <1>14, <1>15
    DEF Next, HandlerStep, WorkerStep, SendStep

(* A row leaves the table only when it has been posted or its user deletes  *)
(* it.                                                                      *)
LEMMA GoneNext ==
  ASSUME TypeOK, PostedIsCounted, GoneOnlyIfSentOrDeleted, [Next]_vars
  PROVE  GoneOnlyIfSentOrDeleted'
  <1>0. Requests \subseteq Procs /\ Worker \in Procs
    BY DEF Procs
  <1>1. \A id \in Ids : posts[id] # 0 => posts'[id] # 0
    BY PostedNext
  \* Steps after which no more rows are gone.
  <1>2. ASSUME \A id \in Ids : rows'[id].status = "gone" => rows[id].status = "gone",
               UNCHANGED deleted
        PROVE  GoneOnlyIfSentOrDeleted'
    <2>1. posts' \in [Ids -> Nat] /\ posts \in [Ids -> Nat]
      BY TypeNext DEF TypeOK
    <2> QED
      BY <1>1, <1>2, <2>1 DEF GoneOnlyIfSentOrDeleted
  <1>3. ASSUME NEW r \in Requests, CommitDelete(r)
        PROVE  GoneOnlyIfSentOrDeleted'
    BY <1>0, <1>3 DEF CommitDelete, GoneOnlyIfSentOrDeleted, TypeOK, Snapshots
  <1>4. ASSUME NEW p \in Procs, DeleteSent(p)
        PROVE  GoneOnlyIfSentOrDeleted'
    <2>1. loc[p].id \in Ids /\ posts[loc[p].id] > 0
      BY <1>4 DEF DeleteSent, PostedIsCounted, TypeOK, Snapshots
    <2> QED
      BY <1>4, <2>1 DEF DeleteSent, GoneOnlyIfSentOrDeleted, TypeOK
  <1>5. ASSUME NEW r \in Requests, NEW id \in Ids, ScheduleMessage(r, id)
        PROVE  GoneOnlyIfSentOrDeleted'
    BY <1>2, <1>5 DEF ScheduleMessage, TypeOK, Row
  <1>6. ASSUME NEW r \in Requests, CommitUpdate(r) \/ DetachOne(r)
        PROVE  GoneOnlyIfSentOrDeleted'
    <2>1. CASE CommitUpdate(r)
      BY <1>2, <2>1 DEF CommitUpdate, TypeOK, Row
    <2>2. CASE DetachOne(r)
      BY <1>2, <2>2 DEF DetachOne, TypeOK, Row
    <2> QED
      BY <1>6, <2>1, <2>2
  <1>7. CASE StartRun
    <2>1. \A row \in Row : Requeue(row).status = "pending"
      BY DEF Requeue, SetStatus, Row
    <2>2. \A id \in Ids : rows'[id] = rows[id] \/ rows'[id] = Requeue(rows[id])
      BY <1>7 DEF StartRun
    <2>3. \A id \in Ids : rows'[id].status = "gone" => rows[id].status = "gone"
      BY <2>1, <2>2 DEF TypeOK
    <2> QED
      BY <1>2, <1>7, <2>3 DEF StartRun
  <1>8. ASSUME NEW p \in Procs, NEW s, MarkSending(p, s), UNCHANGED deleted
        PROVE  GoneOnlyIfSentOrDeleted'
    <2>1. \A row \in Row : SetStatus(row, "sending").status = "sending"
      BY DEF SetStatus, Row
    <2>2. \A id \in Ids : rows[id] \in Row
      BY DEF TypeOK
    <2>3. \/ rows' = rows
          \/ rows' = [rows EXCEPT ![s.id] = SetStatus(rows[s.id], "sending")]
      BY <1>8 DEF MarkSending
    <2>4. DOMAIN rows = Ids
      BY DEF TypeOK
    <2>5. ASSUME NEW id \in Ids, rows'[id].status = "gone"
          PROVE  rows[id].status = "gone"
      <3>1. \/ rows'[id] = rows[id]
            \/ rows'[id] = SetStatus(rows[id], "sending")
        BY <2>3, <2>4
      <3> QED
        BY <2>1, <2>2, <2>5, <3>1
    <2> QED
      BY <1>2, <1>8, <2>5
  <1>9. ASSUME NEW p \in Procs, Settle(p)
        PROVE  GoneOnlyIfSentOrDeleted'
    <2>1. \A id \in Ids : rows'[id].status = "gone" => rows[id].status = "gone"
      <3>1. rows[loc[p].id] \in Row
        BY DEF TypeOK, Snapshots
      <3>2. /\ SetStatus(rows[loc[p].id], "failed").status = "failed"
            /\ Requeue(rows[loc[p].id]).status = "pending"
        BY <3>1 DEF SetStatus, Requeue, Row
      <3> QED
        BY <1>9, <3>2 DEF Settle, TypeOK
    <2> QED
      BY <1>2, <1>9, <2>1 DEF Settle
  <1>10. ASSUME NEW id \in Ids, BecomeDue(id) \/ BecomeStale(id)
         PROVE  GoneOnlyIfSentOrDeleted'
    <2>1. \A i \in Ids : rows'[i].status = rows[i].status
      <3>1. \/ rows' = [rows EXCEPT ![id] = [@ EXCEPT !.due = TRUE]]
            \/ rows' = [rows EXCEPT ![id] = [@ EXCEPT !.stale = TRUE]]
        BY <1>10 DEF BecomeDue, BecomeStale
      <3> QED
        BY <3>1 DEF TypeOK, Row
    <2> QED
      BY <1>2, <1>10, <2>1 DEF BecomeDue, BecomeStale
  <1>11. CASE WorkerClaim \/ \E r \in Requests : RequestClaim(r)
    BY <1>0, <1>8, <1>11 DEF WorkerClaim, RequestClaim
  <1>12. ASSUME UNCHANGED <<rows, deleted>>
         PROVE  GoneOnlyIfSentOrDeleted'
    BY <1>2, <1>12
  <1> QED
    BY <1>3, <1>4, <1>5, <1>6, <1>7, <1>9, <1>10, <1>11, <1>12
    DEF Next, UserStep, HandlerStep, WorkerStep, SendStep, vars, BeginUpdate,
        BeginDelete, BeginSendNow, DeleteFile, SelectAttached, HandlerFails, ListDue,
        EndRun, CheckAccess, CreateMessage, ChangeAccess, Crash, BroadcastPanics

-----------------------------------------------------------------------------
(* Statements that keep the status of every row.                            *)
LEMMA DetachKeeps ==
  ASSUME TypeOK, NEW r, DetachOne(r), NEW id \in Ids
  PROVE  rows'[id].status = rows[id].status
  <1>1. PICK s : \/ rows' = rows
                 \/ rows' = [rows EXCEPT ![s.id] = [rows[s.id] EXCEPT !.att = s.att,
                                                                      !.stale = FALSE]]
    BY DEF DetachOne
  <1>2. rows[id] \in Row /\ DOMAIN rows = Ids
    BY DEF TypeOK
  <1>3. [rows[id] EXCEPT !.att = s.att, !.stale = FALSE].status = rows[id].status
    BY <1>2 DEF Row
  <1> QED
    BY <1>1, <1>2, <1>3

LEMMA TimeKeeps ==
  ASSUME TypeOK, NEW i \in Ids, BecomeDue(i) \/ BecomeStale(i), NEW id \in Ids
  PROVE  rows'[id].status = rows[id].status
  <1>1. \/ rows' = [rows EXCEPT ![i] = [rows[i] EXCEPT !.due = TRUE]]
        \/ rows' = [rows EXCEPT ![i] = [rows[i] EXCEPT !.stale = TRUE]]
    BY DEF BecomeDue, BecomeStale
  <1>2. /\ [rows[i] EXCEPT !.due = TRUE].status = rows[i].status
        /\ [rows[i] EXCEPT !.stale = TRUE].status = rows[i].status
    BY DEF TypeOK, Row
  <1> QED
    BY <1>1, <1>2 DEF TypeOK

(* A request that is about to delete has seen its row, and a row that was   *)
(* made once is never unmade.                                               *)
LEMMA BornStays ==
  ASSUME TypeOK, [Next]_vars, NEW id \in Ids, rows[id].status # "unborn"
  PROVE  rows'[id].status # "unborn"
  <1>0. /\ Requests \subseteq Procs /\ Worker \in Procs /\ rows[id] \in Row
        /\ \A p \in Procs : loc[p].id \in Ids
    BY DEF Procs, TypeOK, Snapshots
  <1>1. \A row \in Row : /\ Requeue(row).status = "pending"
                         /\ \A status : SetStatus(row, status).status = status
                         /\ [row EXCEPT !.status = "gone"].status = "gone"
    BY DEF Requeue, SetStatus, Row
  \* A statement about one row that leaves its status or sets another.
  <1>2. ASSUME NEW i, NEW row,
               row.status # "unborn" \/ (i \in Ids /\ row.status = rows[i].status),
               rows' = [rows EXCEPT ![i] = row]
        PROVE  rows'[id].status # "unborn"
    BY <1>2 DEF TypeOK
  <1>3. ASSUME UNCHANGED rows
        PROVE  rows'[id].status # "unborn"
    BY <1>3
  <1>4. ASSUME NEW r \in Requests, NEW i \in Ids, ScheduleMessage(r, i)
        PROVE  rows'[id].status # "unborn"
    <2>1. i # id
      BY <1>4 DEF ScheduleMessage
    <2> QED
      BY <1>4, <2>1 DEF ScheduleMessage, TypeOK
  <1>5. ASSUME NEW r \in Requests, CommitUpdate(r)
        PROVE  rows'[id].status # "unborn"
    BY <1>0, <1>5 DEF CommitUpdate, TypeOK
  <1>6. ASSUME NEW r \in Requests, CommitDelete(r)
        PROVE  rows'[id].status # "unborn"
    BY <1>0, <1>6 DEF CommitDelete, TypeOK, Row
  <1>7. ASSUME NEW r \in Requests, DetachOne(r)
        PROVE  rows'[id].status # "unborn"
    <2>1. rows'[id].status = rows[id].status
      BY <1>7, DetachKeeps
    <2> QED
      BY <2>1
  <1>8. CASE StartRun
    <2>1. rows'[id] = rows[id] \/ rows'[id] = Requeue(rows[id])
      BY <1>8 DEF StartRun
    <2> QED
      BY <1>0, <1>1, <2>1
  <1>9. ASSUME NEW p, NEW s \in Snapshots, MarkSending(p, s)
        PROVE  rows'[id].status # "unborn"
    <2>1. rows' = rows \/ rows' = [rows EXCEPT ![s.id] = SetStatus(rows[s.id], "sending")]
      BY <1>9 DEF MarkSending
    <2>2. s.id \in Ids /\ rows[s.id] \in Row
      BY DEF Snapshots, TypeOK
    <2> QED
      BY <1>1, <1>2, <2>1, <2>2
  <1>10. ASSUME NEW p \in Procs, DeleteSent(p)
         PROVE  rows'[id].status # "unborn"
    BY <1>0, <1>10 DEF DeleteSent, TypeOK, Row
  <1>11. ASSUME NEW p \in Procs, Settle(p)
         PROVE  rows'[id].status # "unborn"
    <2>1. \/ rows' = rows
          \/ rows' = [rows EXCEPT ![loc[p].id] = SetStatus(rows[loc[p].id], "failed")]
          \/ rows' = [rows EXCEPT ![loc[p].id] = Requeue(rows[loc[p].id])]
      BY <1>11 DEF Settle
    <2>2. loc[p].id \in Ids /\ rows[loc[p].id] \in Row
      BY <1>0 DEF TypeOK
    <2> QED
      BY <1>1, <1>2, <2>1, <2>2
  <1>12. ASSUME NEW i \in Ids, BecomeDue(i) \/ BecomeStale(i)
         PROVE  rows'[id].status # "unborn"
    <2>1. rows'[id].status = rows[id].status
      BY <1>12, TimeKeeps
    <2> QED
      BY <2>1
  <1>13. CASE WorkerClaim
    <2>1. PICK s \in batch[Worker] : MarkSending(Worker, s)
      BY <1>13 DEF WorkerClaim
    <2>2. s \in Snapshots
      BY <1>0, <2>1 DEF TypeOK
    <2> QED
      BY <1>9, <2>1, <2>2
  <1>14. ASSUME NEW r \in Requests, RequestClaim(r)
         PROVE  rows'[id].status # "unborn"
    <2>1. loc[r] \in Snapshots
      BY <1>0 DEF TypeOK
    <2> QED
      BY <1>9, <1>14, <2>1 DEF RequestClaim
  <1> QED
    BY <1>3, <1>4, <1>5, <1>6, <1>7, <1>8, <1>10, <1>11, <1>12, <1>13, <1>14
    DEF Next, UserStep, HandlerStep, WorkerStep, SendStep, vars, BeginUpdate,
        BeginDelete, BeginSendNow, DeleteFile, SelectAttached, HandlerFails, ListDue,
        EndRun, CheckAccess, CreateMessage, ChangeAccess, Crash, BroadcastPanics

LEMMA DeletesNext ==
  ASSUME TypeOK, DeletesBorn, [Next]_vars
  PROVE  DeletesBorn'
  <1>0. Requests \subseteq Procs /\ Worker \in Procs /\ Worker \notin Requests
    BY DEF Procs
  <1> SUFFICES ASSUME NEW r \in Requests, pc'[r] = "delete"
               PROVE  rows'[loc'[r].id].status # "unborn"
    BY DEF DeletesBorn
  <1>1. ASSUME pc[r] = "delete", loc'[r] = loc[r]
        PROVE  rows'[loc'[r].id].status # "unborn"
    <2>1. loc[r].id \in Ids /\ rows[loc[r].id].status # "unborn"
      BY <1>0, <1>1 DEF DeletesBorn, TypeOK, Snapshots
    <2> QED
      BY <1>1, <2>1, BornStays
  <1>2. ASSUME UNCHANGED <<pc, loc>>
        PROVE  rows'[loc'[r].id].status # "unborn"
    BY <1>1, <1>2
  <1>3. ASSUME NEW p \in Procs, NEW point, point # "delete", NEW s, Goto(p, point, s)
        PROVE  rows'[loc'[r].id].status # "unborn"
    <2>1. /\ r = p => pc'[r] = point
          /\ r # p => pc'[r] = pc[r] /\ loc'[r] = loc[r]
      BY <1>0, <1>3 DEF Goto, TypeOK
    <2> QED
      BY <1>1, <1>3, <2>1
  <1>4. ASSUME NEW p \in Procs, Done(p)
        PROVE  rows'[loc'[r].id].status # "unborn"
    <2>1. PICK point \in {"listed", "idle"} : Goto(p, point, Blank)
      BY <1>4 DEF Done
    <2> QED
      BY <1>3, <2>1
  <1>5. ASSUME NEW q \in Requests, NEW id \in Ids, BeginDelete(q, id)
        PROVE  rows'[loc'[r].id].status # "unborn"
    <2>1. CASE q = r
      <3>1. loc'[r] = Snapshot(id) /\ rows' = rows /\ InTable(id)
        BY <1>0, <1>5, <2>1 DEF BeginDelete, Goto, TypeOK
      <3>2. Snapshot(id).id = id
        BY SnapshotType
      <3> QED
        BY <3>1, <3>2 DEF InTable
    <2>2. CASE q # r
      BY <1>0, <1>1, <1>5, <2>2 DEF BeginDelete, Goto, TypeOK
    <2> QED
      BY <2>1, <2>2
  <1>6. ASSUME NEW p \in Procs, NEW s, MarkSending(p, s)
        PROVE  rows'[loc'[r].id].status # "unborn"
    BY <1>3, <1>4, <1>6 DEF MarkSending
  <1>7. ASSUME NEW q \in Requests,
               \/ \E id \in Ids : \/ ScheduleMessage(q, id) \/ BeginUpdate(q, id)
                                  \/ BeginSendNow(q, id)
               \/ \E f \in Files : DeleteFile(q, f)
               \/ CommitUpdate(q) \/ CommitDelete(q) \/ SelectAttached(q)
               \/ DetachOne(q) \/ HandlerFails(q)
        PROVE  rows'[loc'[r].id].status # "unborn"
    <2>1. \/ UNCHANGED <<pc, loc>>
          \/ Done(q)
          \/ \E s : \/ Goto(q, "update", s) \/ Goto(q, "claim", s)
                    \/ Goto(q, "select", s) \/ Goto(q, "detach", s)
      BY <1>7 DEF ScheduleMessage, BeginUpdate, BeginSendNow, DeleteFile, CommitUpdate,
                  CommitDelete, SelectAttached, DetachOne, HandlerFails
    <2> QED
      BY <1>0, <1>2, <1>3, <1>4, <2>1
  <1>8. CASE StartRun \/ ListDue \/ EndRun
    <2>1. PICK point \in {"list", "listed", "idle"} : Goto(Worker, point, Blank)
      BY <1>8 DEF StartRun, ListDue, EndRun
    <2> QED
      BY <1>0, <1>3, <2>1
  <1>9. CASE WorkerClaim \/ \E q \in Requests : RequestClaim(q)
    BY <1>0, <1>6, <1>9 DEF WorkerClaim, RequestClaim
  <1>10. ASSUME NEW p \in Procs,
                CheckAccess(p) \/ CreateMessage(p) \/ DeleteSent(p) \/ Settle(p)
                  \/ BroadcastPanics(p)
         PROVE  rows'[loc'[r].id].status # "unborn"
    <2>1. Done(p) \/ \E point \in {"checked", "erred", "posted", "idle"} : \E s :
                        Goto(p, point, s)
      BY <1>10 DEF CheckAccess, CreateMessage, DeleteSent, Settle, BroadcastPanics, Fail
    <2> QED
      BY <1>3, <1>4, <2>1
  <1>11. CASE Crash
    BY <1>0, <1>11 DEF Crash
  <1>12. CASE \/ \E id \in Ids : BecomeDue(id) \/ BecomeStale(id)
              \/ ChangeAccess \/ UNCHANGED vars
    BY <1>2, <1>12 DEF BecomeDue, BecomeStale, ChangeAccess, vars
  <1> QED
    BY <1>5, <1>7, <1>8, <1>9, <1>10, <1>11, <1>12
    DEF Next, UserStep, HandlerStep, WorkerStep, SendStep

-----------------------------------------------------------------------------
(* The inductive invariant holds of every reachable state.                  *)
LEMMA Inductive == Spec => []IInv
  <1>1. Init => IInv
    <2> SUFFICES ASSUME Init PROVE IInv
      OBVIOUS
    <2>1. TypeOK
      BY TypeInit
    <2>2. /\ \A p \in Procs : pc[p] \notin ClaimPoints /\ pc[p] # "posted"
          /\ \A r \in Requests : pc[r] # "delete"
      BY DEF Init, ClaimPoints, Procs
    <2>3. \A id \in Ids : posts[id] = 0 /\ rows[id].status = "unborn"
      BY DEF Init
    <2> QED
      BY <2>1, <2>2, <2>3
      DEF IInv, ClaimInv, OneHolder, HeldIsClaimed, SentIsClaimed, PostedMeansSent,
          PostedIsCounted, DeletesBorn, GoneOnlyIfSentOrDeleted, Holds
  <1>2. IInv /\ [Next]_vars => IInv'
    BY TypeNext, ClaimNext, PostedNext, DeletesNext, GoneNext DEF IInv
  <1> QED
    BY <1>1, <1>2, PTL DEF Spec

(* MarkSending makes it impossible to send a message twice unless its row   *)
(* is put back to pending during or after a send, for any number of         *)
(* messages, requests, edits, crashes and failing statements.               *)
THEOREM AtMostOnce == Spec => []AtMostOnceUnlessReclaimed
  <1>1. IInv => AtMostOnceUnlessReclaimed
    BY DEF IInv, ClaimInv, SentIsClaimed, AtMostOnceUnlessReclaimed, TypeOK
  <1> QED
    BY <1>1, Inductive, PTL

(* No scheduled message vanishes: it is gone only if sent or deleted.       *)
THEOREM NothingLost == Spec => []GoneOnlyIfSentOrDeleted
  <1>1. IInv => GoneOnlyIfSentOrDeleted
    BY DEF IInv
  <1> QED
    BY <1>1, Inductive, PTL

(* A row shown as queued or failed has not been sent, unless reclaimed.     *)
THEOREM QueuedRowsUnsent == Spec => []QueuedMeansUnsent
  <1>1. IInv => QueuedMeansUnsent
    BY DEF IInv, ClaimInv, SentIsClaimed, QueuedMeansUnsent
  <1> QED
    BY <1>1, Inductive, PTL

-----------------------------------------------------------------------------
(* Handlers and worker implement the outbox.                                *)
LEMMA LedgerRow == \A id \in Ids : Ledger[id] = Stage(id)
  BY DEF Ledger

(* A step that turns one message, and one that turns none.                  *)
LEMMA LedgerTurn ==
  ASSUME NEW id \in Ids, NEW from, NEW to, Stage(id) \in from, Stage(id)' = to,
         \A i \in Ids : i # id => Stage(i)' = Stage(i)
  PROVE  Promise!Turn(id, from, to)
  <1>1. Ledger' = [Ledger EXCEPT ![id] = to]
    BY DEF Ledger
  <1> QED
    BY <1>1, LedgerRow DEF Promise!Turn

LEMMA LedgerStays ==
  ASSUME \A i \in Ids : Stage(i)' = Stage(i)
  PROVE  Ledger' = Ledger
  BY DEF Ledger

LEMMA LedgerReclaim ==
  ASSUME NEW S \in SUBSET Ids,
         \A i \in Ids : i \notin S => Stage(i)' = Stage(i),
         \A i \in S : \/ Stage(i) = "stranded" /\ Stage(i)' = "queued"
                      \/ Stage(i) \in {"sending", "sent", "loose"} /\ Stage(i)' = "loose"
  PROVE  Promise!Reclaim(S)
  <1>1. \A i \in S : Stage(i) \in {"stranded", "sending", "sent", "loose"}
    OBVIOUS
  <1>2. \A i \in Ids : Stage(i)' = IF i \notin S THEN Stage(i)
                                   ELSE IF Stage(i) = "stranded" THEN "queued"
                                   ELSE "loose"
    OBVIOUS
  <1>3. \A i \in Ids : Stage(i)' = IF i \notin S THEN Ledger[i]
                                   ELSE IF Ledger[i] = "stranded" THEN "queued"
                                   ELSE "loose"
    BY <1>2, LedgerRow
  <1>4. Ledger' = [i \in Ids |-> IF i \notin S THEN Ledger[i]
                                 ELSE IF Ledger[i] = "stranded" THEN "queued"
                                 ELSE "loose"]
    BY <1>3 DEF Ledger
  <1> QED
    BY <1>1, <1>4, LedgerRow DEF Promise!Reclaim

(* The claim discipline keeps every message on a stage of the outbox.       *)
LEMMA NeverAstray ==
  ASSUME IInv, NEW id \in Ids, ~reclaimed[id]
  PROVE  ~Astray(id)
  <1>1. posts[id] # 0 => posts[id] = 1 /\ rows[id].status \in {"sending", "gone"}
    BY DEF IInv, ClaimInv, SentIsClaimed
  <1>2. posts[id] = 0 /\ rows[id].status = "gone" => deleted[id]
    BY DEF IInv, GoneOnlyIfSentOrDeleted
  <1> QED
    BY <1>1, <1>2 DEF Astray

(* A message that a step does not touch stays where it is; so does one that *)
(* is out, and one that is loose.                                           *)
LEMMA StageFrame ==
  ASSUME IInv, NEW id \in Ids, reclaimed'[id] = reclaimed[id], posts'[id] = posts[id],
         \/ rows'[id].status = rows[id].status
         \/ posts[id] # 0 /\ rows'[id].status = "gone",
         deleted[id] => deleted'[id],
         posts[id] # 0 \/ \A q \in Procs : Holds(q, id)' <=> Holds(q, id)
  PROVE  Stage(id)' = Stage(id)
  <1>1. CASE reclaimed[id]
    BY <1>1 DEF Stage
  <1>2. CASE ~reclaimed[id] /\ posts[id] # 0
    <2>1. ~Astray(id) /\ posts[id] = 1
      BY <1>2, NeverAstray DEF Astray, IInv, TypeOK
    <2>2. ~Astray(id)'
      BY <1>2, <2>1 DEF Astray
    <2> QED
      BY <1>2, <2>1, <2>2 DEF Stage
  <1>3. CASE ~reclaimed[id] /\ posts[id] = 0
    <2>1. Held(id)' <=> Held(id)
      BY <1>3 DEF Held
    <2>2. ~Astray(id)
      BY <1>3, NeverAstray
    <2>3. ~Astray(id)'
      BY <1>3, <2>2 DEF Astray
    <2> QED
      BY <1>3, <2>1, <2>2, <2>3 DEF Stage
  <1> QED
    BY <1>1, <1>2, <1>3

LEMMA StageLoose ==
  ASSUME NEW id \in Ids, reclaimed[id], reclaimed'[id]
  PROVE  Stage(id)' = Stage(id)
  BY DEF Stage

(* What a stage says of a row that was not reclaimed.                       *)
LEMMA StageOf ==
  ASSUME IInv, NEW id \in Ids, ~reclaimed[id]
  PROVE  /\ posts[id] # 0 => Stage(id) = "sent"
         /\ posts[id] = 0 /\ Held(id) /\ rows[id].status = "gone" => Stage(id) = "recalled"
         /\ posts[id] = 0 /\ Held(id) /\ rows[id].status # "gone" => Stage(id) = "sending"
         /\ posts[id] = 0 /\ ~Held(id) =>
               /\ rows[id].status = "unborn" => Stage(id) = "new"
               /\ rows[id].status = "pending" => Stage(id) = "queued"
               /\ rows[id].status = "sending" => Stage(id) = "stranded"
               /\ rows[id].status = "failed" => Stage(id) = "failed"
               /\ rows[id].status = "gone" => Stage(id) = "withdrawn"
  <1>1. ~Astray(id)
    BY NeverAstray
  <1>2. posts[id] # 0 => posts[id] = 1
    BY <1>1 DEF Astray, IInv, TypeOK
  <1> QED
    BY <1>1, <1>2 DEF Stage, Standing

LEMMA StageThen ==
  ASSUME NEW id \in Ids, ~reclaimed'[id]
  PROVE  /\ posts'[id] = 1 /\ rows'[id].status \in {"sending", "gone"}
               => Stage(id)' = "sent"
         /\ posts'[id] = 0 /\ Held(id)' /\ rows'[id].status = "sending"
               => Stage(id)' = "sending"
         /\ posts'[id] = 0 /\ Held(id)' /\ rows'[id].status = "gone" /\ deleted'[id]
               => Stage(id)' = "recalled"
         /\ posts'[id] = 0 /\ ~Held(id)' =>
               /\ rows'[id].status = "pending" => Stage(id)' = "queued"
               /\ rows'[id].status = "sending" => Stage(id)' = "stranded"
               /\ rows'[id].status = "failed" => Stage(id)' = "failed"
               /\ rows'[id].status = "gone" /\ deleted'[id] => Stage(id)' = "withdrawn"
  BY DEF Stage, Standing, Astray

(* The same of a row that somebody holds, and of one nobody does.           *)
LEMMA HeldStage ==
  ASSUME IInv, NEW id \in Ids, ~reclaimed[id], NEW p \in Procs, Holds(p, id)
  PROVE  /\ \A q \in Procs : q # p => ~Holds(q, id)
         /\ pc[p] = "posted" <=> posts[id] # 0
         /\ rows[id].status \in {"sending", "gone"} /\ Held(id)
         /\ posts[id] = 0 => Stage(id) = IF rows[id].status = "gone" THEN "recalled"
                                         ELSE "sending"
  <1>1. Held(id)
    BY DEF Held
  <1>2. /\ \A q \in Procs : q # p => ~Holds(q, id)
        /\ pc[p] = "posted" <=> posts[id] # 0
        /\ rows[id].status \in {"sending", "gone"}
    BY DEF IInv, ClaimInv, OneHolder, HeldIsClaimed, PostedMeansSent
  <1> QED
    BY <1>1, <1>2, StageOf

LEMMA IdleStage ==
  ASSUME NEW id \in Ids, ~reclaimed[id], ClaimInv(id),
         rows[id].status \in {"unborn", "pending", "failed"}
  PROVE  /\ posts[id] = 0 /\ ~Held(id)
         /\ Stage(id) = Standing[rows[id].status]
  <1>1. posts[id] = 0 /\ ~Held(id)
    BY IdleRow DEF Held
  <1> QED
    BY <1>1 DEF Stage, Astray

(* Steps that only move processes which hold nothing, before and after.     *)
LEMMA MoveStays ==
  ASSUME IInv, NEW p \in Procs, pc[p] \notin ClaimPoints,
         \/ Done(p)
         \/ \E point, s : point \notin ClaimPoints /\ Goto(p, point, s)
         \/ UNCHANGED <<pc, loc>>,
         NEW id \in Ids, UNCHANGED posts, reclaimed'[id] = reclaimed[id],
         rows'[id].status = rows[id].status, deleted[id] => deleted'[id]
  PROVE  Stage(id)' = Stage(id)
  <1>0. TypeOK
    BY DEF IInv
  <1>1. ASSUME NEW q \in Procs PROVE Holds(q, id)' <=> Holds(q, id)
    <2>1. CASE UNCHANGED <<pc, loc>>
      BY <2>1 DEF Holds
    <2>2. CASE Done(p)
      BY <1>0, <2>2, DoneHolds DEF Holds
    <2>3. CASE \E point, s : point \notin ClaimPoints /\ Goto(p, point, s)
      BY <1>0, <2>3, GotoHolds DEF Holds
    <2> QED
      BY <2>1, <2>2, <2>3
  <1> QED
    BY <1>1, StageFrame

(* An edit is put in the table.                                             *)
LEMMA UpdateTurns ==
  ASSUME IInv, NEW r \in Requests, CommitUpdate(r)
  PROVE  [Promise!Next]_Ledger
  <1>0. PICK id \in Ids : id = loc[r].id
    BY DEF IInv, Procs, TypeOK, Snapshots
  <1>1. /\ r \in Procs /\ id \in Ids /\ TypeOK /\ Done(r) /\ UNCHANGED <<posts, deleted>>
        /\ pc[r] \notin ClaimPoints
        /\ rows' = IF ~InTable(id) THEN rows
                   ELSE [rows EXCEPT ![id] = [status |-> "pending", att |-> loc[r].att,
                           content |-> loc[r].content, retry |-> 0, due |-> loc[r].due,
                           stale |-> FALSE]]
        /\ reclaimed' = [reclaimed EXCEPT ![id] =
                            reclaimed[id] \/ (rows[id].status = "sending" /\ Underway(id))]
    BY <1>0 DEF IInv, Procs, CommitUpdate, ClaimPoints
  <1>2. \A i \in Ids : i # id => rows'[i] = rows[i] /\ reclaimed'[i] = reclaimed[i]
    BY <1>1 DEF TypeOK
  <1>3. \A i \in Ids : i # id => Stage(i)' = Stage(i)
    BY <1>1, <1>2, MoveStays
  <1>4. reclaimed'[id] <=> reclaimed[id] \/ (rows[id].status = "sending" /\ Underway(id))
    BY <1>1 DEF TypeOK
  <1>5. CASE ~InTable(id)
    <2>1. rows' = rows /\ reclaimed'[id] = reclaimed[id]
      BY <1>1, <1>5 DEF InTable, TypeOK
    <2>2. Stage(id)' = Stage(id)
      BY <1>1, <2>1, MoveStays
    <2> QED
      BY <1>3, <2>2, LedgerStays
  <1>6. CASE reclaimed[id]
    <2>1. Stage(id)' = Stage(id)
      BY <1>1, <1>4, <1>6, StageLoose
    <2> QED
      BY <1>3, <2>1, LedgerStays
  <1>7. CASE InTable(id) /\ ~reclaimed[id] /\ reclaimed'[id]
    <2>1. rows[id].status = "sending" /\ Underway(id)
      BY <1>4, <1>7
    <2>2. Stage(id) \in {"sending", "sent"}
      BY <1>1, <1>7, <2>1, StageOf DEF Underway, Held, TypeOK
    <2>3. Stage(id)' = "loose"
      BY <1>7 DEF Stage
    <2>4. Promise!Reclaim({id})
      BY <1>1, <1>3, <2>2, <2>3, LedgerReclaim
    <2> QED
      BY <1>1, <2>4 DEF Promise!Next
  <1>8. CASE InTable(id) /\ ~reclaimed'[id]
    <2>1. ~reclaimed[id] /\ ~(rows[id].status = "sending" /\ Underway(id))
      BY <1>4, <1>8
    <2>2. ClaimInv(id)
      BY <1>1, <2>1 DEF IInv
    <2>3. posts[id] = 0 /\ ~Held(id)
          /\ Stage(id) = Standing[rows[id].status]
      <3>1. CASE rows[id].status = "sending"
        <4>1. posts[id] = 0 /\ ~Held(id)
          BY <1>1, <2>1, <3>1 DEF Underway, TypeOK, Held
        <4> QED
          BY <2>1, <3>1, <4>1 DEF Stage, Astray
      <3>2. CASE rows[id].status \in {"pending", "failed"}
        BY <1>1, <2>1, <2>2, <3>2, IdleStage
      <3> QED
        BY <1>8, <3>1, <3>2 DEF InTable
    <2>4. ~Held(id)' /\ posts'[id] = 0
      BY <1>1, <2>3, DoneHolds DEF Held
    <2>5. rows'[id].status = "pending"
      BY <1>1, <1>8 DEF TypeOK
    <2>6. Stage(id)' = "queued"
      BY <1>1, <1>8, <2>4, <2>5, StageThen
    <2>7. CASE rows[id].status = "pending"
      <3>1. Stage(id)' = Stage(id)
        BY <2>3, <2>6, <2>7 DEF Standing
      <3> QED
        BY <1>3, <3>1, LedgerStays
    <2>8. CASE rows[id].status = "failed"
      <3>1. Stage(id) \in {"failed"}
        BY <2>3, <2>8 DEF Standing
      <3>2. Promise!Edit(id)
        BY <1>1, <1>3, <2>6, <3>1, LedgerTurn DEF Promise!Edit
      <3> QED
        BY <1>1, <3>2 DEF Promise!Next
    <2>9. CASE rows[id].status = "sending"
      <3>1. Stage(id) = "stranded"
        BY <2>3, <2>9 DEF Standing
      <3>2. Promise!Reclaim({id})
        BY <1>1, <1>3, <2>6, <3>1, LedgerReclaim
      <3> QED
        BY <1>1, <3>2 DEF Promise!Next
    <2> QED
      BY <1>8, <2>7, <2>8, <2>9 DEF InTable
  <1> QED
    BY <1>5, <1>6, <1>7, <1>8

(* A user's DELETE is carried out.                                          *)
LEMMA DeleteTurns ==
  ASSUME IInv, NEW r \in Requests, CommitDelete(r)
  PROVE  [Promise!Next]_Ledger
  <1>0. PICK id \in Ids : id = loc[r].id
    BY DEF IInv, Procs, TypeOK, Snapshots
  <1>1. /\ r \in Procs /\ id \in Ids /\ TypeOK /\ Done(r) /\ UNCHANGED <<posts, reclaimed>>
        /\ pc[r] \notin ClaimPoints
        /\ rows' = [rows EXCEPT ![id] = [rows[id] EXCEPT !.status = "gone"]]
        /\ deleted' = [deleted EXCEPT ![id] = TRUE]
        /\ rows[id].status # "unborn" /\ rows[id] \in Row
    BY <1>0 DEF IInv, Procs, TypeOK, CommitDelete, ClaimPoints, DeletesBorn
  <1>2. \A i \in Ids : i # id => rows'[i] = rows[i] /\ deleted'[i] = deleted[i]
    BY <1>1 DEF TypeOK
  <1>3. \A i \in Ids : i # id => Stage(i)' = Stage(i)
    BY <1>1, <1>2, MoveStays
  <1>4. rows'[id].status = "gone" /\ deleted'[id]
    BY <1>1 DEF TypeOK, Row
  <1>5. \A q \in Procs : Holds(q, id)' <=> Holds(q, id)
    BY <1>1, DoneHolds DEF Holds
  <1>6. CASE reclaimed[id] \/ posts[id] # 0 \/ rows[id].status = "gone"
    <2>1. Stage(id)' = Stage(id)
      <3>1. CASE reclaimed[id]
        BY <1>1, <3>1, StageLoose
      <3>2. CASE posts[id] # 0 \/ rows[id].status = "gone"
        BY <1>1, <1>4, <1>5, <3>2, StageFrame
      <3> QED
        BY <1>6, <3>1, <3>2
    <2> QED
      BY <1>3, <2>1, LedgerStays
  <1>7. CASE ~reclaimed[id] /\ posts[id] = 0 /\ rows[id].status # "gone"
    <2>1. Held(id)' <=> Held(id)
      BY <1>5 DEF Held
    <2>2. CASE Held(id)
      <3>1. Stage(id) \in {"sending"} /\ Stage(id)' = "recalled"
        BY <1>1, <1>4, <1>7, <2>1, <2>2, StageOf, StageThen
      <3>2. Promise!Delete(id)
        BY <1>1, <1>3, <3>1, LedgerTurn DEF Promise!Delete
      <3> QED
        BY <1>1, <3>2 DEF Promise!Next
    <2>3. CASE ~Held(id)
      <3>1. rows[id].status \in {"pending", "sending", "failed"}
        BY <1>1, <1>7 DEF Row, Statuses
      <3>2. /\ Stage(id) \in {"queued", "failed", "stranded"}
            /\ Stage(id)' = "withdrawn"
        BY <1>1, <1>4, <1>7, <2>1, <2>3, <3>1, StageOf, StageThen
      <3>3. Promise!Delete(id)
        BY <1>1, <1>3, <3>2, LedgerTurn DEF Promise!Delete
      <3> QED
        BY <1>1, <3>3 DEF Promise!Next
    <2> QED
      BY <2>2, <2>3
  <1> QED
    BY <1>6, <1>7

(* A run begins by taking stale claims for dead.                            *)
LEMMA StartTurns ==
  ASSUME IInv, StartRun
  PROVE  [Promise!Next]_Ledger
  <1>0. PICK stuck \in SUBSET Ids :
               stuck = {id \in Ids : rows[id].status = "sending" /\ rows[id].stale}
    OBVIOUS
  <1>1. /\ Worker \in Procs /\ TypeOK /\ Goto(Worker, "list", Blank)
        /\ UNCHANGED <<posts, deleted>> /\ pc[Worker] \notin ClaimPoints /\ "list" \notin ClaimPoints
    BY DEF IInv, Procs, StartRun, ClaimPoints
  <1>2. CASE UNCHANGED <<rows, reclaimed>>
    <2>1. \A i \in Ids : Stage(i)' = Stage(i)
      BY <1>1, <1>2, MoveStays
    <2> QED
      BY <2>1, LedgerStays
  <1>3. CASE /\ rows' = [id \in Ids |-> IF id \in stuck THEN Requeue(rows[id]) ELSE rows[id]]
             /\ reclaimed' = [id \in Ids |-> reclaimed[id] \/ (id \in stuck /\ Underway(id))]
    <2>1. ASSUME NEW i \in Ids, i \notin stuck
          PROVE  Stage(i)' = Stage(i)
      <3>1. rows'[i] = rows[i] /\ reclaimed'[i] = reclaimed[i]
        BY <1>3, <2>1 DEF IInv, TypeOK
      <3> QED
        BY <1>1, <3>1, MoveStays
    <2>2. ASSUME NEW i \in stuck
          PROVE  \/ Stage(i) = "stranded" /\ Stage(i)' = "queued"
                 \/ Stage(i) \in {"sending", "sent", "loose"} /\ Stage(i)' = "loose"
      <3>1. i \in Ids /\ rows[i].status = "sending" /\ rows[i] \in Row
        BY <1>0 DEF IInv, TypeOK
      <3>2. rows'[i].status = "pending"
        <4>1. rows'[i] = Requeue(rows[i])
          BY <1>3, <3>1
        <4> QED
          BY <3>1, <4>1 DEF Requeue, SetStatus, Row
      <3>3. reclaimed'[i] <=> reclaimed[i] \/ Underway(i)
        BY <1>3, <3>1
      <3>4. CASE reclaimed[i] \/ Underway(i)
        <4>1. Stage(i)' = "loose"
          BY <3>3, <3>4 DEF Stage
        <4>2. Stage(i) \in {"sending", "sent", "loose"}
          <5>1. CASE reclaimed[i]
            BY <5>1 DEF Stage
          <5>2. CASE ~reclaimed[i]
            BY <1>1, <3>1, <3>4, <5>2, StageOf DEF Underway, Held, TypeOK
          <5> QED
            BY <5>1, <5>2
        <4> QED
          BY <4>1, <4>2
      <3>5. CASE ~reclaimed[i] /\ ~Underway(i)
        <4>1. posts[i] = 0 /\ ~Held(i)
          BY <1>1, <3>1, <3>5 DEF Underway, TypeOK, Held
        <4>2. ~Held(i)' /\ posts'[i] = 0
          BY <1>1, <3>1, <4>1, GotoHolds DEF Held
        <4> QED
          BY <3>1, <3>2, <3>3, <3>5, <4>1, <4>2, StageOf, StageThen
      <3> QED
        BY <3>4, <3>5
    <2>4. Promise!Reclaim(stuck)
      BY <2>1, <2>2, LedgerReclaim
    <2> QED
      BY <2>4 DEF Promise!Next
  <1> QED
    BY <1>0, <1>2, <1>3 DEF StartRun

(* A step of p that concerns id leaves the others where they are.           *)
LEMMA OthersStay ==
  ASSUME IInv, NEW p \in Procs, NEW id \in Ids, NEW i \in Ids, i # id,
         pc[p] \notin ClaimPoints \/ loc[p].id = id,
         \/ Done(p)
         \/ \E point, s : Goto(p, point, s) /\ (point \notin ClaimPoints \/ s.id = id),
         rows'[i] = rows[i], posts'[i] = posts[i], reclaimed'[i] = reclaimed[i],
         deleted[i] => deleted'[i]
  PROVE  Stage(i)' = Stage(i)
  <1>0. TypeOK
    BY DEF IInv
  <1>1. ~Holds(p, i)
    BY DEF Holds
  <1>2. ASSUME NEW q \in Procs PROVE Holds(q, i)' <=> Holds(q, i)
    <2>1. CASE Done(p)
      BY <1>0, <1>1, <2>1, DoneHolds
    <2>2. CASE \E point, s : Goto(p, point, s) /\ (point \notin ClaimPoints \/ s.id = id)
      BY <1>0, <1>1, <2>2, GotoHolds
    <2> QED
      BY <2>1, <2>2
  <1> QED
    BY <1>2, StageFrame

(* A sender that keeps its claim and does nothing else.                     *)
LEMMA HolderStays ==
  ASSUME IInv, NEW p \in Procs, pc[p] \in ClaimPoints,
         \E point, s : Goto(p, point, s) /\ point \in ClaimPoints /\ s.id = loc[p].id,
         UNCHANGED <<rows, posts, reclaimed, deleted>>
  PROVE  Ledger' = Ledger
  <1>0. TypeOK
    BY DEF IInv
  <1>1. ASSUME NEW i \in Ids, NEW q \in Procs PROVE Holds(q, i)' <=> Holds(q, i)
    <2>1. CASE q = p
      BY <1>0, <2>1, GotoHolds DEF Holds
    <2>2. CASE q # p
      BY <1>0, <2>2, GotoHolds
    <2> QED
      BY <2>1, <2>2
  <1>2. \A i \in Ids : Stage(i)' = Stage(i)
    BY <1>1, StageFrame
  <1> QED
    BY <1>2, LedgerStays

(* A pending row is claimed.                                                *)
LEMMA ClaimTurns ==
  ASSUME IInv, NEW p \in Procs, NEW s \in Snapshots, pc[p] \notin ClaimPoints,
         MarkSending(p, s), UNCHANGED <<posts, reclaimed, deleted>>
  PROVE  [Promise!Next]_Ledger
  <1>0. PICK id \in Ids : id = s.id
    BY DEF Snapshots
  <1>1. TypeOK /\ rows[id] \in Row
    BY DEF IInv, TypeOK
  <1>2. CASE Done(p) /\ UNCHANGED rows
    <2>1. \A i \in Ids : Stage(i)' = Stage(i)
      BY <1>1, <1>2, MoveStays
    <2> QED
      BY <2>1, LedgerStays
  <1>3. CASE /\ rows[id].status = "pending" /\ Goto(p, "exec", s)
             /\ rows' = [rows EXCEPT ![id] = SetStatus(rows[id], "sending")]
    <2>1. /\ \A i \in Ids : i # id => rows'[i] = rows[i]
          /\ rows'[id].status = "sending"
      BY <1>1, <1>3 DEF TypeOK, SetStatus, Row
    <2>2. \A i \in Ids : i # id => Stage(i)' = Stage(i)
      BY <1>0, <1>1, <1>3, <2>1, OthersStay
    <2>3. CASE reclaimed[id]
      <3>1. Stage(id)' = Stage(id)
        BY <2>3, StageLoose
      <3> QED
        BY <2>2, <3>1, LedgerStays
    <2>4. CASE ~reclaimed[id]
      <3>1. posts[id] = 0 /\ Stage(id) \in {"queued"}
        BY <1>3, <2>4, IdleStage DEF IInv, Standing
      <3>2. Holds(p, id)'
        BY <1>0, <1>1, <1>3, GotoHolds DEF ClaimPoints
      <3>3. Held(id)'
        BY <3>2 DEF Held
      <3>4. Stage(id)' = "sending"
        BY <2>1, <2>4, <3>1, <3>3, StageThen
      <3>5. Promise!Claim(id)
        BY <2>2, <3>1, <3>4, LedgerTurn DEF Promise!Claim
      <3> QED
        BY <3>5 DEF Promise!Next
    <2> QED
      BY <2>3, <2>4
  <1> QED
    BY <1>0, <1>2, <1>3 DEF MarkSending

(* The chat message is created, or its creation fails.                      *)
LEMMA CreateTurns ==
  ASSUME IInv, NEW p \in Procs, CreateMessage(p)
  PROVE  [Promise!Next]_Ledger
  <1>0. PICK id \in Ids : id = loc[p].id
    BY DEF IInv, TypeOK, Snapshots
  <1>1. /\ TypeOK /\ pc[p] = "checked" /\ pc[p] \in ClaimPoints /\ posts[id] \in Nat
        /\ UNCHANGED <<rows, reclaimed, deleted>> /\ "posted" \in ClaimPoints /\ "erred" \in ClaimPoints
    BY DEF IInv, TypeOK, CreateMessage, ClaimPoints
  <1>2. CASE UNCHANGED posts /\ Fail(p, "transient")
    <2>1. [loc[p] EXCEPT !.err = "transient"].id = loc[p].id
      BY <1>1 DEF TypeOK, Snapshots
    <2> QED
      BY <1>1, <1>2, <2>1, HolderStays DEF Fail
  <1>3. CASE posts' = [posts EXCEPT ![id] = @ + 1] /\ Goto(p, "posted", loc[p])
    <2>1. posts'[id] # 0 /\ \A i \in Ids : i # id => posts'[i] = posts[i]
      BY <1>1, <1>3 DEF TypeOK
    <2>2. \A i \in Ids : i # id => Stage(i)' = Stage(i)
      BY <1>0, <1>1, <1>3, <2>1, OthersStay
    <2>3. CASE reclaimed[id]
      <3>1. Stage(id)' = Stage(id)
        BY <1>1, <2>3, StageLoose
      <3> QED
        BY <2>2, <3>1, LedgerStays
    <2>4. CASE ~reclaimed[id]
      <3>1. Holds(p, id) /\ ClaimInv(id)
        BY <1>0, <1>1, <2>4 DEF Holds, IInv
      <3>2. /\ posts[id] = 0 /\ rows[id].status \in {"sending", "gone"}
            /\ Stage(id) \in {"sending", "recalled"}
        BY <1>1, <2>4, <3>1, HeldStage
      <3>3. posts'[id] = 1
        BY <1>1, <1>3, <3>2 DEF IInv, TypeOK
      <3>4. Stage(id)' = "sent"
        BY <1>1, <2>4, <3>2, <3>3, StageThen
      <3>5. Promise!Deliver(id)
        BY <2>2, <3>2, <3>4, LedgerTurn DEF Promise!Deliver
      <3> QED
        BY <3>5 DEF Promise!Next
    <2> QED
      BY <2>3, <2>4
  <1> QED
    BY <1>0, <1>2, <1>3 DEF CreateMessage

(* What is left to do once the message is out changes nothing for its user. *)
LEMMA PostedStays ==
  ASSUME IInv, NEW p \in Procs, DeleteSent(p) \/ BroadcastPanics(p)
  PROVE  Ledger' = Ledger
  <1>0. PICK id \in Ids : id = loc[p].id
    BY DEF IInv, TypeOK, Snapshots
  <1>1. /\ TypeOK /\ posts[id] # 0 /\ UNCHANGED <<posts, reclaimed, deleted>>
        /\ Done(p) \/ Goto(p, "idle", Blank)
    BY <1>0 DEF IInv, PostedIsCounted, DeleteSent, BroadcastPanics
  <1>2. \A i \in Ids : i # id => rows'[i] = rows[i]
    BY <1>0, <1>1 DEF DeleteSent, BroadcastPanics, TypeOK
  <1>3. "idle" \notin ClaimPoints
    BY DEF ClaimPoints
  <1>4. \A i \in Ids : i # id => Stage(i)' = Stage(i)
    BY <1>0, <1>1, <1>2, <1>3, OthersStay
  <1>5. rows'[id].status \in {rows[id].status, "gone"}
    <2>1. rows' = rows \/ rows' = [rows EXCEPT ![id] = [rows[id] EXCEPT !.status = "gone"]]
      BY <1>0 DEF DeleteSent, BroadcastPanics
    <2> QED
      BY <1>1, <2>1 DEF TypeOK, Row
  <1>6. Stage(id)' = Stage(id)
    BY <1>1, <1>5, StageFrame
  <1> QED
    BY <1>4, <1>6, LedgerStays

(* A failed send is settled.                                                *)
LEMMA SettleTurns ==
  ASSUME IInv, NEW p \in Procs, Settle(p)
  PROVE  [Promise!Next]_Ledger
  <1>0. PICK id \in Ids : id = loc[p].id
    BY DEF IInv, TypeOK, Snapshots
  <1>1. /\ TypeOK /\ rows[id] \in Row /\ pc[p] = "erred" /\ pc[p] \in ClaimPoints
        /\ Done(p) /\ UNCHANGED <<posts, reclaimed, deleted>>
    BY DEF IInv, TypeOK, Settle, ClaimPoints
  <1>2. \/ rows' = rows
        \/ /\ InTable(id)
           /\ \/ rows' = [rows EXCEPT ![id] = SetStatus(rows[id], "failed")]
              \/ rows' = [rows EXCEPT ![id] = Requeue(rows[id])]
    BY <1>0 DEF Settle
  <1>3. /\ \A i \in Ids : i # id => rows'[i] = rows[i]
        /\ \/ rows'[id].status = rows[id].status
           \/ InTable(id) /\ rows'[id].status \in {"pending", "failed"}
    <2>1. /\ Requeue(rows[id]).status = "pending"
          /\ SetStatus(rows[id], "failed").status = "failed"
      BY <1>1 DEF Requeue, SetStatus, Row
    <2> QED
      BY <1>1, <1>2, <2>1 DEF TypeOK
  <1>4. \A i \in Ids : i # id => Stage(i)' = Stage(i)
    BY <1>0, <1>1, <1>3, OthersStay
  <1>5. CASE reclaimed[id]
    <2>1. Stage(id)' = Stage(id)
      BY <1>1, <1>5, StageLoose
    <2> QED
      BY <1>4, <2>1, LedgerStays
  <1>6. CASE ~reclaimed[id]
    <2>1. Holds(p, id) /\ ClaimInv(id)
      BY <1>0, <1>1, <1>6 DEF Holds, IInv
    <2>2. /\ posts[id] = 0 /\ rows[id].status \in {"sending", "gone"}
          /\ Stage(id) = IF rows[id].status = "gone" THEN "recalled" ELSE "sending"
      BY <1>1, <1>6, <2>1, HeldStage
    <2>3. \A q \in Procs : ~Holds(q, id)'
      BY <1>1, <1>6, <2>1, HeldStage, DoneHolds
    <2>4. ~Held(id)' /\ posts'[id] = 0 /\ ~reclaimed'[id]
      BY <1>1, <1>6, <2>2, <2>3 DEF Held
    <2>5. CASE rows[id].status = "gone"
      <3>1. rows'[id].status = "gone" /\ deleted'[id]
        BY <1>1, <1>3, <2>2, <2>5 DEF InTable, IInv, GoneOnlyIfSentOrDeleted
      <3>2. Stage(id) \in {"recalled"} /\ Stage(id)' = "withdrawn"
        BY <2>2, <2>4, <2>5, <3>1, StageThen
      <3>3. Promise!Miss(id)
        BY <1>4, <3>2, LedgerTurn DEF Promise!Miss
      <3> QED
        BY <3>3 DEF Promise!Next
    <2>6. CASE rows[id].status = "sending"
      <3>1. rows'[id].status \in {"sending", "pending", "failed"}
        BY <1>3, <2>6
      <3>2. PICK to \in {"queued", "failed", "stranded"} : Stage(id)' = to
        BY <2>4, <3>1, StageThen
      <3>3. Promise!Turn(id, {"sending"}, to)
        BY <1>4, <2>2, <2>6, <3>2, LedgerTurn
      <3>4. Promise!Miss(id)
        BY <3>3 DEF Promise!Miss
      <3> QED
        BY <3>4 DEF Promise!Next
    <2> QED
      BY <2>2, <2>5, <2>6
  <1> QED
    BY <1>5, <1>6

(* A message is scheduled.                                                  *)
LEMMA ScheduleTurns ==
  ASSUME IInv, NEW r, NEW id \in Ids, ScheduleMessage(r, id)
  PROVE  [Promise!Next]_Ledger
  <1>1. PICK att : rows' = [rows EXCEPT ![id] = [rows[id] EXCEPT !.status = "pending",
                                                                 !.att = att]]
    BY DEF ScheduleMessage
  <1>2. /\ TypeOK /\ rows[id] \in Row /\ rows[id].status = "unborn"
        /\ UNCHANGED <<pc, loc, posts, reclaimed, deleted>>
    BY DEF IInv, TypeOK, ScheduleMessage
  <1>3. /\ rows'[id].status = "pending"
        /\ \A i \in Ids : i # id => rows'[i] = rows[i]
    BY <1>1, <1>2 DEF TypeOK, Row
  <1>4. \A i \in Ids, q \in Procs : Holds(q, i)' <=> Holds(q, i)
    BY <1>2 DEF Holds
  <1>5. \A i \in Ids : i # id => Stage(i)' = Stage(i)
    BY <1>2, <1>3, <1>4, StageFrame
  <1>6. CASE reclaimed[id]
    <2>1. Stage(id)' = Stage(id)
      BY <1>2, <1>6, StageLoose
    <2> QED
      BY <1>5, <2>1, LedgerStays
  <1>7. CASE ~reclaimed[id]
    <2>1. posts[id] = 0 /\ ~Held(id) /\ Stage(id) \in {"new"}
      BY <1>2, <1>7, IdleStage DEF IInv, Standing
    <2>2. ~Held(id)' /\ posts'[id] = 0 /\ ~reclaimed'[id]
      BY <1>2, <1>4, <1>7, <2>1 DEF Held
    <2>3. Stage(id)' = "queued"
      BY <1>3, <2>2, StageThen
    <2>4. Promise!Schedule(id)
      BY <1>5, <2>1, <2>3, LedgerTurn DEF Promise!Schedule
    <2> QED
      BY <2>4 DEF Promise!Next
  <1> QED
    BY <1>6, <1>7

(* The server crashes and every claim loses its holder.                     *)
LEMMA CrashTurns ==
  ASSUME IInv, Crash
  PROVE  [Promise!Next]_Ledger
  <1>1. /\ TypeOK /\ UNCHANGED <<rows, posts, reclaimed, deleted>>
        /\ pc' = [p \in Procs |-> "idle"]
    BY DEF IInv, Crash
  <1>2. ASSUME NEW id \in Ids
        PROVE  Stage(id)' = IF Stage(id) = "sending" THEN "stranded"
                            ELSE IF Stage(id) = "recalled" THEN "withdrawn"
                            ELSE Stage(id)
    <2>1. ~Held(id)'
      BY <1>1 DEF Held, Holds, ClaimPoints
    <2>2. CASE reclaimed[id]
      BY <1>1, <2>2 DEF Stage
    <2>3. CASE ~reclaimed[id] /\ posts[id] # 0
      <3>1. Stage(id)' = Stage(id)
        BY <1>1, <2>3, StageFrame
      <3>2. Stage(id) = "sent"
        BY <2>3, StageOf
      <3> QED
        BY <3>1, <3>2
    <2>4. CASE ~reclaimed[id] /\ posts[id] = 0 /\ ~Held(id)
      <3>1. Stage(id)' = Stage(id)
        <4>1. \A q \in Procs : Holds(q, id)' <=> Holds(q, id)
          BY <1>1, <2>4 DEF Held, Holds, ClaimPoints
        <4> QED
          BY <1>1, <4>1, StageFrame
      <3>2. Stage(id) \notin {"sending", "recalled"}
        <4>1. rows[id].status \in Statuses
          BY <1>1 DEF TypeOK, Row
        <4> QED
          BY <2>4, <4>1, StageOf DEF Statuses
      <3> QED
        BY <3>1, <3>2
    <2>5. CASE ~reclaimed[id] /\ posts[id] = 0 /\ Held(id)
      <3>1. PICK p \in Procs : Holds(p, id)
        BY <2>5 DEF Held
      <3>2. /\ rows[id].status \in {"sending", "gone"}
            /\ Stage(id) = IF rows[id].status = "gone" THEN "recalled" ELSE "sending"
        BY <2>5, <3>1, HeldStage DEF IInv
      <3>3. posts'[id] = 0 /\ ~reclaimed'[id] /\ rows'[id].status = rows[id].status
        BY <1>1, <2>5
      <3>4. rows[id].status = "gone" => deleted'[id]
        BY <1>1, <2>5 DEF IInv, GoneOnlyIfSentOrDeleted
      <3> QED
        BY <2>1, <3>2, <3>3, <3>4, StageThen
    <2> QED
      BY <2>2, <2>3, <2>4, <2>5
  <1>3. \A id \in Ids : Stage(id)' = IF Ledger[id] = "sending" THEN "stranded"
                                     ELSE IF Ledger[id] = "recalled" THEN "withdrawn"
                                     ELSE Ledger[id]
    BY <1>2, LedgerRow
  <1>4. Ledger' = [id \in Ids |-> IF Ledger[id] = "sending" THEN "stranded"
                                  ELSE IF Ledger[id] = "recalled" THEN "withdrawn"
                                  ELSE Ledger[id]]
    BY <1>3 DEF Ledger
  <1> QED
    BY <1>4 DEF Promise!Next, Promise!Crash

(* The steps that turn nothing: they leave every status, post and claim.    *)
LEMMA QuietStays ==
  ASSUME IInv, NEW p \in Procs, pc[p] \notin ClaimPoints,
         \/ Done(p)
         \/ \E point, s : point \notin ClaimPoints /\ Goto(p, point, s)
         \/ UNCHANGED <<pc, loc>>,
         UNCHANGED <<posts, reclaimed, deleted>>,
         \A id \in Ids : rows'[id].status = rows[id].status
  PROVE  Ledger' = Ledger
  <1>1. TypeOK
    BY DEF IInv
  <1>2. \A id \in Ids : Stage(id)' = Stage(id)
    BY <1>1, MoveStays
  <1> QED
    BY <1>2, LedgerStays

(* Every step of handlers, worker and environment is one of the outbox's or *)
(* none.                                                                    *)
LEMMA OutboxStep ==
  ASSUME IInv, [Next]_vars
  PROVE  [Promise!Next]_Ledger
  <1>0. /\ TypeOK /\ Requests \subseteq Procs /\ Worker \in Procs
        /\ loc \in [Procs -> Snapshots] /\ batch \in [Procs -> SUBSET Snapshots]
    BY DEF IInv, TypeOK, Procs
  <1>1. ASSUME NEW r \in Requests, NEW id \in Ids,
               BeginUpdate(r, id) \/ BeginDelete(r, id) \/ BeginSendNow(r, id)
        PROVE  Ledger' = Ledger
    <2>1. /\ pc[r] = "idle" /\ UNCHANGED <<rows, posts, reclaimed, deleted>>
          /\ \E s : Goto(r, "update", s) \/ Goto(r, "delete", s) \/ Goto(r, "claim", s)
      BY <1>1 DEF BeginUpdate, BeginDelete, BeginSendNow
    <2>2. {"idle", "update", "delete", "claim"} \cap ClaimPoints = {}
      BY DEF ClaimPoints
    <2> QED
      BY <1>0, <2>1, <2>2, QuietStays
  <1>2. ASSUME NEW r \in Requests, NEW f \in Files, DeleteFile(r, f)
        PROVE  Ledger' = Ledger
    <2>1. /\ pc[r] \notin ClaimPoints /\ UNCHANGED <<rows, posts, reclaimed, deleted>>
          /\ \E s : Goto(r, "select", s)
      BY <1>2 DEF DeleteFile, ClaimPoints
    <2>2. "select" \notin ClaimPoints
      BY DEF ClaimPoints
    <2> QED
      BY <1>0, <2>1, <2>2, QuietStays
  <1>3. ASSUME NEW r \in Requests, SelectAttached(r) \/ HandlerFails(r)
        PROVE  Ledger' = Ledger
    <2>1. /\ pc[r] \notin ClaimPoints /\ UNCHANGED <<rows, posts, reclaimed, deleted>>
          /\ Done(r) \/ Goto(r, "detach", Blank)
      BY <1>3 DEF SelectAttached, HandlerFails, ClaimPoints
    <2>2. "detach" \notin ClaimPoints
      BY DEF ClaimPoints
    <2> QED
      BY <1>0, <2>1, <2>2, QuietStays
  <1>4. ASSUME NEW r \in Requests, DetachOne(r)
        PROVE  Ledger' = Ledger
    <2>1. /\ pc[r] \notin ClaimPoints /\ UNCHANGED <<posts, reclaimed, deleted>>
          /\ Done(r) \/ UNCHANGED <<pc, loc>>
      BY <1>4 DEF DetachOne, ClaimPoints
    <2>2. \A id \in Ids : rows'[id].status = rows[id].status
      BY <1>0, <1>4, DetachKeeps
    <2> QED
      BY <1>0, <2>1, <2>2, QuietStays
  <1>5. CASE ListDue \/ EndRun
    <2>1. /\ pc[Worker] \notin ClaimPoints /\ UNCHANGED <<rows, posts, reclaimed, deleted>>
          /\ Goto(Worker, "listed", Blank) \/ Goto(Worker, "idle", Blank)
      BY <1>5 DEF ListDue, EndRun, ClaimPoints
    <2>2. "listed" \notin ClaimPoints /\ "idle" \notin ClaimPoints
      BY DEF ClaimPoints
    <2> QED
      BY <1>0, <2>1, <2>2, QuietStays
  <1>6. ASSUME UNCHANGED <<pc, loc, posts, reclaimed, deleted>>,
               \A id \in Ids : rows'[id].status = rows[id].status
        PROVE  Ledger' = Ledger
    <2>1. \A id \in Ids, q \in Procs : Holds(q, id)' <=> Holds(q, id)
      BY <1>6 DEF Holds
    <2>2. \A id \in Ids : Stage(id)' = Stage(id)
      BY <1>6, <2>1, StageFrame
    <2> QED
      BY <2>2, LedgerStays
  <1>7. ASSUME NEW i \in Ids, BecomeDue(i) \/ BecomeStale(i)
        PROVE  Ledger' = Ledger
    <2>1. UNCHANGED <<pc, loc, posts, reclaimed, deleted>>
      BY <1>7 DEF BecomeDue, BecomeStale
    <2>2. \A id \in Ids : rows'[id].status = rows[id].status
      BY <1>0, <1>7, TimeKeeps
    <2> QED
      BY <1>6, <2>1, <2>2
  <1>8. CASE ChangeAccess \/ UNCHANGED vars
    BY <1>6, <1>8 DEF ChangeAccess, vars
  <1>9. ASSUME NEW p \in Procs, CheckAccess(p)
        PROVE  Ledger' = Ledger
    <2>1. /\ pc[p] \in ClaimPoints /\ UNCHANGED <<rows, posts, reclaimed, deleted>>
          /\ "checked" \in ClaimPoints /\ "erred" \in ClaimPoints
      BY <1>9 DEF CheckAccess, ClaimPoints
    <2>2. \A err : [loc[p] EXCEPT !.err = err].id = loc[p].id
      BY <1>0 DEF Snapshots
    <2> QED
      BY <1>0, <1>9, <2>1, <2>2, HolderStays DEF CheckAccess, Fail
  <1>10. CASE WorkerClaim
    <2>1. PICK s \in batch[Worker] : MarkSending(Worker, s)
      BY <1>10 DEF WorkerClaim
    <2>2. /\ pc[Worker] \notin ClaimPoints /\ UNCHANGED <<posts, reclaimed, deleted>>
          /\ s \in Snapshots
      BY <1>0, <1>10, <2>1 DEF WorkerClaim, ClaimPoints
    <2> QED
      BY <1>0, <2>1, <2>2, ClaimTurns
  <1>11. ASSUME NEW r \in Requests, RequestClaim(r)
         PROVE  [Promise!Next]_Ledger
    <2>1. /\ pc[r] \notin ClaimPoints /\ UNCHANGED <<posts, reclaimed, deleted>>
          /\ MarkSending(r, loc[r]) /\ loc[r] \in Snapshots
      BY <1>0, <1>11 DEF RequestClaim, ClaimPoints
    <2> QED
      BY <1>0, <2>1, ClaimTurns
  <1>12. ASSUME NEW r \in Requests, UserStep(r) \/ HandlerStep(r) \/ HandlerFails(r)
         PROVE  [Promise!Next]_Ledger
    BY <1>1, <1>2, <1>3, <1>4, <1>11, <1>12, ScheduleTurns, UpdateTurns, DeleteTurns
    DEF UserStep, HandlerStep
  <1>13. CASE WorkerStep
    BY <1>5, <1>10, <1>13, StartTurns DEF WorkerStep
  <1>14. ASSUME NEW p \in Procs, SendStep(p) \/ BroadcastPanics(p)
         PROVE  [Promise!Next]_Ledger
    BY <1>9, <1>14, CreateTurns, PostedStays, SettleTurns DEF SendStep
  <1> QED
    BY <1>7, <1>8, <1>12, <1>13, <1>14, CrashTurns DEF Next

(* For any number of messages, requests, edits, faults and crashes, the     *)
(* handlers and the worker implement the abstract outbox.                   *)
THEOREM OutboxImplemented == Spec => OutboxKept
  <1>1. Init => Promise!Init
    <2> SUFFICES ASSUME Init PROVE Promise!Init
      OBVIOUS
    <2>1. ASSUME NEW id \in Ids PROVE Stage(id) = "new"
      <3>1. ~reclaimed[id] /\ posts[id] = 0 /\ rows[id].status = "unborn"
        BY DEF Init
      <3>2. ~Held(id)
        BY DEF Init, Held, Holds, ClaimPoints
      <3> QED
        BY <3>1, <3>2 DEF Stage, Standing, Astray
    <2> QED
      BY <2>1 DEF Ledger, Promise!Init
  <1>2. IInv /\ [Next]_vars => [Promise!Next]_Ledger
    BY OutboxStep
  <1> QED
    BY <1>1, <1>2, Inductive, PTL DEF Spec, OutboxKept, Promise!Spec

(* What the outbox means for one message: only a claimed one is sent, one   *)
(* that is sent stays so, or is wrongly taken for dead, and one that its    *)
(* user has taken back never returns, whatever still runs on its behalf.    *)
THEOREM EndsAreFinal ==
  Spec => [][\A id \in Ids :
                /\ Stage(id)' = "sent" => Stage(id) \in {"sending", "recalled", "sent"}
                /\ Stage(id) = "sent" => Stage(id)' \in {"sent", "loose"}
                /\ Stage(id) = "withdrawn" => Stage(id)' = "withdrawn"]_Ledger
  <1> DEFINE Final(id) ==
        /\ Stage(id)' = "sent" => Stage(id) \in {"sending", "recalled", "sent"}
        /\ Stage(id) = "sent" => Stage(id)' \in {"sent", "loose"}
        /\ Stage(id) = "withdrawn" => Stage(id)' = "withdrawn"
  <1>1. ASSUME Promise!Next, NEW id \in Ids PROVE Final(id)
    <2>1. ASSUME NEW i \in Ids, NEW from, NEW to, Promise!Turn(i, from, to)
          PROVE  Stage(id)' = Stage(id) \/ (Stage(id) \in from /\ Stage(id)' = to)
      <3>1. Ledger' = [Ledger EXCEPT ![i] = to] /\ Ledger[i] \in from
        BY <2>1 DEF Promise!Turn
      <3>2. Ledger'[id] = IF id = i THEN to ELSE Ledger[id]
        BY <3>1 DEF Ledger
      <3>3. Ledger[id] = Stage(id) /\ Ledger'[id] = Stage(id)'
        BY DEF Ledger
      <3> QED
        BY <3>1, <3>2, <3>3
    <2>2. ASSUME NEW i \in Ids,
                 \/ Promise!Schedule(i) \/ Promise!Edit(i) \/ Promise!Claim(i)
                 \/ Promise!Deliver(i) \/ Promise!Miss(i) \/ Promise!Delete(i)
          PROVE  Final(id)
      <3>1. PICK from, to : /\ Promise!Turn(i, from, to)
                            /\ {"sent", "withdrawn"} \cap from = {}
                            /\ to = "sent" => from = {"sending", "recalled"}
        BY <2>2 DEF Promise!Schedule, Promise!Edit, Promise!Claim,
           Promise!Deliver, Promise!Miss, Promise!Delete
      <3>2. Stage(id)' = Stage(id) \/ (Stage(id) \in from /\ Stage(id)' = to)
        BY <2>1, <3>1
      <3> QED
        BY <3>1, <3>2
    <2>3. ASSUME NEW S \in SUBSET Ids, Promise!Reclaim(S)
          PROVE  Final(id)
      <3>1. /\ id \in S => Ledger[id] \in {"stranded", "sending", "sent", "loose"}
            /\ Ledger'[id] = IF id \notin S THEN Ledger[id]
                             ELSE IF Ledger[id] = "stranded" THEN "queued" ELSE "loose"
        BY <2>3 DEF Promise!Reclaim
      <3>2. Ledger[id] = Stage(id) /\ Ledger'[id] = Stage(id)'
        BY DEF Ledger
      <3> QED
        BY <3>1, <3>2
    <2>4. CASE Promise!Crash
      <3>1. Ledger'[id] = IF Ledger[id] = "sending" THEN "stranded"
                          ELSE IF Ledger[id] = "recalled" THEN "withdrawn"
                          ELSE Ledger[id]
        BY <2>4 DEF Promise!Crash
      <3>2. Ledger[id] = Stage(id) /\ Ledger'[id] = Stage(id)'
        BY DEF Ledger
      <3> QED
        BY <3>1, <3>2
    <2> QED
      BY <1>1, <2>2, <2>3, <2>4 DEF Promise!Next
  <1>2. [Promise!Next]_Ledger => [\A id \in Ids : Final(id)]_Ledger
    BY <1>1
  <1> QED
    BY <1>2, OutboxImplemented, PTL DEF OutboxKept, Promise!Spec

=============================================================================
