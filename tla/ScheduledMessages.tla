-------------------------- MODULE ScheduledMessages --------------------------
(***************************************************************************)
(* Scheduled messages: the scheduled_messages table, the background worker *)
(* that sends what is due, and the HTTP handlers that create, edit, delete *)
(* and send a message now.  Sources: server/internal/scheduled/ and        *)
(* server/internal/handler/scheduled_message.go.                           *)
(*                                                                         *)
(* Each SQL statement is one atomic step: no handler or worker here opens  *)
(* a transaction, so every read-then-write is two steps with anything in   *)
(* between.  A process keeps in loc what it has read; pc says how far it   *)
(* is.  All messages belong to one user and one channel.                   *)
(***************************************************************************)
EXTENDS Naturals, FiniteSets

CONSTANTS
    Ids,         \* scheduled message ids (a ULID is never used twice)
    Files,       \* uploaded files that messages may carry as attachments
    Requests,    \* HTTP handler goroutines
    Worker,      \* the goroutine of the "scheduled-messages" task
    MaxRetries,  \* scheduled.MaxRetries
    FaultKinds,  \* which of "crash", "dbError", "slowSend", "panic" may happen
    MaxFaults,   \* bound: how many faults in one behaviour
    MaxEdits     \* bound: how many edits of one message are begun

ASSUME SchedAssumption ==
    /\ MaxRetries \in Nat \ {0}
    /\ MaxFaults \in Nat
    /\ MaxEdits \in Nat
    /\ Worker \notin Requests
    /\ Ids # {}

VARIABLES
    rows,       \* the table, one record per id
    files,      \* the files that still exist
    access,     \* the sender's access to the channel
    pc,         \* control point of every process
    loc,        \* what every process has read
    batch,      \* rows a process has listed and not yet visited
    faults,     \* faults so far
    edits,      \* edits begun so far, per message: names the new content
    posts,      \* history: chat messages created from each scheduled message
    reclaimed,  \* history: a row went back to pending during or after a send
    deleted     \* history: a user's DELETE statement has run

vars == <<rows, files, access, pc, loc, batch, faults, edits, posts,
          reclaimed, deleted>>

Procs == Requests \cup {Worker}

\* "unborn" and "gone" are the two ways of not being in the table.  due says
\* scheduled_for <= now, stale that updated_at is over five minutes old.
Statuses == {"unborn", "pending", "sending", "failed", "gone"}
Row == [status : Statuses, content : Nat, att : SUBSET Files, retry : Nat,
        due : BOOLEAN, stale : BOOLEAN]

InTable(id) == rows[id].status \in {"pending", "sending", "failed"}

\* Statements that set a status also set updated_at.
SetStatus(row, status) == [row EXCEPT !.status = status, !.stale = FALSE]

\* IncrementRetry, and ResetStuckSending for each row it finds.
Requeue(row) == [SetStatus(row, "pending") EXCEPT !.retry = @ + 1]

\* What GetByID and the scan of ListDue copy out of a row.
Snapshot(id) == [id |-> id, content |-> rows[id].content, att |-> rows[id].att,
                 retry |-> rows[id].retry, due |-> rows[id].due,
                 err |-> "none"]
Snapshots == [id : Ids, content : Nat, att : SUBSET Files, retry : Nat,
              due : BOOLEAN, err : {"none", "permanent", "transient"}]

ClaimPoints == {"exec", "checked", "posted", "erred"}
RequestPoints == {"idle", "update", "delete", "claim", "select", "detach"}
                     \cup ClaimPoints
WorkerPoints == {"idle", "list", "listed"} \cup ClaimPoints

\* No process has read anything yet.
Blank == [id |-> CHOOSE id \in Ids : TRUE, content |-> 0, att |-> {},
          retry |-> 0, due |-> FALSE, err |-> "none"]

Init ==
    /\ rows = [id \in Ids |-> [status |-> "unborn", content |-> 0, att |-> {},
                               retry |-> 0, due |-> FALSE, stale |-> FALSE]]
    /\ files = Files
    /\ access = "open"
    /\ pc = [p \in Procs |-> "idle"]
    /\ loc = [p \in Procs |-> Blank]
    /\ batch = [p \in Procs |-> {}]
    /\ faults = 0
    /\ edits = [id \in Ids |-> 0]
    /\ posts = [id \in Ids |-> 0]
    /\ reclaimed = [id \in Ids |-> FALSE]
    /\ deleted = [id \in Ids |-> FALSE]

Fault(kind) ==
    /\ kind \in FaultKinds
    /\ faults < MaxFaults
    /\ faults' = faults + 1

Goto(p, point, snapshot) ==
    /\ pc' = [pc EXCEPT ![p] = point]
    /\ loc' = [loc EXCEPT ![p] = snapshot]

\* A handler returns to its client; the worker turns to the next listed row.
Done(p) == Goto(p, IF p = Worker THEN "listed" ELSE "idle", Blank)

Holds(p, id) == pc[p] \in ClaimPoints /\ loc[p].id = id

\* A send of the message is under way or has created its chat message.
Underway(id) == posts[id] > 0 \/ \E p \in Procs : Holds(p, id)

-----------------------------------------------------------------------------
(* ScheduleMessage: refused unless the sender may post to the channel.      *)
ScheduleMessage(r, id) ==
    /\ pc[r] = "idle"
    /\ rows[id].status = "unborn"
    /\ access = "open"
    /\ \E att \in SUBSET files :
         rows' = [rows EXCEPT ![id] = [@ EXCEPT !.status = "pending", !.att = att]]
    /\ UNCHANGED <<files, access, pc, loc, batch, faults, edits, posts,
                   reclaimed, deleted>>

(* UpdateScheduledMessage, first half: GetByID, refuse while sending, and   *)
(* put the new content (and attachments, and time) in the copy.  Attachment *)
(* ids are not checked: the user names files that exist at this moment.  A  *)
(* new time lies in the future; an old one may come due before the write,   *)
(* which BecomeDue then catches up with.                                    *)
BeginUpdate(r, id) ==
    /\ pc[r] = "idle"
    /\ InTable(id) /\ rows[id].status # "sending"
    /\ edits[id] < MaxEdits
    /\ edits' = [edits EXCEPT ![id] = @ + 1]
    /\ \E att \in {rows[id].att} \cup SUBSET files, due \in {FALSE, rows[id].due} :
         Goto(r, "update", [id |-> id, content |-> edits[id] + 1, att |-> att,
                            retry |-> rows[id].retry, due |-> due, err |-> "none"])
    /\ UNCHANGED <<rows, files, access, batch, faults, posts, reclaimed, deleted>>

(* Second half: Repository.Update writes the whole copy back, by id alone,  *)
(* and makes the row pending again whatever its status is by now.           *)
CommitUpdate(r) ==
    LET s == loc[r]  id == s.id IN
    /\ pc[r] = "update"
    /\ rows' = IF ~InTable(id) THEN rows
               ELSE [rows EXCEPT ![id] = [status |-> "pending", att |-> s.att,
                       content |-> s.content, retry |-> 0, due |-> s.due,
                       stale |-> FALSE]]
    /\ reclaimed' = [reclaimed EXCEPT ![id] =
                        @ \/ (rows[id].status = "sending" /\ Underway(id))]
    /\ Done(r)
    /\ UNCHANGED <<files, access, batch, faults, edits, posts, deleted>>

(* DeleteScheduledMessage: the same check, then DELETE by id.               *)
BeginDelete(r, id) ==
    /\ pc[r] = "idle"
    /\ InTable(id) /\ rows[id].status # "sending"
    /\ Goto(r, "delete", Snapshot(id))
    /\ UNCHANGED <<rows, files, access, batch, faults, edits, posts, reclaimed,
                   deleted>>

CommitDelete(r) ==
    LET id == loc[r].id IN
    /\ pc[r] = "delete"
    /\ rows' = [rows EXCEPT ![id] = [@ EXCEPT !.status = "gone"]]
    /\ deleted' = [deleted EXCEPT ![id] = TRUE]
    /\ Done(r)
    /\ UNCHANGED <<files, access, batch, faults, edits, posts, reclaimed>>

(* SendScheduledMessageNow reads the row and goes on to claim it.           *)
BeginSendNow(r, id) ==
    /\ pc[r] = "idle"
    /\ InTable(id)
    /\ Goto(r, "claim", Snapshot(id))
    /\ UNCHANGED <<rows, files, access, batch, faults, edits, posts, reclaimed,
                   deleted>>

-----------------------------------------------------------------------------
(* DeleteFile drops the file and RemoveAttachmentID then selects the queued *)
(* messages that name it, and rewrites their attachment lists one by one.   *)
DeleteFile(r, f) ==
    /\ pc[r] = "idle"
    /\ f \in files
    /\ files' = files \ {f}
    /\ Goto(r, "select", [Blank EXCEPT !.att = {f}])
    /\ UNCHANGED <<rows, access, batch, faults, edits, posts, reclaimed, deleted>>

SelectAttached(r) ==
    LET hit == {id \in Ids : rows[id].status \in {"pending", "sending"}
                               /\ loc[r].att \subseteq rows[id].att} IN
    /\ pc[r] = "select"
    /\ batch' = [batch EXCEPT ![r] =
                   {[Snapshot(id) EXCEPT !.att = @ \ loc[r].att] : id \in hit}]
    /\ IF hit = {} THEN Done(r) ELSE Goto(r, "detach", Blank)
    /\ UNCHANGED <<rows, files, access, faults, edits, posts, reclaimed, deleted>>

DetachOne(r) ==
    /\ pc[r] = "detach"
    /\ \E s \in batch[r] :
         /\ rows' = IF InTable(s.id)
                    THEN [rows EXCEPT ![s.id] = [@ EXCEPT !.att = s.att, !.stale = FALSE]]
                    ELSE rows
         /\ batch' = [batch EXCEPT ![r] = @ \ {s}]
         /\ IF batch[r] = {s} THEN Done(r) ELSE UNCHANGED <<pc, loc>>
    /\ UNCHANGED <<files, access, faults, edits, posts, reclaimed, deleted>>

(* A statement of a handler fails: it answers 500 and leaves what it did.   *)
HandlerFails(r) ==
    /\ pc[r] \in {"update", "delete", "select", "detach"}
    /\ Fault("dbError")
    /\ batch' = [batch EXCEPT ![r] = {}]
    /\ Done(r)
    /\ UNCHANGED <<rows, files, access, edits, posts, reclaimed, deleted>>

-----------------------------------------------------------------------------
\* Mutant of StartRun: no recovery of rows left in "sending".
StartRunWithoutReset ==
    /\ pc[Worker] = "idle"
    /\ Goto(Worker, "list", Blank)
    /\ UNCHANGED <<rows, files, access, batch, faults, edits, posts, reclaimed,
                   deleted>>

(* ProcessDue, run by the scheduler one call after the other: first         *)
(* ResetStuckSending, whose failure is only logged ...                      *)
StartRun ==
    LET stuck == {id \in Ids : rows[id].status = "sending" /\ rows[id].stale} IN
    /\ pc[Worker] = "idle"
    /\ Goto(Worker, "list", Blank)
    /\ \/ /\ rows' = [id \in Ids |-> IF id \in stuck THEN Requeue(rows[id])
                                              ELSE rows[id]]
          /\ reclaimed' = [id \in Ids |-> reclaimed[id]
                                       \/ (id \in stuck /\ Underway(id))]
          /\ UNCHANGED faults
       \/ Fault("dbError") /\ UNCHANGED <<rows, reclaimed>>
    /\ UNCHANGED <<files, access, batch, edits, posts, deleted>>

(* ... then ListDue copies out every due pending row; on an error the run   *)
(* ends.                                                                    *)
ListDue ==
    /\ pc[Worker] = "list"
    /\ \/ /\ batch' = [batch EXCEPT ![Worker] =
                {Snapshot(id) : id \in {i \in Ids : rows[i].status = "pending"
                                                      /\ rows[i].due}}]
          /\ Goto(Worker, "listed", Blank)
          /\ UNCHANGED faults
       \/ Fault("dbError") /\ Goto(Worker, "idle", Blank) /\ UNCHANGED batch
    /\ UNCHANGED <<rows, files, access, edits, posts, reclaimed, deleted>>

EndRun ==
    /\ pc[Worker] = "listed"
    /\ batch[Worker] = {}
    /\ Goto(Worker, "idle", Blank)
    /\ UNCHANGED <<rows, files, access, batch, faults, edits, posts, reclaimed,
                   deleted>>

\* Mutant of MarkSending: the UPDATE does not ask for a pending row.
MarkSendingUnguarded(p, s) ==
    \/ /\ InTable(s.id)
       /\ rows' = [rows EXCEPT ![s.id] = SetStatus(@, "sending")]
       /\ Goto(p, "exec", s)
       /\ UNCHANGED faults
    \/ ~InTable(s.id) /\ Done(p) /\ UNCHANGED <<rows, faults>>

\* MarkSending: one UPDATE that succeeds only on a pending row.  Who loses
\* answers 409 (a handler) or goes to the next row (the worker).
MarkSending(p, s) ==
    \/ /\ rows[s.id].status = "pending"
       /\ rows' = [rows EXCEPT ![s.id] = SetStatus(@, "sending")]
       /\ Goto(p, "exec", s)
       /\ UNCHANGED faults
    \/ /\ rows[s.id].status # "pending"
       /\ Done(p)
       /\ UNCHANGED <<rows, faults>>
    \/ Fault("dbError") /\ Done(p) /\ UNCHANGED rows

WorkerClaim ==
    /\ pc[Worker] = "listed"
    /\ \E s \in batch[Worker] :
         /\ MarkSending(Worker, s)
         /\ batch' = [batch EXCEPT ![Worker] = @ \ {s}]
    /\ UNCHANGED <<files, access, edits, posts, reclaimed, deleted>>

RequestClaim(r) ==
    /\ pc[r] = "claim"
    /\ MarkSending(r, loc[r])
    /\ UNCHANGED <<files, access, batch, edits, posts, reclaimed, deleted>>

-----------------------------------------------------------------------------
\* executeScheduledSend returns an error and its caller will settle the row.
Fail(p, err) == Goto(p, "erred", [loc[p] EXCEPT !.err = err])

\* Mutant of CheckAccess: a message that can no longer be sent is removed.
CheckAccessDropsRow(p) ==
    /\ pc[p] = "exec"
    /\ \/ /\ access = "open"
          /\ Goto(p, "checked", loc[p])
          /\ UNCHANGED rows
       \/ /\ access # "open"
          /\ Fail(p, "permanent")
          /\ rows' = [rows EXCEPT ![loc[p].id] = [@ EXCEPT !.status = "gone"]]
    /\ UNCHANGED <<files, access, batch, faults, edits, posts, reclaimed, deleted>>

(* executeScheduledSend: an archived channel or a sender who is no longer a *)
(* member is a permanent error, anything else a transient one.              *)
CheckAccess(p) ==
    /\ pc[p] = "exec"
    /\ \/ access = "open" /\ Goto(p, "checked", loc[p]) /\ UNCHANGED faults
       \/ access # "open" /\ Fail(p, "permanent") /\ UNCHANGED faults
       \/ Fault("dbError") /\ Fail(p, "transient")
    /\ UNCHANGED <<rows, files, access, batch, edits, posts, reclaimed, deleted>>

(* The chat message is created (its own transaction) and broadcast.         *)
CreateMessage(p) ==
    /\ pc[p] = "checked"
    /\ \/ /\ posts' = [posts EXCEPT ![loc[p].id] = @ + 1]
          /\ Goto(p, "posted", loc[p])
          /\ UNCHANGED faults
       \/ Fault("dbError") /\ Fail(p, "transient") /\ UNCHANGED posts
    /\ UNCHANGED <<rows, files, access, batch, edits, reclaimed, deleted>>

\* Mutant of DeleteSent: a failure is returned, so the caller settles the row.
DeleteSentReportsFailure(p) ==
    /\ pc[p] = "posted"
    /\ \/ /\ rows' = [rows EXCEPT ![loc[p].id] = [@ EXCEPT !.status = "gone"]]
          /\ Done(p)
          /\ UNCHANGED faults
       \/ Fault("dbError") /\ Fail(p, "transient") /\ UNCHANGED rows
    /\ UNCHANGED <<files, access, batch, edits, posts, reclaimed, deleted>>

(* The broadcast of the new message panics on a closed Send channel.  The   *)
(* router or the scheduler recovers: the handler answers 500, the worker's  *)
(* run ends, and the row stays as it was claimed.                           *)
BroadcastPanics(p) ==
    /\ pc[p] = "posted"
    /\ Fault("panic")
    /\ Goto(p, "idle", Blank)
    /\ batch' = [batch EXCEPT ![p] = {}]
    /\ UNCHANGED <<rows, files, access, edits, posts, reclaimed, deleted>>

(* The row is deleted; a failure to do so is logged and success returned.   *)
DeleteSent(p) ==
    /\ pc[p] = "posted"
    /\ \/ /\ rows' = [rows EXCEPT ![loc[p].id] = [@ EXCEPT !.status = "gone"]]
          /\ UNCHANGED faults
       \/ Fault("dbError") /\ UNCHANGED rows
    /\ Done(p)
    /\ UNCHANGED <<files, access, batch, edits, posts, reclaimed, deleted>>

\* Which rows the caller gives up on: SendScheduledMessageNow only on a
\* permanent error, the worker also on the last of MaxRetries attempts, counted
\* from the copy it listed.
GivesUp(p) ==
    \/ loc[p].err = "permanent"
    \/ p = Worker /\ loc[p].retry + 1 >= MaxRetries

\* Mutant of Settle: the statement writes the row even if it was deleted.
SettleResurrects(p) ==
    LET id == loc[p].id IN
    /\ pc[p] = "erred"
    /\ \/ /\ rows' = [rows EXCEPT ![id] = IF GivesUp(p) THEN SetStatus(@, "failed")
                                                        ELSE Requeue(@)]
          /\ UNCHANGED faults
       \/ Fault("dbError") /\ UNCHANGED rows
    /\ Done(p)
    /\ UNCHANGED <<files, access, batch, edits, posts, reclaimed, deleted>>

(* MarkFailed or IncrementRetry, by id alone; failing to do it is logged.   *)
Settle(p) ==
    LET id == loc[p].id IN
    /\ pc[p] = "erred"
    /\ \/ /\ rows' = IF ~InTable(id) THEN rows
                     ELSE IF GivesUp(p)
                     THEN [rows EXCEPT ![id] = SetStatus(@, "failed")]
                     ELSE [rows EXCEPT ![id] = Requeue(@)]
          /\ UNCHANGED faults
       \/ Fault("dbError") /\ UNCHANGED rows
    /\ Done(p)
    /\ UNCHANGED <<files, access, batch, edits, posts, reclaimed, deleted>>

-----------------------------------------------------------------------------
(* The environment: time passes, the sender loses and regains access, the   *)
(* server crashes and comes back with the table as it was.                  *)
BecomeDue(id) ==
    /\ InTable(id) /\ ~rows[id].due
    /\ rows' = [rows EXCEPT ![id] = [@ EXCEPT !.due = TRUE]]
    /\ UNCHANGED <<files, access, pc, loc, batch, faults, edits, posts,
                   reclaimed, deleted>>

\* Five minutes pass over a row in "sending".  That a live send lasts so long
\* is a fault of its own.
BecomeStale(id) ==
    /\ rows[id].status = "sending" /\ ~rows[id].stale
    /\ rows' = [rows EXCEPT ![id] = [@ EXCEPT !.stale = TRUE]]
    /\ IF \E p \in Procs : Holds(p, id) THEN Fault("slowSend")
                                        ELSE UNCHANGED faults
    /\ UNCHANGED <<files, access, pc, loc, batch, edits, posts, reclaimed, deleted>>

ChangeAccess ==
    /\ access' \in CASE access = "open" -> {"archived", "left"}
                     [] access = "left" -> {"open", "archived"}
                     [] OTHER -> {}
    /\ UNCHANGED <<rows, files, pc, loc, batch, faults, edits, posts, reclaimed,
                   deleted>>

Crash ==
    /\ Fault("crash")
    /\ pc' = [p \in Procs |-> "idle"]
    /\ loc' = [p \in Procs |-> Blank]
    /\ batch' = [p \in Procs |-> {}]
    /\ UNCHANGED <<rows, files, access, edits, posts, reclaimed, deleted>>

-----------------------------------------------------------------------------
UserStep(r) ==
    \/ \E id \in Ids : ScheduleMessage(r, id) \/ BeginUpdate(r, id)
                         \/ BeginDelete(r, id) \/ BeginSendNow(r, id)
    \/ \E f \in Files : DeleteFile(r, f)

HandlerStep(r) ==
    CommitUpdate(r) \/ CommitDelete(r) \/ SelectAttached(r) \/ DetachOne(r)
      \/ RequestClaim(r)

WorkerStep == StartRun \/ ListDue \/ WorkerClaim \/ EndRun

SendStep(p) == CheckAccess(p) \/ CreateMessage(p) \/ DeleteSent(p) \/ Settle(p)

Next ==
    \/ \E r \in Requests : UserStep(r) \/ HandlerStep(r) \/ HandlerFails(r)
    \/ WorkerStep
    \/ \E p \in Procs : SendStep(p) \/ BroadcastPanics(p)
    \/ \E id \in Ids : BecomeDue(id) \/ BecomeStale(id)
    \/ ChangeAccess
    \/ Crash

Spec == Init /\ [][Next]_vars

\* The scheduler keeps calling ProcessDue every 30 seconds, goroutines that run
\* go on running, and time passes.  Users and faults are under no obligation.
Fairness ==
    /\ WF_vars(WorkerStep)
    /\ \A p \in Procs : WF_vars(SendStep(p))
    /\ \A r \in Requests : WF_vars(HandlerStep(r))
    /\ \A id \in Ids : WF_vars(BecomeStale(id))

FairSpec == Spec /\ Fairness

-----------------------------------------------------------------------------
TypeOK ==
    /\ rows \in [Ids -> Row]
    /\ files \in SUBSET Files
    /\ access \in {"open", "archived", "left"}
    /\ pc \in [Procs -> RequestPoints \cup WorkerPoints]
    /\ pc[Worker] \in WorkerPoints
    /\ \A r \in Requests : pc[r] \in RequestPoints
    /\ loc \in [Procs -> Snapshots]
    /\ batch \in [Procs -> SUBSET Snapshots]
    /\ faults \in Nat
    /\ edits \in [Ids -> Nat]
    /\ posts \in [Ids -> Nat]
    /\ reclaimed \in [Ids -> BOOLEAN]
    /\ deleted \in [Ids -> BOOLEAN]

(* A scheduled message turns into at most one chat message, however         *)
(* handlers, worker, lost statements and crashes interleave, unless its row *)
(* was made pending again while a send was under way or after one had       *)
(* created the message.  (MarkSending is the only guard the code has.)      *)
AtMostOnceUnlessReclaimed ==
    \A id \in Ids : ~reclaimed[id] => posts[id] <= 1

(* Nothing is lost: a row leaves the table only after its chat message was  *)
(* created or by a user's DELETE, whatever failed on the way.               *)
GoneOnlyIfSentOrDeleted ==
    \A id \in Ids : rows[id].status = "gone" => posts[id] > 0 \/ deleted[id]

(* What the user is shown as still queued or as failed has not been sent:   *)
(* a retry, an edit or a recovery never queues a message that is out (with  *)
(* the exception above).                                                    *)
QueuedMeansUnsent ==
    \A id \in Ids : ~reclaimed[id] /\ rows[id].status \in {"pending", "failed"}
                      => posts[id] = 0

(* The strengthening that makes the three invariants above inductive.  Only *)
(* a holder sees its message posted; a row that is not in "sending" (or out *)
(* of the table) has no holder and has not been posted.                     *)
OneHolder(id) == \A p, q \in Procs : Holds(p, id) /\ Holds(q, id) => p = q
HeldIsClaimed(id) ==
    \A p \in Procs : Holds(p, id) => rows[id].status \in {"sending", "gone"}
SentIsClaimed(id) ==
    posts[id] # 0 => posts[id] = 1 /\ rows[id].status \in {"sending", "gone"}
PostedMeansSent(id) ==
    \A p \in Procs : Holds(p, id) => (pc[p] = "posted" <=> posts[id] # 0)

ClaimInv(id) == OneHolder(id) /\ HeldIsClaimed(id) /\ SentIsClaimed(id)
                  /\ PostedMeansSent(id)

PostedIsCounted == \A p \in Procs : pc[p] = "posted" => posts[loc[p].id] # 0
DeletesBorn == \A r \in Requests : pc[r] = "delete" => rows[loc[r].id].status # "unborn"

IInv == /\ TypeOK
        /\ \A id \in Ids : ~reclaimed[id] => ClaimInv(id)
        /\ PostedIsCounted
        /\ DeletesBorn
        /\ GoneOnlyIfSentOrDeleted

-----------------------------------------------------------------------------
\* Where a message is, for its user: on its way as long as somebody holds it,
\* stranded if nobody does who claimed it.  The outbox has no stage "astray":
\* sent twice, sent and still in the queue, or gone though neither sent nor
\* deleted by its user.
Standing == [unborn |-> "new", pending |-> "queued", sending |-> "stranded",
             failed |-> "failed", gone |-> "withdrawn"]
Held(id) == \E p \in Procs : Holds(p, id)
Astray(id) == \/ posts[id] > 1
              \/ posts[id] = 1 /\ rows[id].status \notin {"sending", "gone"}
              \/ posts[id] = 0 /\ rows[id].status = "gone" /\ ~deleted[id]
Stage(id) == IF reclaimed[id] THEN "loose"
             ELSE IF Astray(id) THEN "astray"
             ELSE IF posts[id] = 1 THEN "sent"
             ELSE IF ~Held(id) THEN Standing[rows[id].status]
             ELSE IF rows[id].status = "gone" THEN "recalled" ELSE "sending"

Ledger == [id \in Ids |-> Stage(id)]

Promise == INSTANCE Outbox WITH state <- Ledger

(* Handlers and worker together are an outbox: whatever interleaves, fails  *)
(* or crashes, a message is claimed before it is sent, is delivered by one  *)
(* send, is never queued, failed or sent again afterwards, comes back from  *)
(* "failed" only by an edit and vanishes only by its user's DELETE -- until *)
(* a claim is wrongly taken for dead.                                       *)
OutboxKept == Promise!Spec

-----------------------------------------------------------------------------
(* What the documentation and comments say, and the code does not keep      *)
(* (README, section 4).                                                     *)

(* A message that has been sent is not sent again (scheduled_message.go:319 *)
(* "Atomically claim the message to prevent the worker from also sending    *)
(* it").  An edit that read the row before the claim and writes after it    *)
(* puts the row back to pending.                                            *)
SentOnce == \A id \in Ids : posts[id] <= 1

-----------------------------------------------------------------------------
(* A due message is eventually sent, given up as failed, or taken out of    *)
(* the queue by its user: no claim that a crash or a failed statement left  *)
(* behind blocks it for ever.                                               *)
DueMessageSettles ==
    \A id \in Ids :
      rows[id].status \in {"pending", "sending"} /\ rows[id].due
        ~> \/ rows[id].status \in {"failed", "gone"}
           \/ ~rows[id].due

=============================================================================
