---------------------------- MODULE ChannelList ----------------------------
(***************************************************************************)
(* One channel's row in a user's channel list: the cached row that events  *)
(* (sse/cacheUpdaters.ts), the answers to the user's own requests and      *)
(* their optimistic updates (hooks/useChannels.ts), and refetches all      *)
(* write to, next to the row that the server's query would answer          *)
(* (channel/repository.go).  The page marks the channel as read by itself  *)
(* two seconds after it last changed (pages/ChannelPage.tsx).              *)
(*                                                                         *)
(* The row is a set: empty while the channel is not listed.  Every change  *)
(* of the server puts an entry in the stream, also one that no event tells *)
(* this client of, so that a place in the stream is a time.  A handler     *)
(* commits its change and broadcasts it later; the handlers of two requests*)
(* do not wait for each other, and what they broadcast in another order    *)
(* than they committed it in is marked as crossed.  skewed and dipped are  *)
(* history: what was handled since the last sound fetch was not enough to  *)
(* know the server's row; the cached count has been other than the rendered*)
(* one since the effect of ChannelPage last ran.                           *)
(***************************************************************************)
EXTENDS Integers, Sequences, FiniteSets

CONSTANT
    Habits       \* bounds: a behaviour makes those of the user's requests, each
                 \* of them once at a time, those changes by others, and so
                 \* many changes of the server, that one of these says

Starring == {"star", "unstar"}
Reads == {"read", "readAll", "unread"}
Clicks == Reads \cup {"join", "leave", "archive", "update"}
Others == {"create", "post", "delete", "type", "archive", "add", "read"}

ASSUME ListAssumption ==
    Habits \subseteq [asks : SUBSET (Starring \cup Clicks),
                      others : SUBSET Others, changes : Nat]

VARIABLES
    chan,     \* server: the channel
    mine,     \* server: the user's membership
    log,      \* server: the channel's messages
    passed,   \* client: the entries of the stream that have passed
    stream,   \* the entries on their way
    sent,     \* so many of them, the first ones, have been broadcast
    row,      \* client: the cached row
    fetch,    \* client: the fetch of the list under way
    failed,   \* client: the last fetch failed
    reqs,     \* client: the requests under way
    viewing,  \* client: the channel is open and at its bottom
    habit,    \* what this behaviour is bound to, constant
    rendered, \* client: the count and the screen that the page last showed
    timer,    \* client: markAsReadTimerRef: armed, off, or off after a failure
    skewed, dipped

server == <<chan, mine, log>>
line == <<passed, stream, sent>>
page == <<rendered, timer, dipped>>
client == <<row, fetch, failed, reqs, viewing, page>>
vars == <<server, line, client, skewed, habit>>

NotMember == [member |-> FALSE, lastRead |-> 0, starred |-> FALSE]
NoFetch == [stage |-> "none"]
Asked == [stage |-> "asked"]
Now == passed + Len(stream)

-----------------------------------------------------------------------------
(* The server: the row its query answers, and its changes. *)

\* Deleted messages do not count; the user's own do.
UnreadAfter(id) ==
    Cardinality({i \in DOMAIN log : i > id /\ log[i] \in {"other", "own"}})

Listed == chan.state = "open" /\ (chan.type = "public" \/ mine.member)

ServerRow ==
    IF Listed THEN {[unread |-> UnreadAfter(mine.lastRead), type |-> chan.type,
                     lastRead |-> mine.lastRead, starred |-> mine.starred,
                     member |-> mine.member]}
    ELSE {}

\* A change goes into the stream.  at: the time of one that a request of this
\* client asked for, which waits for the broadcast, or 0.
Emit(e) ==
    /\ Now < habit.changes
    /\ stream' = Append(stream, e)
    /\ UNCHANGED <<passed, sent>>

Silent == [kind |-> "unsent", crossed |-> FALSE, at |-> 0]
OfMessage(by) == [kind |-> "message", crossed |-> FALSE, at |-> 0, by |-> by]
OfRead(id, exact, at) ==
    [kind |-> "read", crossed |-> FALSE, at |-> at, id |-> id, exact |-> exact]
OfChannel(kind, type, at) ==
    [kind |-> kind, crossed |-> FALSE, at |-> at, type |-> type]

CreateChannel(type) ==
    /\ chan.state = "none"
    /\ chan' = [state |-> "open", type |-> type]
    /\ Emit(OfChannel("created", type, 0))
    /\ UNCHANGED <<mine, log>>

\* by: another user, this user, or another user's reply in a thread that is
\* also sent to the channel, which the query does not count.  A system message
\* (a channel's new type, a join, if the workspace wants it) is another user's:
\* a statement and a broadcast of its own.
PostMessage(by) ==
    /\ chan.state = "open" /\ (by = "own" => mine.member)
    /\ log' = IF by = "reply" THEN log ELSE Append(log, by)
    /\ Emit(OfMessage(by))
    /\ UNCHANGED <<chan, mine>>

\* The row of a message that goes is not touched by message.deleted.
DeleteMessage(i) ==
    /\ i \in DOMAIN log /\ log[i] \in {"other", "own"}
    /\ log' = [log EXCEPT ![i] = "gone"]
    /\ Emit(Silent)
    /\ UNCHANGED <<chan, mine>>

\* The whole row is written, with the type asked for or, when the request is
\* about another column, the one that was read before.
SetType(type, at) ==
    /\ chan.state # "none"
    /\ chan' = [chan EXCEPT !.type = type]
    /\ Emit(OfChannel("updated", type, at))
    /\ UNCHANGED <<mine, log>>

Archive(at) ==
    /\ chan.state = "open"
    /\ chan' = [chan EXCEPT !.state = "archived"]
    /\ Emit(OfChannel("archived", chan.type, at))
    /\ UNCHANGED <<mine, log>>

\* GetPreviousMessageID, and GetLatestMessageID.
LatestBefore(id) ==
    LET live == {i \in DOMAIN log : i < id /\ log[i] \in {"other", "own"}}
    IN  IF live = {} THEN 0 ELSE CHOOSE i \in live : \A j \in live : j <= i

LatestMessage == LatestBefore(Len(log) + 1)

\* last_read becomes an id that was read before; exact: nothing counts after
\* it, by now.
ReadUpTo(id, at) ==
    /\ mine' = IF mine.member THEN [mine EXCEPT !.lastRead = id] ELSE mine
    /\ Emit(OfRead(id, mine.member /\ UnreadAfter(id) = 0, at))
    /\ UNCHANGED <<chan, log>>

\* A membership is made afresh, and deleted with its star and last_read.  One
\* who is added by somebody else is not told.
SetMember(yes) ==
    /\ mine' = IF yes /\ mine.member THEN mine
               ELSE [NotMember EXCEPT !.member = yes]
    /\ Emit(Silent)
    /\ UNCHANGED <<chan, log>>

SetStar(yes) ==
    /\ mine' = [mine EXCEPT !.starred = yes]
    /\ Emit(Silent)
    /\ UNCHANGED <<chan, log>>

\* What others do, and this user on another device.
Elsewhere ==
    /\ \/ /\ "create" \in habit.others
          /\ \E type \in {"public", "private"} : CreateChannel(type)
       \/ /\ "post" \in habit.others
          /\ \E by \in {"other", "own", "reply"} : PostMessage(by)
       \/ "delete" \in habit.others /\ \E i \in DOMAIN log : DeleteMessage(i)
       \/ /\ "type" \in habit.others
          /\ \E type \in {"public", "private"} : SetType(type, 0)
       \/ "archive" \in habit.others /\ Archive(0)
       \/ /\ "add" \in habit.others
          /\ chan.state = "open" /\ ~mine.member /\ SetMember(TRUE)
       \/ /\ "read" \in habit.others /\ log # <<>>
          /\ \E id \in 0..Len(log) : ReadUpTo(id, 0)
    /\ UNCHANGED <<client, skewed>>

\* All of the user's clients hear of a reading position, members of a private
\* channel and of messages, the whole workspace of a public channel.
Told(e) ==
    \/ e.kind = "read" \/ mine.member
    \/ e.kind \in {"created", "updated", "archived"} /\ e.type = "public"

\* A handler broadcasts the change at k: before those that were committed
\* earlier and not broadcast yet.  They cross, unless they say the same.
Announce(k) ==
    LET region == (sent + 1)..k
        crossed == \E i \in region : stream[i] # stream[k]
        Marked(e) == [e EXCEPT !.crossed = @ \/ crossed]
        first == IF Told(stream[k]) THEN stream[k] ELSE Silent
    IN  /\ stream[k].kind = "unsent" => k = sent + 1
        /\ stream' = [i \in DOMAIN stream |->
                         IF i \notin region THEN stream[i]
                         ELSE IF i = sent + 1 THEN Marked(first)
                         ELSE Marked(stream[i - 1])]
        /\ sent' = sent + 1
        /\ UNCHANGED <<server, passed, client, skewed>>

-----------------------------------------------------------------------------
(* The client.  What writes to the cached row is on the screen with the    *)
(* next render; the effect of ChannelPage runs if the count or the screen  *)
(* is not what it was at the render before.                                *)

Unread(r) == IF r = {} THEN 0 ELSE (CHOOSE x \in r : TRUE).unread

Show(r) ==
    /\ row' = r
    /\ dipped' = (dipped \/ Unread(r) # rendered.unread)
    /\ UNCHANGED <<viewing, rendered, timer>>

\* Mutant of Reruns: the timer is left alone when the channel is left.
RerunsForCount(seen) == seen.unread # rendered.unread

\* The dependencies of the effect.
Reruns(seen) == seen # rendered

Render ==
    LET seen == [unread |-> Unread(row), viewing |-> viewing]
    IN  /\ seen # rendered /\ rendered' = seen
        /\ IF Reruns(seen)
           THEN /\ timer' = IF viewing /\ seen.unread > 0 THEN "armed"
                            ELSE "off"
                /\ dipped' = FALSE
           ELSE UNCHANGED <<timer, dipped>>
        /\ UNCHANGED <<server, line, row, fetch, failed, reqs, viewing,
                       skewed>>

Pass == /\ sent > 0 /\ sent' = sent - 1
        /\ stream' = Tail(stream) /\ passed' = passed + 1
        /\ UNCHANGED <<server, fetch, failed, reqs>>
Is(kind) == sent > 0 /\ Head(stream).kind = kind

Counts(by) == by # "own"

\* handleNewMessage: one more, unless it is the user's own.
HandleMessage ==
    /\ Is("message") /\ Pass
    /\ Show({[r EXCEPT !.unread = IF Counts(Head(stream).by) THEN @ + 1
                                  ELSE @] : r \in row})
    /\ skewed' = (skewed \/ Head(stream).crossed \/ Head(stream).by # "other")

\* Mutant of ReadRow: the count is left to the next fetch.
ReadRowOnly(r, id) == [r EXCEPT !.lastRead = id]
ReadRow(r, id) == [r EXCEPT !.unread = 0, !.lastRead = id]

\* handleChannelRead, for a message marked as unread too.
HandleRead ==
    /\ Is("read") /\ Pass
    /\ Show({ReadRow(r, Head(stream).id) : r \in row})
    /\ skewed' = (skewed \/ Head(stream).crossed \/ ~Head(stream).exact)

\* handleChannelUpdated: one who is no member loses a private channel.
HandleUpdated ==
    /\ Is("updated") /\ Pass
    /\ Show({r \in {[x EXCEPT !.type = Head(stream).type] : x \in row} :
               r.type = "public" \/ r.member})
    /\ skewed' = (skewed \/ Head(stream).crossed \/ row = {})

\* handleChannelArchived.
HandleArchived ==
    /\ Is("archived") /\ Pass
    /\ Show({})
    /\ skewed' = (skewed \/ Head(stream).crossed)

Added(r) == IF row = {} THEN {r} ELSE row

\* handleChannelCreated, also for one that a fetch has brought already.
HandleCreated ==
    /\ Is("created") /\ Pass
    /\ Show(Added([unread |-> 0, lastRead |-> 0, starred |-> FALSE,
                   member |-> FALSE, type |-> Head(stream).type]))
    /\ skewed' = (skewed \/ Head(stream).crossed
                         \/ Head(stream).type = "private")

\* An entry without an event, or with one that is lost.
Unheard == Pass /\ Show(row) /\ skewed' = TRUE

-----------------------------------------------------------------------------
(* The fetches of the list. *)

ServerAnswersFetch ==
    /\ fetch = Asked
    /\ fetch' = [stage |-> "answered", rows |-> ServerRow, at |-> Now]
    /\ UNCHANGED <<server, line, row, failed, reqs, viewing, page, skewed>>

\* The snapshot is sound if it is as old as the last entry that has passed.
FetchArrives ==
    /\ fetch.stage = "answered"
    /\ Show(fetch.rows)
    /\ fetch' = NoFetch /\ failed' = FALSE
    /\ skewed' = (fetch.at # passed)
    /\ UNCHANGED <<server, line, reqs>>

FetchFails ==
    /\ fetch # NoFetch
    /\ fetch' = NoFetch /\ failed' = TRUE /\ skewed' = TRUE
    /\ UNCHANGED <<server, line, row, reqs, viewing, page>>

\* channels.invalidate, channel.member_added and _removed, a window's focus.
Invalidate ==
    /\ fetch' = Asked
    /\ UNCHANGED <<server, line, row, failed, reqs, viewing, page, skewed>>

-----------------------------------------------------------------------------
(* The user's requests: sent, done by the server, answered. *)

\* prev is the row to go back to.
Request(op, prev) == [op |-> op, stage |-> "sent", at |-> 0, id |-> 0,
                      exact |-> FALSE, type |-> "public", prev |-> prev]

\* at: when the server did it; id: the message read up to; exact: nothing
\* counts after that message; type: the channel's.
Answer(req, stage, at, id, exact, type) ==
    [op |-> req.op, stage |-> stage, at |-> at, id |-> id, exact |-> exact,
     type |-> type, prev |-> req.prev]

Send(req) == /\ ~\E r \in reqs : r.op = req.op
             /\ req.op \in habit.asks
             /\ reqs' = reqs \cup {req}
             /\ UNCHANGED <<server, line, failed>>

\* Star and unstar: the list under way is cancelled, and the star shown.
ClickStar(yes) ==
    /\ row # {} /\ \A r \in row : r.member /\ r.starred # yes
    /\ Send(Request(IF yes THEN "star" ELSE "unstar", row))
    /\ fetch' = NoFetch
    /\ Show({[r EXCEPT !.starred = yes] : r \in row})
    /\ skewed' = TRUE

Click(op) ==
    /\ row # {} /\ \A r \in row : op = "join" => ~r.member
    /\ Send(Request(op, {}))
    /\ UNCHANGED <<fetch, row, viewing, page, skewed>>

\* Two seconds at the bottom without a rendered change of the count.
AutoMarkAsRead == /\ timer = "armed" /\ timer' = "off"
                  /\ Send(Request("read", {}))
                  /\ UNCHANGED <<fetch, row, viewing, rendered, dipped,
                                 skewed>>

OpenOrLeave == /\ row # {} \/ viewing
               /\ "read" \in habit.asks
               /\ viewing' = ~viewing
               /\ UNCHANGED <<server, line, row, fetch, failed, reqs, page,
                              skewed>>

\* Mark all as read goes through the channels the user is a member of.
HasToRead(op) == LatestMessage # 0 /\ (op = "readAll" => mine.member)

Serve(req, stage, at, id, exact, type) ==
    /\ reqs' = (reqs \ {req}) \cup {Answer(req, stage, at, id, exact, type)}
    /\ UNCHANGED <<row, fetch, failed, viewing, page, skewed>>

AllRead(id) == mine.member /\ UnreadAfter(id) = 0

\* The handler looks for the message to read up to.  There is none; or mark all
\* as read goes on without this channel, for an error.
ServerFinds(req) ==
    /\ req.stage = "sent" /\ req.op \in Reads
    /\ \/ req.op # "unread" /\ HasToRead(req.op)
            /\ Serve(req, "found", 0, LatestMessage, FALSE, "public")
       \/ req.op = "unread" /\ \E i \in DOMAIN log :
              Serve(req, "found", 0, LatestBefore(i), FALSE, "public")
       \/ req.op # "unread" /\ (HasToRead(req.op) => req.op = "readAll")
            /\ Serve(req, "done", Now, 0,
                     /\ AllRead(mine.lastRead)
                     /\ req.op = "read" => mine.lastRead = 0, "public")
    /\ UNCHANGED <<server, line>>

\* ... and writes it down, whatever has been posted since.
ServerMarks(req) ==
    /\ req.stage = "found"
    /\ ReadUpTo(req.id, Now + 1)
    /\ Serve(req, "written", Now + 1, req.id, AllRead(req.id), "public")

Does(op) ==
    \/ op = "star" /\ mine.member /\ SetStar(TRUE)
    \/ op = "unstar" /\ mine.member /\ SetStar(FALSE)
    \/ op = "join" /\ chan = [state |-> "open", type |-> "public"]
         /\ SetMember(TRUE)
    \/ op = "leave" /\ mine.member /\ SetMember(FALSE)
    \/ op = "archive" /\ Archive(Now + 1)
    \/ op = "update"
         /\ \E type \in {"public", "private"} : SetType(type, Now + 1)

ServerDoes(req) ==
    /\ req.stage = "sent" /\ Does(req.op)
    /\ Serve(req, "written", Now + 1, 0, FALSE, chan'.type)

\* The handler ends, after its broadcast.
ServerAnswers(req) ==
    /\ req.stage = "written"
    /\ ~\E i \in (sent + 1)..Len(stream) : stream[i].at = req.at
    /\ Serve(req, "done", req.at, req.id, req.exact, req.type)
    /\ UNCHANGED <<server, line>>

\* The server refuses or fails, or the request or its answer is lost.
ServerRefuses(req) ==
    /\ req.stage \in {"sent", "found", "written"}
    /\ Serve(req, "failed", 0, 0, FALSE, "public")
    /\ UNCHANGED <<server, line>>

Answered(req, stage) == /\ req.stage = stage /\ reqs' = reqs \ {req}
                        /\ UNCHANGED <<server, line>>

\* onSuccess of markAsRead and markAllAsRead: late if more has passed.
ReadSucceeds(req) ==
    /\ Answered(req, "done") /\ req.op \in {"read", "readAll"}
    /\ Show({IF req.op = "read" THEN ReadRow(r, req.id)
             ELSE [r EXCEPT !.unread = 0] : r \in row})
    /\ skewed' = (skewed \/ passed > req.at \/ ~req.exact)
    /\ UNCHANGED <<fetch, failed>>

\* onSuccess of useUpdateChannel: the answer over the cached row.
UpdateSucceeds(req) ==
    /\ Answered(req, "done") /\ req.op = "update"
    /\ Show({[r EXCEPT !.type = req.type] : r \in row})
    /\ skewed' = (skewed \/ passed > req.at)
    /\ UNCHANGED <<fetch, failed>>

\* onSuccess of join, leave, archive and mark-unread: the list again.
ChangeSucceeds(req) ==
    /\ Answered(req, "done")
    /\ req.op \in {"join", "leave", "archive", "unread"}
    /\ fetch' = Asked
    /\ UNCHANGED <<row, failed, viewing, page, skewed>>

\* No mutation is retried, these have no onError, and no timer is armed.
ChangeFails(req) ==
    /\ Answered(req, "failed") /\ req.op \notin Starring
    /\ timer' = IF req.op = "read" /\ timer = "off" THEN "failed" ELSE timer
    /\ UNCHANGED <<row, fetch, failed, viewing, rendered, dipped, skewed>>

\* Mutant of StarSettled: the list is not fetched again.
StarSettledQuietly == UNCHANGED fetch
StarSettled == fetch' = Asked

StarSucceeds(req) ==
    /\ Answered(req, "done") /\ req.op \in Starring /\ StarSettled
    /\ UNCHANGED <<row, failed, viewing, page, skewed>>

\* onError puts the whole list back as it was, onSettled fetches it again.
StarFails(req) ==
    /\ Answered(req, "failed") /\ req.op \in Starring /\ StarSettled
    /\ Show(req.prev)
    /\ skewed' = TRUE
    /\ UNCHANGED failed

Settle == \E req \in reqs :
    \/ ServerFinds(req) \/ ServerMarks(req) \/ ServerDoes(req)
    \/ ServerAnswers(req) \/ ServerRefuses(req)
    \/ ReadSucceeds(req) \/ UpdateSucceeds(req)
    \/ ChangeSucceeds(req) \/ ChangeFails(req)
    \/ StarSucceeds(req) \/ StarFails(req)

Init ==
    /\ chan \in [state : {"none", "open"}, type : {"public"}]
    /\ mine \in [member : BOOLEAN, lastRead : {0}, starred : {FALSE}]
    /\ chan.state = "none" => ~mine.member
    /\ habit \in Habits
    /\ log = <<>> /\ passed = 0 /\ stream = <<>> /\ sent = 0
    /\ row = ServerRow /\ fetch = NoFetch /\ failed = FALSE /\ reqs = {}
    /\ viewing = FALSE /\ rendered = [unread |-> 0, viewing |-> FALSE]
    /\ timer = "off" /\ skewed = FALSE /\ dipped = FALSE

Step ==
    \/ Elsewhere
    \/ \E k \in (sent + 1)..Len(stream) : Announce(k)
    \/ HandleMessage \/ HandleRead \/ HandleUpdated \/ HandleArchived
    \/ HandleCreated \/ Unheard
    \/ ServerAnswersFetch \/ FetchArrives \/ FetchFails \/ Invalidate
    \/ \E yes \in BOOLEAN : ClickStar(yes)
    \/ \E op \in Clicks : Click(op)
    \/ Render \/ AutoMarkAsRead \/ OpenOrLeave
    \/ Settle

Next == Step /\ UNCHANGED habit

Spec == Init /\ [][Next]_vars

-----------------------------------------------------------------------------
(* Properties. *)

Ids == 0..habit.changes
Rows == [unread : 0..(2 * habit.changes), lastRead : Ids, starred : BOOLEAN,
         member : BOOLEAN, type : {"public", "private"}]

\* The variables have their types; at most one row is cached.
TypeOK ==
    /\ chan.state \in {"none", "open", "archived"}
    /\ chan.type \in {"public", "private"}
    /\ mine \in [member : BOOLEAN, lastRead : Ids, starred : BOOLEAN]
    /\ log \in Seq({"other", "own", "gone"})
    /\ passed \in Ids /\ Now \in Ids /\ sent \in 0..Len(stream)
    /\ row \subseteq Rows /\ Cardinality(row) <= 1
    /\ fetch.stage \in {"none", "asked", "answered"}
    /\ {failed, viewing, skewed, dipped} \subseteq BOOLEAN
    /\ rendered \in [unread : 0..(2 * habit.changes), viewing : BOOLEAN]
    /\ timer \in {"armed", "off", "failed"}
    /\ {r.op : r \in reqs} \subseteq habit.asks

\* Nothing is on its way to the client.
Still == stream = <<>> /\ fetch = NoFetch /\ reqs = {}

\* The row that handlers and answers made step by step is the one the server
\* would answer, unless since the last sound fetch something was handled that
\* they cannot account for: an own message, a reply sent to the channel, a
\* deletion, a message marked as unread, a mark as read that a message has
\* overtaken, changes broadcast in another order than they were made, an answer
\* that comes after events later than its own, a fetch older or newer than the
\* events around it, a change that is not sent to the client, or an event that
\* is lost.
RowFollowsServer == Still /\ ~skewed => row = ServerRow

\* However stars and unstars, their failures, lost answers, rollbacks and
\* other refetches overlap, the star shown in the end is the server's, unless
\* the last fetch failed or the row does not even know of the membership.  A
\* user who also leaves the channel may lose the answer that says so, and with
\* it the news that the star is gone.
StarSettles ==
    Still /\ ~failed /\ "leave" \notin habit.asks =>
        \A r, s \in row \cup ServerRow :
          r.member = s.member => r.starred = s.starred

\* While the open channel shows unread messages at its bottom, something is
\* left that will mark them as read, the timer or a request under way, unless
\* the last request failed or the count has gone and come back between two
\* renders: no other change of the count or of the screen leaves the timer off.
MarkIsOnItsWay ==
    rendered.viewing /\ rendered.unread > 0 /\ ~dipped =>
        /\ Unread(row) = rendered.unread
        /\ timer # "off" \/ \E r \in reqs : r.op = "read"

-----------------------------------------------------------------------------
(* What makes StarSettles inductive. *)

\* In the light of a membership m.
Marred(R, m) == \E r \in R : r.member = m.member /\ r.starred # m.starred

StarAsked == \E req \in reqs : req.op \in Starring

\* A copy of the row: one at most, starred only with a membership, and with one
\* only if the server has it.
CopyOK(R, m) ==
    /\ \A r, s \in R : r = s
    /\ \A r \in R : (r.starred => r.member) /\ (r.member => m.member)

CopiesOK ==
    /\ mine.starred => mine.member
    /\ CopyOK(row, mine)
    /\ fetch.stage = "answered" => CopyOK(fetch.rows, mine)
    /\ \A req \in reqs : req.op \in Starring => CopyOK(req.prev, mine)

\* A wrong star has an answer to wait for, and that one's refetch.
StarIsOnItsWay ==
    /\ fetch.stage = "answered" /\ Marred(fetch.rows, mine) => StarAsked
    /\ Marred(row, mine) => StarAsked \/ fetch # NoFetch \/ failed

StarInv == "leave" \notin habit.asks => CopiesOK /\ StarIsOnItsWay
=============================================================================
