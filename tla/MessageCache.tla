---------------------------- MODULE MessageCache ----------------------------
(***************************************************************************)
(* One client's cached copy of a channel and of one of its threads, kept   *)
(* up to date by four parties that do not wait for each other: the event   *)
(* stream (packages/shared/src/sse/cacheUpdaters.ts), the answers to the   *)
(* client's own requests and their optimistic updates                      *)
(* (packages/shared/src/hooks/useMessages.ts, and ThreadPanel.tsx for the  *)
(* reactions of a thread), and the snapshots that refetches install.       *)
(*                                                                         *)
(* A message is a model value; of its data the model keeps the version of  *)
(* its text, its reply count, its deletion mark and who reacted (with one  *)
(* emoji).  A handler of the server commits its change, reads the message  *)
(* again if the event carries it, and broadcasts, in steps of its own; the *)
(* handlers of two requests do not wait for each other.  The list is one   *)
(* page.  counted, skewL, skewT and the why of an event are history: the   *)
(* replies the cached reply count stands for, the names of what has led    *)
(* the cached list or thread astray since it was last fetched, and of what *)
(* has made an event say what is no longer so.                             *)
(***************************************************************************)
EXTENDS Integers, Sequences, FiniteSets

CONSTANTS
    Parent,      \* the message the thread hangs on, posted before the start
    Roots,       \* the other top-level messages that may be posted
    Replies,     \* the replies to Parent that may be posted
    Broadcast,   \* the replies also sent to the channel
    Mine,        \* the messages this client's user writes
    Me, Other,   \* this client's user and everybody else
    MaxOps,      \* bound on the changes asked of the server, by anyone
    MaxFetches,  \* bound on the fetches the client starts
    MaxPending   \* bound on this client's requests in flight

ASSUME MessageCacheAssumption ==
    /\ Parent \notin Roots \cup Replies
    /\ Roots \cap Replies = {}
    /\ Broadcast \subseteq Replies
    /\ MaxOps \in Nat /\ MaxPending \in Nat /\ MaxFetches \in Nat

Msgs == {Parent} \cup Roots \cup Replies
Users == {Me, Other}

VARIABLES
    born,     \* server: the messages posted, oldest first
    gone,     \* server: the messages deleted
    text,     \* server: the version of each message's text
    reacts,   \* server: who reacted to each message
    ops,      \* the number of changes asked for
    unsent,   \* the events that the handlers have yet to broadcast, in the
              \* order of their commits
    wire,     \* events on their way to this client, oldest first
    list,     \* cache of the channel's messages, newest first
    thread,   \* cache of the thread's replies, oldest first
    pending,  \* this client's requests in flight
    lf, tf,   \* the fetch of the list and of the thread
    fetches,  \* the number of fetches started
    counted, skewL, skewT

server == <<born, gone, text, reacts>>
feed == <<unsent, wire>>
ghosts == <<counted, skewL, skewT>>
vars == <<server, ops, feed, list, thread, pending, lf, tf, fetches, ghosts>>

-----------------------------------------------------------------------------
(* The server, and the two queries the client fetches. *)

Born == {born[i] : i \in DOMAIN born}
LiveReplies == {r \in Replies : r \in Born /\ r \notin gone}

Record(m, version, rc, dead, who) ==
    [id |-> m, text |-> version, rc |-> rc, dead |-> dead, reac |-> who]

Row(m) == Record(m, text[m], IF m = Parent THEN Cardinality(LiveReplies) ELSE 0,
                 m \in gone, reacts[m])

Reversed(s) == [i \in DOMAIN s |-> s[Len(s) + 1 - i]]

\* The k-th of a set of positions; what a sequence holds at such a set.
Nth(S, k) == CHOOSE j \in S : Cardinality({i \in S : i <= j}) = k
Picked(s, keep) == [k \in 1..Cardinality(keep) |-> s[Nth(keep, k)]]

ChannelRows ==
    LET ids == Picked(born, {i \in DOMAIN born :
                                 born[i] \notin Replies \ Broadcast})
    IN  Reversed([i \in DOMAIN ids |-> Row(ids[i])])

ThreadRows ==
    LET ids == Picked(born, {i \in DOMAIN born : born[i] \in Replies})
    IN  [i \in DOMAIN ids |-> Row(ids[i])]

\* An event, before the message has been read again; live is the history
\* behind the reply count, by the request of this client it answers (or 0).
Event(kind, m, who, no) ==
    [kind |-> kind, m |-> m, who |-> who, by |-> no, text |-> 0, dead |-> FALSE,
     live |-> {}, ready |-> kind \notin {"new", "edit"}, why |-> {}]

\* The handler will broadcast e when it gets there.
Promise(e) == unsent' = Append(unsent, e) /\ UNCHANGED wire

\* One more change is asked for.
Spend == ops < MaxOps /\ ops' = ops + 1

CommitNew(m, no) ==
    /\ m \notin Born
    /\ Promise(Event("new", m, Me, no))
    /\ born' = Append(born, m)
    /\ UNCHANGED <<gone, text, reacts>>

CommitEdit(m, no) ==
    /\ m \in Born \ gone
    /\ Promise(Event("edit", m, Me, no))
    /\ text' = [text EXCEPT ![m] = @ + 1]
    /\ UNCHANGED <<born, gone, reacts>>

CommitDelete(m, no) ==
    /\ m \in Born \ gone
    /\ Promise(Event("delete", m, Me, no))
    /\ gone' = gone \cup {m}
    /\ UNCHANGED <<born, text, reacts>>

CommitReact(m, u, no) ==
    /\ m \in Born
    /\ u \notin reacts[m]
    /\ Promise(Event("react", m, u, no))
    /\ reacts' = [reacts EXCEPT ![m] = @ \cup {u}]
    /\ UNCHANGED <<born, gone, text>>

CommitUnreact(m, u, no) ==
    /\ m \in Born
    /\ u \in reacts[m]
    /\ Promise(Event("unreact", m, u, no))
    /\ reacts' = [reacts EXCEPT ![m] = @ \ {u}]
    /\ UNCHANGED <<born, gone, text>>

-----------------------------------------------------------------------------
(* What the handlers do to a loaded page of messages. *)

Has(s, m) == \E i \in DOMAIN s : s[i].id = m
At(s, m) == s[CHOOSE i \in DOMAIN s : s[i].id = m]
Changed(s, m, Op(_)) ==
    [i \in DOMAIN s |-> IF s[i].id = m THEN Op(s[i]) ELSE s[i]]

\* Mutant of Without: the deleted reply stays.
WithoutNothing(s, m) == s

Without(s, m) == Picked(s, {i \in DOMAIN s : s[i].id # m})

\* Mutant of Prepended: nobody looks whether the message is there.
PrependedBlindly(s, r) == <<r>> \o s

\* Top of the list, unless the message is there already.
Prepended(s, r) == IF Has(s, r.id) THEN s ELSE <<r>> \o s

\* End of the thread.
Appended(s, r) == Append(s, r)

CountUp(s) == Changed(s, Parent, LAMBDA x : [x EXCEPT !.rc = @ + 1])

CountDown(s) ==
    Changed(s, Parent, LAMBDA x : [x EXCEPT !.rc = IF @ = 0 THEN 0 ELSE @ - 1])

\* Mutant of Deleted: no placeholder for a message with replies.
DeletedOutright(s, m) == Picked(s, {i \in DOMAIN s : s[i].id # m})

\* A message with replies stays as a placeholder, one without is filtered out.
Deleted(s, m) ==
    Picked(Changed(s, m, LAMBDA x : [x EXCEPT !.dead = TRUE]),
           {i \in DOMAIN s : s[i].id # m \/ s[i].rc > 0})

\* A deletion mark that the event does not carry stays as it is.
Merged(s, m, version, rc, dead) ==
    Changed(s, m, LAMBDA x : [x EXCEPT !.text = version, !.rc = rc,
                                       !.dead = @ \/ dead])
Reacted(s, m, u) == Changed(s, m, LAMBDA x : [x EXCEPT !.reac = @ \cup {u}])
Unreacted(s, m, u) == Changed(s, m, LAMBDA x : [x EXCEPT !.reac = @ \ {u}])

Loaded(s) == [ok |-> TRUE, msgs |-> s]
NotLoaded == [ok |-> FALSE, msgs |-> <<>>]
\* setQueryData's updater returns an absent query unchanged.
Apply(q, Op(_)) == IF q.ok THEN Loaded(Op(q.msgs)) ELSE q
InThread(m) == thread.ok /\ Has(thread.msgs, m)

-----------------------------------------------------------------------------
(* History: why a cache may differ from the server. *)

Flag(name, condition) == IF condition THEN {name} ELSE {}

\* e says something of what f is about: of the same message, or the parent's
\* reply count while f brings or takes a reply.  An edited message that has not
\* been read again says nothing yet.
Touches(e, f) ==
    /\ e.m = f.m \/ (e.kind = "edit" /\ e.m = Parent /\ f.m \in Replies)
    /\ e.kind = "edit" => e.ready
\* f goes out before the events of s up to the k-th that it touches, or never.
Marked(s, k, f, name) ==
    [i \in DOMAIN s |-> IF i <= k /\ Touches(s[i], f)
                        THEN [s[i] EXCEPT !.why = @ \cup {name}] ELSE s[i]]
Cut(s, k) == [i \in 1..(Len(s) - 1) |-> IF i < k THEN s[i] ELSE s[i + 1]]

\* The first causes are kept.
Blame(skew, names) == IF skew = {} THEN names ELSE skew

\* m goes to the top although something newer is cached, or to the end of
\* the thread although ...
BornAfter(m, x) ==
    \E i, j \in DOMAIN born : i < j /\ born[i] = m /\ born[j] = x
Misplaced(s, m) == ~Has(s, m) /\ \E i \in DOMAIN s : BornAfter(m, s[i].id)

CountsParent == list.ok /\ Has(list.msgs, Parent)
HitsUp(r, skip) ==
    Flag("count", CountsParent /\ (skip <=> r \notin counted))
    \cup Flag("orphan", list.ok /\ ~Has(list.msgs, Parent))
HitsDown(r, skip) == Flag("count", CountsParent /\ (skip <=> r \in counted))

-----------------------------------------------------------------------------
(* The event handlers.  Each takes the event it handles. *)

\* A reply goes to the thread; a broadcast one to the list as well; the
\* parent's count goes up unless the thread had the reply already.
AddReply(row, why) ==
    LET r == row.id
        already == InThread(r)
        wide == r \in Broadcast
    IN  /\ thread' = IF already THEN thread
                     ELSE Apply(thread, LAMBDA s : Appended(s, row))
        /\ list' = Apply(list, LAMBDA s :
               LET s1 == IF wide THEN Prepended(s, row) ELSE s
               IN  IF already THEN s1 ELSE CountUp(s1))
        /\ counted' = IF already THEN counted ELSE counted \cup {r}
        /\ skewT' = Blame(skewT, why \cup
               Flag("order", ~already /\ thread.ok /\ Misplaced(thread.msgs, r)))
        /\ skewL' = Blame(skewL, why \cup HitsUp(r, already)
               \cup Flag("order", wide /\ list.ok /\ Misplaced(list.msgs, r)))

AddRoot(row, why) ==
    /\ list' = Apply(list, LAMBDA s : Prepended(s, row))
    /\ skewL' = Blame(skewL, why \cup
           Flag("order", list.ok /\ Misplaced(list.msgs, row.id)))
    /\ skewT' = Blame(skewT, why)
    /\ UNCHANGED <<thread, counted>>

HandleNewMessage(e) ==
    LET row == Record(e.m, e.text, 0, e.dead, {})
    IN  IF e.m \in Replies THEN AddReply(row, e.why) ELSE AddRoot(row, e.why)

\* Only the lists are updated: a reply edited elsewhere keeps its old text in
\* the thread.
HandleMessageUpdated(e) ==
    /\ list' = Apply(list, LAMBDA s :
           Merged(s, e.m, e.text, Cardinality(e.live), e.dead))
    /\ counted' = IF e.m = Parent THEN e.live ELSE counted
    /\ skewT' = Blame(skewT, e.why \cup Flag("deaf", InThread(e.m)))
    /\ skewL' = Blame(skewL, e.why)
    /\ UNCHANGED thread

HandleMessageDeleted(e) ==
    LET reply == e.m \in Replies
        handled == reply /\ thread.ok /\ ~Has(thread.msgs, e.m)
        count == reply /\ ~handled
    IN  /\ list' = Apply(list, LAMBDA s :
               IF count THEN CountDown(Deleted(s, e.m)) ELSE Deleted(s, e.m))
        /\ thread' = Apply(thread, LAMBDA s : Without(s, e.m))
        /\ counted' = IF count THEN counted \ {e.m} ELSE counted
        /\ skewL' = Blame(skewL, e.why \cup
               IF reply THEN HitsDown(e.m, handled) ELSE {})
        /\ skewT' = Blame(skewT, e.why)

HandleReactionAdded(e) ==
    /\ list' = Apply(list, LAMBDA s : Reacted(s, e.m, e.who))
    /\ skewT' = Blame(skewT, e.why \cup Flag("deaf", InThread(e.m)))
    /\ skewL' = Blame(skewL, e.why)
    /\ UNCHANGED <<thread, counted>>

HandleReactionRemoved(e) ==
    /\ list' = Apply(list, LAMBDA s : Unreacted(s, e.m, e.who))
    /\ skewT' = Blame(skewT, e.why \cup Flag("deaf", InThread(e.m)))
    /\ skewL' = Blame(skewL, e.why)
    /\ UNCHANGED <<thread, counted>>

\* A fetch that was answered before this event reached the client overtakes
\* it, unless the event is one of those the answer already contains.
Overtaken(f) ==
    IF f.stage = "idle" THEN f
    ELSE IF f.ahead = 0 THEN [f EXCEPT !.late = @ \cup {"overwritten"}]
    ELSE [f EXCEPT !.ahead = @ - 1]

ReceiveEvent ==
    /\ wire # <<>>
    /\ LET e == Head(wire)
       IN  \/ e.kind = "new" /\ HandleNewMessage(e)
           \/ e.kind = "edit" /\ HandleMessageUpdated(e)
           \/ e.kind = "delete" /\ HandleMessageDeleted(e)
           \/ e.kind = "react" /\ HandleReactionAdded(e)
           \/ e.kind = "unreact" /\ HandleReactionRemoved(e)
    /\ wire' = Tail(wire)
    /\ lf' = Overtaken(lf)
    /\ tf' = Overtaken(tf)
    /\ UNCHANGED <<server, ops, unsent, pending, fetches>>

\* Something that the answer of a fetch may lack will never be told.
Missing(f, name, condition) ==
    IF f.stage = "answered" /\ condition THEN [f EXCEPT !.late = @ \cup {name}] ELSE f

\* The stream broke: what was on its way is never sent again.
LoseEvents ==
    /\ wire # <<>>
    /\ wire' = <<>>
    /\ skewL' = Blame(skewL, {"lost"})
    /\ skewT' = Blame(skewT, {"lost"})
    /\ lf' = [Missing(lf, "lost", Len(wire) > lf.ahead) EXCEPT !.ahead = 0]
    /\ tf' = [Missing(tf, "lost", Len(wire) > tf.ahead) EXCEPT !.ahead = 0]
    /\ UNCHANGED <<server, ops, unsent, list, thread, pending, fetches, counted>>

-----------------------------------------------------------------------------
(* The client's own requests. *)

Request(kind, place, m) ==
    [kind |-> kind, place |-> place, m |-> m, no |-> ops + 1, stage |-> "asked",
     text |-> 0, live |-> {}, prev |-> <<>>, had |-> {}, skew |-> {}]

NoFetch == [stage |-> "idle", msgs |-> <<>>, live |-> {}, ahead |-> 0, late |-> {}]

CanAsk(m) == /\ Spend
             /\ Cardinality(pending) < MaxPending
             /\ \A p \in pending : p.m # m

Unaltered == UNCHANGED <<list, thread, lf, tf, fetches, ghosts>>

AskSend(m) ==
    /\ CanAsk(m)
    /\ m \in Mine \ Born
    /\ pending' = pending \cup {Request("new", "list", m)}
    /\ UNCHANGED <<server, feed>> /\ Unaltered

\* What the user acts on is on the screen: in the list or in the thread.
Shown(m) == (list.ok /\ Has(list.msgs, m)) \/ InThread(m)

AskEdit(m) ==
    /\ CanAsk(m)
    /\ m \in Mine /\ Shown(m)
    /\ pending' = pending \cup {Request("edit", "list", m)}
    /\ UNCHANGED <<server, feed>> /\ Unaltered

AskDelete(m) ==
    /\ CanAsk(m)
    /\ m \in Mine /\ Shown(m)
    /\ pending' = pending \cup {Request("delete", "list", m)}
    /\ UNCHANGED <<server, feed>> /\ Unaltered

\* A reaction in the list: a fetch under way is cancelled, the list is
\* remembered, and the reaction shows at once.
AskReactInList(m) ==
    /\ CanAsk(m)
    /\ list.ok /\ Has(list.msgs, m)
    /\ LET on == Me \in At(list.msgs, m).reac
           kind == IF on THEN "unreact" ELSE "react"
       IN  /\ pending' = pending \cup
                  {[Request(kind, "list", m) EXCEPT !.prev = list.msgs, !.had = counted,
                                                 !.skew = skewL]}
           /\ list' = Apply(list, LAMBDA s :
                  IF on THEN Unreacted(s, m, Me) ELSE Reacted(s, m, Me))
    /\ lf' = NoFetch
    /\ UNCHANGED <<server, feed, thread, tf, fetches, ghosts>>

\* A reaction in the thread panel: on the parent it shows in the lists, on a
\* reply in the thread; nothing is remembered.
AskReactInPanel(m) ==
    /\ CanAsk(m)
    /\ \/ /\ m = Parent /\ list.ok /\ Has(list.msgs, m)
          /\ LET on == Me \in At(list.msgs, m).reac
             IN  /\ pending' = pending \cup
                        {Request(IF on THEN "unreact" ELSE "react", "panel", m)}
                 /\ list' = Apply(list, LAMBDA s :
                        IF on THEN Unreacted(s, m, Me) ELSE Reacted(s, m, Me))
          /\ UNCHANGED thread
       \/ /\ InThread(m)
          /\ LET on == Me \in At(thread.msgs, m).reac
             IN  /\ pending' = pending \cup
                        {Request(IF on THEN "unreact" ELSE "react", "panel", m)}
                 /\ thread' = Apply(thread, LAMBDA s :
                        IF on THEN Unreacted(s, m, Me) ELSE Reacted(s, m, Me))
          /\ UNCHANGED list
    /\ UNCHANGED <<server, feed, lf, tf, fetches, ghosts>>

Commit(kind, m, u, no) ==
    \/ kind = "new" /\ CommitNew(m, no)
    \/ kind = "edit" /\ CommitEdit(m, no)
    \/ kind = "delete" /\ CommitDelete(m, no)
    \/ kind = "react" /\ CommitReact(m, u, no)
    \/ kind = "unreact" /\ CommitUnreact(m, u, no)

\* The server commits what the request asks for.
Serve(p) ==
    /\ p.stage = "asked"
    /\ Commit(p.kind, p.m, Me, p.no)
    /\ pending' = (pending \ {p}) \cup {[p EXCEPT !.stage = "served"]}
    /\ UNCHANGED <<ops, list, thread, lf, tf, fetches, ghosts>>

\* The handler has finished: the request that e came from gets its answer,
\* which carries what the event does.
Finished(e) ==
    {IF p.no = e.by /\ p.stage = "served"
     THEN [p EXCEPT !.stage = "done", !.text = e.text, !.live = e.live]
     ELSE p : p \in pending}

\* The handler reads the message it has changed, as it is by now.  (A new
\* message that cannot be read goes out as it was written.)
Reread(k) ==
    /\ ~unsent[k].ready
    /\ LET e == unsent[k]
           now == [e EXCEPT !.ready = TRUE, !.text = text[e.m], !.dead = e.m \in gone,
                            !.live = IF e.m = Parent THEN LiveReplies ELSE {}]
       IN  \/ unsent' = [unsent EXCEPT ![k] = now]
           \/ e.kind = "new" /\ unsent' = [unsent EXCEPT ![k].ready = TRUE]
    /\ UNCHANGED <<server, ops, wire, list, thread, pending, lf, tf, fetches, ghosts>>

\* The handler broadcasts, and answers.  What other handlers committed before
\* and have not broadcast yet now comes after it.
Announce(k) ==
    /\ unsent[k].ready
    /\ wire' = Append(wire, unsent[k])
    /\ unsent' = Cut(Marked(unsent, k - 1, unsent[k], "crossed"), k)
    /\ pending' = Finished(unsent[k])
    /\ UNCHANGED <<server, ops, list, thread, lf, tf, fetches, ghosts>>

\* The handler ends without the broadcast: the attachments of a new message
\* could not be linked, an edited message not read again; the channel of an
\* edit or of a removed reaction could not be read, which the client is not
\* told; or the broadcast panicked before it came to this client.
Untold(k) ==
    /\ LET e == unsent[k]
       IN  /\ unsent' = Cut(Marked(unsent, k - 1, e, "untold"), k)
           /\ wire' = Marked(wire, Len(wire), e, "untold")
           /\ \/ UNCHANGED pending
              \/ e.ready /\ e.kind \in {"edit", "unreact"} /\ pending' = Finished(e)
    /\ skewL' = Blame(skewL, {"untold"})
    /\ skewT' = Blame(skewT, {"untold"})
    /\ lf' = Missing(lf, "untold", TRUE)
    /\ tf' = Missing(tf, "untold", TRUE)
    /\ UNCHANGED <<server, ops, list, thread, fetches, counted>>

AnswerRow(p) == Record(p.m, p.text, 0, FALSE, {})

SendSuccess(p) == /\ p.kind = "new" /\ p.m \notin Replies
                  /\ AddRoot(AnswerRow(p), {})

SendThreadReplySuccess(p) == /\ p.kind = "new" /\ p.m \in Replies
                             /\ AddReply(AnswerRow(p), {})

\* The cached message is replaced by the answer, which carries no reactions.
UpdateSuccess(p) ==
    LET rc == IF p.m = Parent THEN Cardinality(p.live) ELSE 0
        answer == Record(p.m, p.text, rc, FALSE, {})
        old == At(list.msgs, p.m)
        inList == list.ok /\ Has(list.msgs, p.m)
    IN  /\ p.kind = "edit"
        /\ list' = Apply(list, LAMBDA s : Changed(s, p.m, LAMBDA x : answer))
        /\ counted' = IF p.m = Parent THEN p.live ELSE counted
        /\ skewL' = Blame(skewL, Flag("replaced", inList /\
               (old.reac # {} \/ old.dead \/ old.text > p.text
                \/ (p.m = Parent /\ p.live # counted))))
        /\ skewT' = Blame(skewT, Flag("deaf", InThread(p.m)))
        /\ UNCHANGED thread

\* The count goes down when the message is found to be a reply: in the thread
\* cache, or else in the list.
DeleteSuccess(p) ==
    LET found == InThread(p.m) \/ (list.ok /\ Has(list.msgs, p.m))
        count == p.m \in Replies /\ found
    IN  /\ p.kind = "delete"
        /\ list' = Apply(list, LAMBDA s :
               IF count THEN CountDown(Deleted(s, p.m)) ELSE Deleted(s, p.m))
        /\ thread' = Apply(thread, LAMBDA s : Without(s, p.m))
        /\ counted' = IF count THEN counted \ {p.m} ELSE counted
        /\ skewL' = Blame(skewL,
               Flag("count", count /\ CountsParent /\ p.m \notin counted))
        /\ UNCHANGED skewT

ReactionSuccess(p) ==
    /\ p.kind \in {"react", "unreact"}
    /\ UNCHANGED <<list, thread, ghosts>>

Answered(p) ==
    /\ p.stage = "done"
    /\ \/ SendSuccess(p)
       \/ SendThreadReplySuccess(p)
       \/ UpdateSuccess(p)
       \/ DeleteSuccess(p)
       \/ ReactionSuccess(p)
    /\ pending' = pending \ {p}
    /\ UNCHANGED <<server, ops, feed, lf, tf, fetches>>

\* A failed reaction in the list puts the remembered list back, whatever has
\* happened to the list since.
Rollback(p) ==
    LET shown == IF p.kind = "react" THEN Reacted(p.prev, p.m, Me)
                 ELSE Unreacted(p.prev, p.m, Me)
    IN  /\ p.kind \in {"react", "unreact"} /\ p.place = "list"
        /\ list' = Loaded(p.prev)
        /\ counted' = IF list.msgs = shown THEN counted ELSE p.had
        /\ skewL' = Blame(skewL, p.skew \cup
               Flag("rollback", list.msgs # shown
                                \/ (p.kind = "react") = (Me \in reacts[p.m])))
        /\ UNCHANGED <<thread, skewT>>

\* A failed reaction in the panel stays on the screen.
NoRollback(p) ==
    /\ p.kind \in {"react", "unreact"} /\ p.place = "panel"
    /\ skewL' = Blame(skewL, Flag("phantom", p.m = Parent /\ p.stage = "asked"))
    /\ skewT' = Blame(skewT, Flag("phantom", p.m # Parent /\ p.stage = "asked"))
    /\ UNCHANGED <<list, thread, counted>>

\* The request was refused or never arrived ("asked"), or it was carried out
\* and its handler failed ("served") or its answer was lost ("done").
Failed(p) ==
    /\ \/ Rollback(p)
       \/ NoRollback(p)
       \/ p.kind \in {"new", "edit", "delete"} /\ UNCHANGED <<list, thread, ghosts>>
    /\ pending' = pending \ {p}
    /\ UNCHANGED <<server, ops, feed, lf, tf, fetches>>

-----------------------------------------------------------------------------
(* Fetches.  A snapshot is installed some time after it was taken. *)

\* Mounting, refocusing, a stale copy or an invalidation: the server answers
\* with what it holds now.  A fetch under way is cancelled and started again.
FetchList ==
    /\ fetches < MaxFetches /\ fetches' = fetches + 1
    /\ lf' = [stage |-> "answered", msgs |-> ChannelRows, live |-> LiveReplies,
              ahead |-> Len(wire), late |-> {}]
    /\ UNCHANGED <<server, ops, feed, list, thread, pending, tf, ghosts>>

InstallList ==
    /\ lf.stage = "answered"
    /\ list' = Loaded(lf.msgs)
    /\ counted' = lf.live
    /\ skewL' = lf.late
    /\ lf' = NoFetch
    /\ UNCHANGED <<server, ops, feed, thread, pending, tf, fetches, skewT>>

FetchThread ==
    /\ fetches < MaxFetches /\ fetches' = fetches + 1
    /\ tf' = [stage |-> "answered", msgs |-> ThreadRows, live |-> {},
              ahead |-> Len(wire), late |-> {}]
    /\ UNCHANGED <<server, ops, feed, list, thread, pending, lf, ghosts>>

InstallThread ==
    /\ tf.stage = "answered"
    /\ thread' = Loaded(tf.msgs)
    /\ skewT' = tf.late
    /\ tf' = NoFetch
    /\ UNCHANGED <<server, ops, feed, list, pending, lf, fetches, counted, skewL>>

\* The panel has been closed for longer than the cache keeps a query.
ForgetThread ==
    /\ thread.ok
    /\ thread' = NotLoaded
    /\ skewT' = {}
    /\ UNCHANGED <<server, ops, feed, list, pending, lf, tf, fetches, counted, skewL>>

-----------------------------------------------------------------------------
Init ==
    /\ born = <<Parent>> /\ gone = {}
    /\ text = [m \in Msgs |-> 0] /\ reacts = [m \in Msgs |-> {}] /\ ops = 0
    /\ unsent = <<>> /\ wire = <<>> /\ pending = {}
    /\ list \in {NotLoaded, Loaded(<<Record(Parent, 0, 0, FALSE, {})>>)}
    /\ thread = NotLoaded
    /\ lf = NoFetch /\ tf = NoFetch /\ fetches = 0
    /\ counted = {} /\ skewL = {} /\ skewT = {}

\* Other users, and this user on another device.
Elsewhere ==
    /\ Spend
    /\ \E m \in Msgs :
           \/ m \notin Mine /\ (CommitNew(m, 0) \/ CommitEdit(m, 0) \/ CommitDelete(m, 0))
           \/ CommitReact(m, Other, 0) \/ CommitUnreact(m, Other, 0)
    /\ UNCHANGED <<list, thread, pending, lf, tf, fetches, ghosts>>

Ask == \E m \in Msgs : AskSend(m) \/ AskEdit(m) \/ AskDelete(m)
                       \/ AskReactInList(m) \/ AskReactInPanel(m)
Deliver == \E p \in pending : Answered(p) \/ Failed(p)

Next ==
    \/ Elsewhere \/ Ask
    \/ \E p \in pending : Serve(p)
    \/ \E k \in DOMAIN unsent : Reread(k) \/ Announce(k) \/ Untold(k)
    \/ Deliver
    \/ ReceiveEvent \/ LoseEvents
    \/ FetchList \/ InstallList
    \/ FetchThread \/ InstallThread \/ ForgetThread

Spec == Init /\ [][Next]_vars
-----------------------------------------------------------------------------
(* Properties. *)

Rows(s) == \A i \in DOMAIN s :
    /\ s[i].id \in Msgs /\ s[i].text \in 0..MaxOps
    /\ s[i].rc \in 0..(2 * MaxOps) /\ s[i].dead \in BOOLEAN
    /\ s[i].reac \subseteq Users

\* Shapes and bounds of the client's copies (the server's are its rows).
TypeOK ==
    /\ Rows(list.msgs) /\ Rows(thread.msgs) /\ Rows(lf.msgs) /\ Rows(tf.msgs)
    /\ counted \subseteq Replies
    /\ list.ok \in BOOLEAN /\ thread.ok \in BOOLEAN
    /\ \A p \in pending : p.m \in Msgs /\ Rows(p.prev)

Distinct(s) == \A i, j \in DOMAIN s : s[i].id = s[j].id => i = j

\* However the event, the answer and the refetch of one message interleave,
\* the list and the thread hold it once: each of the handlers that add one
\* looks for it first (cacheUpdaters.ts, useMessages.ts).
NoDuplicates == Distinct(list.msgs) /\ Distinct(thread.msgs)

\* What the screen shows of a list: a deleted message only while it has replies.
ShownRows(s) == Picked(s, {i \in DOMAIN s : ~s[i].dead \/ s[i].rc > 0})
LiveRows(s) == Picked(s, {i \in DOMAIN s : ~s[i].dead})

\* With nothing on its way to the client, a list that nothing has led astray
\* shows what the server would answer now: messages, order, text, reply count,
\* placeholders and reactions.  The names skewL can hold are thus all the ways
\* in which the handlers of cacheUpdaters.ts and useMessages.ts go wrong.
ListConverges ==
    (feed = <<<<>>, <<>>>> /\ pending = {} /\ lf.stage = "idle" /\ list.ok /\ skewL = {})
        => ShownRows(list.msgs) = ShownRows(ChannelRows)

\* The same for the thread, whose cache hears of new and of deleted replies,
\* and of nothing else.
ThreadConverges ==
    (feed = <<<<>>, <<>>>> /\ pending = {} /\ tf.stage = "idle" /\ thread.ok /\ skewT = {})
        => LiveRows(thread.msgs) = LiveRows(ThreadRows)

\* "Update in all message caches", says useUpdateMessage (useMessages.ts:236):
\* when the answer to an edit has been handled, no loaded copy of the message
\* shows another text.  The code does not keep this: the thread's copy of a
\* reply does (README, section 4).
EditsReachEveryCopy ==
    [][\A p \in pending : (Answered(p) /\ p.kind = "edit") =>
           \A q \in {list', thread'} : \A i \in DOMAIN q.msgs :
               q.msgs[i].id = p.m => q.msgs[i].text = p.text]_vars
=============================================================================
