------------------------------ MODULE EventLog ------------------------------
(***************************************************************************)
(* Replay of missed events: the broadcasts of one workspace, the queue and *)
(* goroutine that store them in workspace_events, and one client that      *)
(* reconnects with the id of the last frame it has received.  Sources:     *)
(* server/internal/sse/hub.go, handler.go and events.go, and               *)
(* apps/mobile/src/lib/sse.ts (the web client sends no Last-Event-ID).     *)
(*                                                                         *)
(* An id is a ULID: they are handed out in increasing order, to broadcast  *)
(* events and to the frames a handler makes for its own client alike.  The *)
(* model starts when the client has begun to stream for the first time.    *)
(* All events are for the workspace; what a user alone is sent (a failed   *)
(* scheduled message, a notification) is never stored and not modelled.    *)
(***************************************************************************)
EXTENDS Naturals, Sequences, FiniteSets, Functions

CONSTANTS
    Broadcasters,  \* the goroutines that broadcast
    StoreCap,      \* capacity of the storeQueue channel
    BufferCap,     \* capacity of the client's Send channel
    ReplayLimit,   \* the LIMIT of GetEventsSince
    MayFail,       \* whether statements fail, rows expire and the server dies
    MaxId          \* bound: ids handed out

ASSUME LogAssumption ==
    /\ StoreCap \in Nat \ {0}
    /\ BufferCap \in Nat \ {0}
    /\ ReplayLimit \in Nat \ {0}
    /\ MayFail \in BOOLEAN
    /\ MaxId \in Nat \ {0}

VARIABLES
    lastId,     \* the last id handed out
    events,     \* the ids given to broadcast events
    at,         \* control point of every broadcaster
    event,      \* the event it broadcasts
    storeQ,     \* the storeQueue channel
    log,        \* the ids in workspace_events
    stream,     \* control point of the client's handler
    inHub,      \* the hub has registered the client
    send,       \* the client's Send channel
    from,       \* the Last-Event-ID of the connection
    replay,     \* rows of GetEventsSince that are still to be written
    seen,       \* the client's lastEventId
    received,   \* the broadcast events the client has received
    excused,    \* history: events that a recorded cause withheld
    missed,     \* history: broadcast while the client was offline
    owed        \* history: those of them stored when it reconnected

serverVars == <<events, at, event, storeQ, log>>
streamVars == <<stream, inHub, send, from, replay>>
clientVars == <<seen, received>>
history == <<excused, missed, owed>>
vars == <<lastId, serverVars, streamVars, clientVars, history>>

Ids == 1..MaxId
Queued == Range(storeQ)
Buffered == Range(send)

Init ==
    /\ lastId = 1
    /\ events = {}
    /\ at = [b \in Broadcasters |-> "idle"]
    /\ event = [b \in Broadcasters |-> 0]
    /\ storeQ = <<>>
    /\ log = {}
    /\ stream = "streaming"
    /\ inHub \in BOOLEAN
    /\ send = <<>>
    /\ from = 0
    /\ replay = {}
    /\ seen = 1
    /\ received = {}
    /\ excused = {}
    /\ missed = {}
    /\ owed = {}

\* ulid.Make in Serialize.
NewId ==
    /\ lastId < MaxId
    /\ lastId' = lastId + 1

\* Events whose broadcast is still under way.
UnderWay == {event[b] : b \in {q \in Broadcasters : at[q] # "idle"}}
Done == events \ UnderWay

\* The client's EventSource reports a frame with this id.
Frame(id) == seen' = id

-----------------------------------------------------------------------------
(* BroadcastToWorkspace.                                                   *)

Serialize(b) ==
    /\ at[b] = "idle"
    /\ NewId
    /\ at' = [at EXCEPT ![b] = "enqueue"]
    /\ event' = [event EXCEPT ![b] = lastId']
    /\ events' = events \cup {lastId'}
    /\ missed' = IF stream = "offline" THEN missed \cup {lastId'} ELSE missed
    /\ UNCHANGED <<storeQ, log, streamVars, clientVars, excused, owed>>

\* Mutant of Enqueue: the channel has no capacity.
EnqueueUnbounded(b) ==
    /\ at[b] = "enqueue"
    /\ at' = [at EXCEPT ![b] = "push"]
    /\ storeQ' = Append(storeQ, event[b])
    /\ UNCHANGED <<lastId, events, event, log, streamVars, clientVars, history>>

\* enqueueStoreEvent: the event is dropped when the queue is full.
Enqueue(b) ==
    /\ at[b] = "enqueue"
    /\ at' = [at EXCEPT ![b] = "push"]
    /\ IF Len(storeQ) < StoreCap
       THEN storeQ' = Append(storeQ, event[b]) /\ excused' = excused
       ELSE storeQ' = storeQ /\ excused' = excused \cup {event[b]}
    /\ UNCHANGED <<lastId, events, event, log, streamVars, clientVars, missed,
                   owed>>

\* The loop over the registered clients.  It misses a client whose buffer is
\* full, and one whose handler has read the log and is not registered yet.
Push(b) ==
    /\ at[b] = "push"
    /\ at' = [at EXCEPT ![b] = "idle"]
    /\ send' = IF inHub /\ Len(send) < BufferCap
               THEN Append(send, event[b]) ELSE send
    /\ excused' = IF send' = send /\ (inHub \/ stream \in {"replay", "streaming"})
                  THEN excused \cup {event[b]} ELSE excused
    /\ UNCHANGED <<lastId, events, event, storeQ, log, stream, inHub, from,
                   replay, clientVars, missed, owed>>

\* runStoreLoop: a failed INSERT is logged and forgotten.
Store ==
    /\ storeQ # <<>>
    /\ storeQ' = Tail(storeQ)
    /\ \/ log' = log \cup {Head(storeQ)} /\ excused' = excused
       \/ MayFail /\ log' = log /\ excused' = excused \cup {Head(storeQ)}
    /\ UNCHANGED <<lastId, events, at, event, streamVars, clientVars, missed, owed>>

\* CleanupOldEvents, one of the rows it deletes.
Expire(e) ==
    /\ MayFail
    /\ e \in log
    /\ log' = log \ {e}
    /\ excused' = excused \cup {e}
    /\ UNCHANGED <<lastId, events, at, event, storeQ, streamVars, clientVars,
                   missed, owed>>

-----------------------------------------------------------------------------
(* The connection.                                                         *)

\* connect(), and Register in the handler.
Connect ==
    /\ stream = "offline"
    /\ stream' = "greeting"
    /\ from' = seen
    /\ owed' = owed \cup (missed \cap log)
    /\ UNCHANGED <<lastId, serverVars, inHub, send, replay, clientVars, excused,
                   missed>>

\* Hub.Run takes the registration, at any time from then on.
HubRegister ==
    /\ stream # "offline" /\ ~inHub
    /\ inHub' = TRUE
    /\ UNCHANGED <<lastId, serverVars, stream, send, from, replay, clientVars,
                   history>>

\* The connected and presence_initial events: two frames that nothing in the
\* model can tell apart.  Their ids are new.
Greet ==
    /\ stream = "greeting"
    /\ stream' = "query"
    /\ NewId
    /\ Frame(lastId')
    /\ UNCHANGED <<serverVars, inHub, send, from, replay, received, history>>

FirstOf(rows) == {e \in rows : Cardinality({d \in rows : d <= e}) <= ReplayLimit}

\* What the replay will not bring: rows beyond the limit, and events that are
\* complete but not stored yet and were pushed before the client was registered.
Read(rows, answer) ==
    /\ stream = "query"
    /\ stream' = "replay"
    /\ replay' = answer
    /\ excused' = excused \cup (rows \ answer)
                     \cup {e \in Done : e > from /\ e \notin log \cup Buffered}
    /\ UNCHANGED <<lastId, serverVars, inHub, send, from, clientVars, missed, owed>>

\* Mutant of Query: the id is that of the last frame, not of the header.
QueryFromGreeting ==
    LET rows == {e \in log : e > seen} IN Read(rows, FirstOf(rows))

\* GetEventsSince.  The handler streams without a replay if it fails.
Query ==
    LET rows == {e \in log : e > from}
    IN Read(rows, FirstOf(rows)) \/ (MayFail /\ Read(rows, {}))

Replay(e) ==
    /\ stream = "replay"
    /\ e \in replay /\ \A d \in replay : e <= d
    /\ replay' = replay \ {e}
    /\ Frame(e)
    /\ received' = received \cup {e}
    /\ UNCHANGED <<lastId, serverVars, stream, inHub, send, from, history>>

StartStreaming ==
    /\ stream = "replay" /\ replay = {}
    /\ stream' = "streaming"
    /\ UNCHANGED <<lastId, serverVars, inHub, send, from, replay, clientVars,
                   history>>

Receive ==
    /\ stream = "streaming"
    /\ send # <<>>
    /\ send' = Tail(send)
    /\ Frame(Head(send))
    /\ received' = received \cup {Head(send)}
    /\ UNCHANGED <<lastId, serverVars, stream, inHub, from, replay, history>>

Heartbeat ==
    /\ stream = "streaming"
    /\ NewId
    /\ Frame(lastId')
    /\ UNCHANGED <<serverVars, streamVars, received, history>>

\* What the end of a connection puts out of a replay's reach: events with a
\* smaller id than the last frame that has arrived, if they have not.
Overtaken == {e \in events \ received : e <= seen}

\* The connection breaks, or the application closes it.
Disconnect ==
    /\ stream # "offline"
    /\ stream' = "offline"
    /\ inHub' = FALSE
    /\ send' = <<>>
    /\ replay' = {}
    /\ from' = 0
    /\ excused' = excused \cup Overtaken
    /\ UNCHANGED <<lastId, serverVars, clientVars, missed, owed>>

\* The server dies: broadcasts under way and the queue are lost with it.
Crash ==
    /\ MayFail
    /\ at' = [b \in Broadcasters |-> "idle"]
    /\ storeQ' = <<>>
    /\ stream' = "offline"
    /\ inHub' = FALSE
    /\ send' = <<>>
    /\ replay' = {}
    /\ from' = 0
    /\ excused' = excused \cup Overtaken \cup Queued
                     \cup {event[b] : b \in {q \in Broadcasters : at[q] = "enqueue"}}
    /\ UNCHANGED <<lastId, events, event, log, clientVars, missed, owed>>

-----------------------------------------------------------------------------
Broadcast == \E b \in Broadcasters : Serialize(b) \/ Enqueue(b) \/ Push(b)

Streaming ==
    \/ Connect
    \/ HubRegister
    \/ Greet
    \/ Query
    \/ \E e \in replay : Replay(e)
    \/ StartStreaming
    \/ Receive
    \/ Heartbeat
    \/ Disconnect

Next ==
    \/ Broadcast
    \/ Store
    \/ \E e \in log : Expire(e)
    \/ Streaming
    \/ Crash

Spec == Init /\ [][Next]_vars

-----------------------------------------------------------------------------
TypeOK ==
    /\ lastId \in Ids
    /\ events \subseteq Ids
    /\ at \in [Broadcasters -> {"idle", "enqueue", "push"}]
    /\ event \in [Broadcasters -> 0..MaxId]
    /\ storeQ \in Seq(Ids) /\ Len(storeQ) <= StoreCap
    /\ log \subseteq Ids
    /\ stream \in {"offline", "greeting", "query", "replay", "streaming"}
    /\ inHub \in BOOLEAN
    /\ send \in Seq(Ids) /\ Len(send) <= BufferCap
    /\ from \in 0..MaxId
    /\ replay \subseteq Ids
    /\ seen \in Ids
    /\ received \subseteq Ids
    /\ excused \subseteq Ids
    /\ missed \subseteq Ids
    /\ owed \subseteq Ids

\* The id a replay, now or after the next reconnection, will start after.
ResumesAfter == IF stream = "offline" THEN seen ELSE from
ToReplay ==
    IF stream \in {"offline", "greeting", "query"}
    THEN {e \in log \cup Queued : e > ResumesAfter} ELSE {}

\* Every event whose broadcast is complete has been received, is on its way to
\* the client, will be in the answer of the replay the client has yet to get,
\* or has one of the recorded causes: not stored (a full queue, a failed
\* INSERT, a crash, its age), a full buffer, a late registration with a late
\* INSERT, the limit or failure of the query, or a connection that ended when
\* a frame with a greater id had overtaken it.  Nothing else loses an event.
Accounted ==
    \A e \in Done : e \in received \cup excused \cup Buffered \cup replay \cup ToReplay

\* The strengthening.  An event that has passed the queue is stored, queued or
\* excused; what a replay will start after is before every event that is still
\* to come; ids are handed out in order and nothing is written but events.
Passed == Done \cup {event[b] : b \in {q \in Broadcasters : at[q] = "push"}}
Stored == Passed \subseteq log \cup Queued \cup excused

ResumesBefore ==
    stream \in {"offline", "greeting", "query"} =>
        \A e \in events : e > ResumesAfter \/ e \in received \cup excused

IdsInOrder ==
    /\ seen <= lastId /\ from <= lastId
    /\ \A e \in events : e <= lastId
    /\ log \cup Queued \cup Buffered \cup replay \subseteq events
    /\ UnderWay \subseteq events
    /\ stream # "replay" => replay = {}

IInv == TypeOK /\ IdsInOrder /\ Stored /\ ResumesBefore /\ Accounted

-----------------------------------------------------------------------------
(* security.md:109: on reconnection the server replays any missed events.   *)
(* Events broadcast while the client was offline, and stored when it        *)
(* reconnected, are received by the time the stream is live.  The code does *)
(* not keep this (README, section 4).                                       *)
MissedEventsReplayed == stream = "streaming" => owed \subseteq received
=============================================================================
