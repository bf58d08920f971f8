---------------------------- MODULE ClientStream ----------------------------
(***************************************************************************)
(* A client's event stream and what hangs on it: the connection object of  *)
(* the web and of the mobile app (lib/sse.ts), the hook that owns it       *)
(* (hooks/useSSE.ts, useSSELifecycle.ts), the presence it feeds            *)
(* (stores/presenceStore.ts) and the cached answer of /auth/me that says   *)
(* whether the user is banned (hooks/useAuth.ts).                          *)
(*                                                                         *)
(* The server side is what sse/handler.go and sse/hub.go do for one        *)
(* stream: a numbered log of the workspace's presence and ban events, a    *)
(* prefix of which is in the database for replay, and the stream's handler *)
(* with the buffer the hub fills once it has taken the stream from its     *)
(* registration queue, which may be before or after the handler has read   *)
(* the presence and the replay.  What finds the buffer full is dropped.    *)
(* The log opens with an event of before, which no replay brings, so that   *)
(* every id is above 0.  The delay before a reconnection is left out.       *)
(* refused and blame are history variables: why a client that wants a      *)
(* stream does not ask for one, and why a peer may be shown wrongly.       *)
(***************************************************************************)
EXTENDS Integers, Sequences, FiniteSets

CONSTANTS
    Peers,        \* the other users of the workspace
    ReplayLimit,  \* the most events a replay sends
    BufferSize,   \* the most events client.Send holds
    MaxEvents,    \* bound on the log
    MaxFaults,    \* bound on breaks, refusals by the network and restarts
    MaxMounts     \* bound on the times the hook's effect runs

ASSUME ClientStreamAssumption ==
    /\ ReplayLimit \in Nat /\ BufferSize \in Nat /\ MaxEvents \in Nat
    /\ MaxFaults \in Nat /\ MaxMounts \in Nat

VARIABLES
    allowed,  \* server: the user is a member who is not banned
    session,  \* server: the user's session is still valid
    online,   \* server: the peers with a stream
    log,      \* server: the events broadcast, oldest first
    kept,     \* server: how many of them the store loop has written
    handler,  \* server: the stream's handler: "none", "accepted" (registered),
              \* "greeted" (presence sent), "streaming" (replay sent)
    attached, \* server: the hub has added the stream
    ended,    \* server: a ban has closed the stream's Done
    since,    \* server: the Last-Event-ID of the stream's request
    buffer,   \* server: client.Send
    wire,     \* what the handler has written and the client has not read
    platform, \* "web" or "mobile"
    wanted,   \* the hook is given a workspace's id
    app, isActive,  \* the app's state, and useSSELifecycle's copy of it
    active,   \* the hook's effect is in force
    source,   \* eventSource: "none", "opening" or "open"
    timer,    \* reconnectTimeout is armed
    lastId,   \* lastEventId (mobile)
    hasBeen, conn,  \* hasBeenConnected and isConnected of the hook
    view,     \* userPresence
    token,    \* the client still holds its token
    me,       \* the fetch of /auth/me: idle, asked, or the answer
    banShown, \* the cached answer of /auth/me carries a ban
    faults, mounts, refused, blame

server == <<allowed, session, online, log, kept>>
serving == <<handler, attached, ended, since, buffer>>
stream == <<serving, wire, source, timer, lastId>>
hook == <<active, hasBeen, conn>>
setting == <<platform, wanted, app, isActive>>
auth == <<token, me, banShown>>
bounds == <<faults, mounts>>
vars == <<server, stream, hook, setting, view, auth, bounds, refused, blame>>

-----------------------------------------------------------------------------
(* Events.  id is the event's place in the order of the log: the events    *)
(* the handler writes itself are as new as the whole log.                   *)

Presence(u, on) == [kind |-> "presence.changed", user |-> u, on |-> on]
Banned == [kind |-> "member.banned"]
Unbanned == [kind |-> "member.unbanned"]
Lost == [kind |-> "lost"]   \* never written to the database

Numbered(i) == [id |-> i, event |-> log[i]]
Local(event) == [id |-> Len(log), event |-> event]

About(events, u) ==
    {i \in DOMAIN events : /\ events[i].event.kind = "presence.changed"
                           /\ events[i].event.user = u}

\* Says(events, u, on): the last of these events about u says on.
Says(events, u, on) ==
    \E i \in About(events, u) :
        /\ \A j \in About(events, u) : j <= i
        /\ events[i].event.on = on

\* Those of the unread events that no replay brings: a departure among them
\* goes unseen.
Unseen(events) ==
    [u \in Peers |-> IF Says(events, u, FALSE) THEN "unseen" ELSE blame[u]]

\* The hub has the stream, and room for an event in its buffer.
Reached == attached /\ Len(buffer) < BufferSize

\* A broadcast: logged, and buffered for this client if it can be reached.
Broadcast(event) ==
    /\ Len(log) < MaxEvents
    /\ log' = Append(log, event)
    /\ buffer' = IF Reached
                 THEN Append(buffer, [id |-> Len(log) + 1, event |-> event])
                 ELSE buffer
    /\ UNCHANGED <<handler, attached, since, wire>>

-----------------------------------------------------------------------------
(* The rest of the workspace, and the server. *)

\* The presence is sent: who comes now is told by an event or not at all.
Greeted == handler \in {"greeted", "streaming"}

PeerComes(u) ==
    /\ u \notin online
    /\ online' = online \cup {u}
    /\ Broadcast(Presence(u, TRUE))
    /\ blame' = [blame EXCEPT ![u] = IF attached /\ ~Reached THEN "dropped"
                                     ELSE IF Greeted /\ ~attached THEN "gap"
                                     ELSE "none"]
    /\ UNCHANGED <<allowed, session, kept, ended, source, timer, lastId, hook,
                   view, auth, setting, bounds, refused>>

PeerGoes(u) ==
    /\ u \in online
    /\ online' = online \ {u}
    /\ Broadcast(Presence(u, FALSE))
    /\ blame' = [blame EXCEPT ![u] = IF Reached THEN "none" ELSE "unseen"]
    /\ UNCHANGED <<allowed, session, kept, ended, source, timer, lastId, hook,
                   view, auth, setting, bounds, refused>>

\* The ban is announced before it ends the streams of the user the hub knows.
BanUser ==
    /\ allowed
    /\ allowed' = FALSE
    /\ ended' = attached
    /\ Broadcast(Banned)
    /\ UNCHANGED <<session, online, kept, source, timer, lastId, hook, view,
                   auth, setting, bounds, refused, blame>>

UnbanUser ==
    /\ ~allowed
    /\ allowed' = TRUE
    /\ Broadcast(Unbanned)
    /\ UNCHANGED <<session, online, kept, ended, source, timer, lastId, hook,
                   view, auth, setting, bounds, refused, blame>>

SessionEnds ==
    /\ session
    /\ session' = FALSE
    /\ UNCHANGED <<allowed, online, log, kept, stream, hook, view, auth,
                   setting, bounds, refused, blame>>

StoreEvent ==
    /\ kept < Len(log)
    /\ kept' = kept + 1
    /\ UNCHANGED <<allowed, session, online, log, stream, hook, view, auth,
                   setting, bounds, refused, blame>>

\* Nothing is left of the stream's handler and its buffer.
HandlerGone ==
    /\ handler' = "none" /\ attached' = FALSE /\ ended' = FALSE
    /\ since' = 0 /\ buffer' = <<>>

\* A crash and restart forgets the streams, tells nobody, and loses the events
\* still in the store queue.
ServerRestarts ==
    /\ faults < MaxFaults
    /\ faults' = faults + 1
    /\ online' = {}
    /\ log' = [i \in DOMAIN log |-> IF i <= kept THEN log[i] ELSE Lost]
    /\ kept' = Len(log)
    /\ HandlerGone
    /\ blame' = [u \in Peers |-> IF u \in online THEN "unseen" ELSE Unseen(buffer)[u]]
    /\ UNCHANGED <<allowed, session, wire, source, timer, lastId, hook, view, auth,
                   setting, mounts, refused>>

\* The k-th smallest of a set of numbers.
Nth(S, k) == CHOOSE j \in S : Cardinality({i \in S : i <= j}) = k

\* The stored events after id i, oldest first, as the replay sends them.
EventsSince(i) ==
    LET after == {j \in (i + 1)..kept : log[j] # Lost}
        found == Cardinality(after)
    IN  [k \in 1..(IF found < ReplayLimit THEN found ELSE ReplayLimit) |->
            Numbered(Nth(after, k))]

\* Only the mobile app sends the id of the last event it has seen.
Replay == IF platform = "web" \/ since = 0 THEN <<>> ELSE EventsSince(since)

\* The handler accepts: it queues the stream for the hub and writes the first
\* event.  What it does next and what the hub does are in no order.
Accept ==
    /\ source = "opening" /\ wire = <<>> /\ handler = "none"
    /\ session /\ token /\ allowed
    /\ handler' = "accepted"
    /\ since' = lastId
    /\ wire' = <<Local([kind |-> "connected"])>>
    /\ UNCHANGED <<server, attached, ended, buffer, source, timer, lastId, hook,
                   view, auth, setting, bounds, refused, blame>>

\* Run takes the stream from the registration queue.
HubAdds ==
    /\ handler # "none" /\ ~attached
    /\ attached' = TRUE
    /\ UNCHANGED <<server, handler, ended, since, buffer, wire, source, timer,
                   lastId, hook, view, auth, setting, bounds, refused, blame>>

Greet ==
    /\ handler = "accepted"
    /\ handler' = "greeted"
    /\ wire' = Append(wire, Local([kind |-> "presence.initial", users |-> online]))
    /\ blame' = [u \in Peers |->
                   IF u \in online /\ ~Says(buffer, u, FALSE) THEN "none"
                   ELSE blame[u]]
    /\ UNCHANGED <<server, attached, ended, since, buffer, source, timer, lastId,
                   hook, view, auth, setting, bounds, refused>>

\* The replay, or nothing when it cannot be read; the buffer comes after it.
ReplayMissed ==
    /\ handler = "greeted"
    /\ handler' = "streaming"
    /\ \E sent \in {Replay, <<>>} :
        /\ wire' = wire \o sent
        /\ blame' = [u \in Peers |->
                       IF Says(sent \o buffer, u, u \in online) THEN "none"
                       ELSE IF About(sent, u) # {} THEN "replay" ELSE blame[u]]
    /\ UNCHANGED <<server, attached, ended, since, buffer, source, timer, lastId,
                   hook, view, auth, setting, bounds, refused>>

WriteNext ==
    /\ handler = "streaming" /\ buffer # <<>>
    /\ wire' = Append(wire, Head(buffer))
    /\ buffer' = Tail(buffer)
    /\ UNCHANGED <<server, handler, attached, ended, since, source, timer, lastId,
                   hook, view, auth, setting, bounds, refused, blame>>

\* The handler sees Done, maybe before it has written what is in the buffer.
HandlerReturns ==
    /\ handler = "streaming" /\ ended
    /\ HandlerGone
    /\ blame' = Unseen(buffer)
    /\ UNCHANGED <<server, wire, source, timer, lastId, hook, view, auth, setting,
                   bounds, refused>>

-----------------------------------------------------------------------------
(* The connection object. *)

\* invalidateQueries(me): a fetch starts over, and an older answer is dropped.
InvalidateMe == me' = "asked"

\* connect(): nothing if there is a source, and on mobile no try without a token.
Connect ==
    IF source # "none"
    THEN UNCHANGED <<source, me, refused>>
    ELSE IF platform = "mobile" /\ ~token
         THEN InvalidateMe /\ refused' = TRUE /\ UNCHANGED source
         ELSE source' = "opening" /\ UNCHANGED <<me, refused>>

\* What the client is still to read of its stream.
Coming == wire \o buffer

\* disconnect(): close the source and clear the timer.
Disconnect ==
    /\ source' = "none"
    /\ HandlerGone
    /\ wire' = <<>>
    /\ blame' = Unseen(Coming)

\* Mutant of ScheduleReconnect: the timer is armed and then cleared again.
ScheduleNothing == timer' = FALSE

ScheduleReconnect == timer' = TRUE

\* onerror with any status but 403.
OnError ==
    /\ conn' = FALSE
    /\ Disconnect
    /\ ScheduleReconnect
    /\ UNCHANGED <<server, lastId, active, hasBeen, view, auth, setting, mounts,
                   refused>>

\* The network fails, before the answer or after it.
StreamBreaks ==
    /\ source # "none"
    /\ faults < MaxFaults
    /\ faults' = faults + 1
    /\ OnError

\* The server has closed the stream, and all that was sent has been read.
StreamEnds ==
    /\ source = "open" /\ handler = "none" /\ wire = <<>>
    /\ OnError
    /\ UNCHANGED faults

\* 401: the session is over, or there is no token to send.
Unauthorized ==
    /\ source = "opening" /\ wire = <<>>
    /\ ~session \/ ~token
    /\ OnError
    /\ UNCHANGED faults

\* onerror with status 403.
Forbidden ==
    /\ source = "opening" /\ wire = <<>>
    /\ session /\ token /\ ~allowed
    /\ conn' = FALSE
    /\ Disconnect
    /\ timer' = FALSE
    /\ InvalidateMe
    /\ refused' = TRUE
    /\ UNCHANGED <<server, lastId, active, hasBeen, view, token, banShown,
                   setting, bounds>>

Opened ==
    /\ source = "opening" /\ wire # <<>>
    /\ source' = "open"
    /\ UNCHANGED <<server, serving, wire, timer, lastId, hook, view, auth,
                   setting, bounds, refused, blame>>

ReconnectTimerFires ==
    /\ timer
    /\ timer' = FALSE
    /\ Connect
    /\ UNCHANGED <<server, serving, wire, lastId, hook, view, token, banShown,
                   setting, bounds, blame>>

-----------------------------------------------------------------------------
(* The handlers of the events, and the stores they write. *)

\* Mutant of SetMultiple: the greeting is not applied.
SetMultipleIgnored(users) == view' = view

\* setMultipleUserPresence: sets the given users, and drops nobody.
SetMultiple(users) ==
    view' = [u \in Peers |-> IF u \in users THEN "online" ELSE view[u]]

SetUserPresence(u, on) ==
    view' = [view EXCEPT ![u] = IF on THEN "online" ELSE "offline"]

Handle(e) ==
    \/ /\ e.kind = "connected"
       /\ hasBeen' = TRUE /\ conn' = TRUE
       /\ UNCHANGED <<view, me>>
    \/ /\ e.kind = "presence.initial"
       /\ SetMultiple(e.users)
       /\ UNCHANGED <<hasBeen, conn, me>>
    \/ /\ e.kind = "presence.changed"
       /\ SetUserPresence(e.user, e.on)
       /\ UNCHANGED <<hasBeen, conn, me>>
    \/ /\ e.kind \in {"member.banned", "member.unbanned"}
       /\ InvalidateMe
       /\ UNCHANGED <<hasBeen, conn, view>>

\* onmessage: the id is kept before the event is handled (mobile).
Receive ==
    /\ source = "open" /\ wire # <<>>
    /\ wire' = Tail(wire)
    /\ lastId' = IF platform = "mobile" THEN Head(wire).id ELSE lastId
    /\ Handle(Head(wire).event)
    /\ UNCHANGED <<server, serving, source, timer, active, token, banShown,
                   setting, bounds, refused, blame>>

\* A heartbeat carries a new id and may overtake what waits in the buffer.
ReceiveHeartbeat ==
    /\ source = "open" /\ handler = "streaming" /\ conn /\ platform = "mobile"
    /\ wire = <<>> /\ lastId < Len(log)
    /\ lastId' = Len(log)
    /\ UNCHANGED <<server, serving, wire, source, timer, hook, view, auth,
                   setting, bounds, refused, blame>>

-----------------------------------------------------------------------------
(* The hook's effect, and the cached answer of /auth/me. *)

\* The effect runs: a new connection object, with no id and no timer.
RunEffect ==
    /\ mounts < MaxMounts
    /\ mounts' = mounts + 1
    /\ active' = TRUE
    /\ lastId' = 0
    /\ IF platform = "mobile" /\ ~token
       THEN InvalidateMe /\ refused' = TRUE /\ UNCHANGED source
       ELSE source' = "opening" /\ refused' = FALSE /\ UNCHANGED me
    /\ UNCHANGED <<server, serving, wire, timer, hasBeen, conn, view, token,
                   banShown, platform, faults, blame>>

\* Mutant of CleanUp: the clean-up leaves the timer running.
CleanUpKeepsTimer ==
    /\ active' = FALSE
    /\ Disconnect
    /\ hasBeen' = FALSE /\ conn' = FALSE
    /\ UNCHANGED <<server, timer, view, lastId, auth, platform, bounds, refused>>

\* The effect's clean-up; only the mobile app forgets the presence it knew.
CleanUp ==
    /\ active' = FALSE
    /\ Disconnect
    /\ timer' = FALSE
    /\ hasBeen' = FALSE /\ conn' = FALSE
    /\ view' = IF platform = "mobile" THEN [u \in Peers |-> "unknown"] ELSE view
    /\ UNCHANGED <<server, lastId, auth, platform, bounds, refused>>

Untouched == UNCHANGED <<server, stream, hook, view, auth, platform, bounds,
                         refused, blame>>

\* The user enters a workspace, or leaves it: the id the hook is given.
EnterWorkspace ==
    /\ ~wanted
    /\ wanted' = TRUE
    /\ isActive
    /\ RunEffect
    /\ UNCHANGED <<app, isActive>>

LeaveWorkspace ==
    /\ wanted
    /\ wanted' = FALSE
    /\ IF active THEN CleanUp ELSE Untouched
    /\ UNCHANGED <<app, isActive>>

\* The app's state changes: only a passage between the active state and the
\* two others counts (mobile).
AppStateChanges(next) ==
    /\ platform = "mobile" /\ next # app
    /\ app' = next
    /\ \/ /\ app # "active" /\ next = "active"
          /\ isActive' = TRUE
          /\ IF wanted THEN RunEffect ELSE Untouched
       \/ /\ app = "active" /\ next # "active"
          /\ isActive' = FALSE
          /\ IF wanted THEN CleanUp ELSE Untouched
       \/ /\ app # "active" /\ next # "active"
          /\ UNCHANGED isActive /\ Untouched
    /\ UNCHANGED wanted

MeServed ==
    /\ me = "asked"
    /\ me' = IF ~session \/ ~token THEN "unauthorized"
             ELSE IF allowed THEN "clear" ELSE "banned"
    /\ UNCHANGED <<server, stream, hook, view, token, banShown, setting, bounds,
                   refused, blame>>

\* A 401 clears the token and leaves the cached answer as it was.
MeAnswered ==
    /\ me \in {"unauthorized", "clear", "banned"}
    /\ me' = "idle"
    /\ token' = (token /\ me # "unauthorized")
    /\ banShown' = IF me = "unauthorized" THEN banShown ELSE me = "banned"
    /\ UNCHANGED <<server, stream, hook, view, setting, bounds, refused, blame>>

-----------------------------------------------------------------------------

Init ==
    /\ allowed = TRUE /\ session = TRUE
    /\ online \in SUBSET Peers
    /\ log = <<Lost>> /\ kept = 1
    /\ handler = "none" /\ attached = FALSE /\ ended = FALSE
    /\ since = 0 /\ buffer = <<>> /\ wire = <<>>
    /\ platform \in {"web", "mobile"}
    /\ wanted = FALSE /\ app = "active" /\ isActive = TRUE
    /\ active = FALSE /\ source = "none" /\ timer = FALSE /\ lastId = 0
    /\ hasBeen = FALSE /\ conn = FALSE
    /\ view = [u \in Peers |-> "unknown"]
    /\ token = TRUE /\ me = "idle" /\ banShown = FALSE
    /\ faults = 0 /\ mounts = 0 /\ refused = FALSE
    /\ blame = [u \in Peers |-> "none"]

ServerNext ==
    \/ \E u \in Peers : PeerComes(u) \/ PeerGoes(u)
    \/ BanUser \/ UnbanUser \/ SessionEnds \/ StoreEvent \/ ServerRestarts

HandlerNext ==
    Accept \/ HubAdds \/ Greet \/ ReplayMissed \/ WriteNext \/ HandlerReturns

ClientNext ==
    \/ Opened \/ Forbidden \/ Unauthorized
    \/ StreamBreaks \/ StreamEnds \/ ReconnectTimerFires
    \/ Receive \/ ReceiveHeartbeat
    \/ MeServed \/ MeAnswered

UserNext ==
    \/ EnterWorkspace \/ LeaveWorkspace
    \/ \E next \in {"active", "inactive", "background"} : AppStateChanges(next)

Next == ServerNext \/ HandlerNext \/ ClientNext \/ UserNext

\* The server answers, the runtime fires timers and delivers what has come.
Fairness ==
    /\ WF_vars(Accept) /\ WF_vars(Opened) /\ WF_vars(Forbidden)
    /\ WF_vars(Unauthorized) /\ WF_vars(StreamEnds) /\ WF_vars(Receive)
    /\ WF_vars(ReconnectTimerFires) /\ WF_vars(MeServed) /\ WF_vars(MeAnswered)

Spec == Init /\ [][Next]_vars /\ Fairness

-----------------------------------------------------------------------------

\* Types.
TypeOK ==
    /\ {allowed, session, attached, ended, active, timer} \subseteq BOOLEAN
    /\ handler \in {"none", "accepted", "greeted", "streaming"}
    /\ {wanted, isActive} \subseteq BOOLEAN
    /\ app \in {"active", "inactive", "background"}
    /\ {hasBeen, conn, token, banShown, refused} \subseteq BOOLEAN
    /\ online \subseteq Peers
    /\ kept \in 0..Len(log) /\ {lastId, since} \subseteq 0..Len(log)
    /\ platform \in {"web", "mobile"}
    /\ source \in {"none", "opening", "open"}
    /\ view \in [Peers -> {"unknown", "online", "offline"}]
    /\ me \in {"idle", "asked", "unauthorized", "clear", "banned"}
    /\ faults \in 0..MaxFaults /\ mounts \in 0..MaxMounts
    /\ blame \in [Peers -> {"none", "unseen", "replay", "gap", "dropped"}]

\* While the hook is in force there is exactly one thing that brings the stream
\* back (the source itself, or the timer, never both) unless the server refused
\* the client; without a workspace, or with the app in the background, neither is
\* left, nor a claim to be connected.
OneWayBack ==
    /\ active => \/ source # "none" /\ ~timer
                 \/ source = "none" /\ (timer \/ refused)
    /\ ~active => source = "none" /\ ~timer /\ ~conn
    /\ active = (wanted /\ app = "active")
    /\ conn => source = "open"

\* With the stream up and all read, presence is shown as the server has it,
\* except a peer who left while nobody told this client (shown online), one who
\* came after the presence was read and before the hub knew the stream, or when
\* the buffer was full (not shown online), and on mobile one about whom an old
\* event was replayed after it.
PresenceErrsForACause ==
    conn /\ handler = "streaming" /\ Coming = <<>> =>
        \A u \in Peers :
            \/ (view[u] = "online") = (u \in online)
            \/ blame[u] = "unseen" /\ u \notin online
            \/ blame[u] \in {"gap", "dropped"} /\ u \in online
            \/ blame[u] = "replay" /\ platform = "mobile"

\* A client that keeps wanting its stream, and may have it, gets it for good or
\* has been refused: no error leaves it waiting without a try.
Reconnects ==
    <>[](active /\ session /\ allowed /\ token) => <>[](conn \/ refused)

\* The handler of member.unbanned promises a fresh answer of /auth/me ("refresh
\* auth state to clear the ban field", cacheUpdaters.ts:571): with nothing left
\* to happen in the client, a ban that is over is not shown.  The code does not
\* keep this (README, section 4).
UnbanReachesClient ==
    /\ active /\ allowed /\ session /\ token
    /\ source = "none" /\ ~timer /\ me = "idle"
    => ~banShown
=============================================================================
