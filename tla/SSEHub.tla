------------------------------- MODULE SSEHub -------------------------------
(***************************************************************************)
(* The server-sent-events hub of one workspace: the goroutine that owns    *)
(* the registry of connections (Hub.Run), the handler goroutine of every   *)
(* connection (Handler.Events), and the broadcasts of the other handlers.  *)
(* Sources: server/internal/sse/hub.go and handler.go.                     *)
(*                                                                         *)
(* A Go channel is a sequence with a capacity.  What one critical section  *)
(* of Hub.mu does is one step; a non-blocking send drops the event when    *)
(* the buffer is full.  A connection is one Client object: a browser that  *)
(* reconnects is another client of the same user.                          *)
(***************************************************************************)
EXTENDS Naturals, Sequences

CONSTANTS
    Users,
    Clients,
    UserOf,      \* the user each connection belongs to
    QueueCap,    \* capacity of the register and unregister channels
    BufferCap,   \* capacity of a client's Send channel
    MaxEvents,   \* bound: events broadcast by handlers and tasks
    MaxKicks     \* bound: calls of DisconnectUserClients

ASSUME HubAssumption ==
    /\ UserOf \in [Clients -> Users]
    /\ QueueCap \in Nat \ {0}
    /\ BufferCap \in Nat \ {0}
    /\ MaxEvents \in Nat
    /\ MaxKicks \in Nat

VARIABLES
    handler,      \* control point of every connection's handler
    registerQ,    \* the register channel
    unregisterQ,  \* the unregister channel
    registry,     \* the clients in Hub.workspaces
    hub,          \* the presence change Hub.Run is about to broadcast
    send,         \* the events buffered for every client
    closed,       \* clients whose Send channel is closed
    doomed,       \* clients a DisconnectUserClients has yet to close
    done,         \* clients whose Done channel is closed
    view,         \* the users a stream's reader believes to be online
    crashed,      \* a panic has ended the process
    events,       \* events broadcast so far
    kicks,        \* DisconnectUserClients so far
    announced,    \* history: users whose last broadcast status is online
    overtaken,    \* history: unregistered before they were registered
    early,        \* history: were registered when presence_initial was read
    dropped       \* history: have missed an event, their buffer being full

hubVars == <<handler, registerQ, unregisterQ, registry, hub, send, closed,
             doomed, done, view, crashed, events, kicks, announced, overtaken,
             early, dropped>>

HandlerPoints == {"new", "registering", "registered", "streaming", "leaving",
                  "gone"}

\* A presence change, or any other event.
Presence == [kind : {"online", "offline"}, user : Users]
Other == [kind |-> "other"]
Events == Presence \cup {Other}

\* Hub.Run waits in its select.
Selecting == [kind |-> "select"]

Init ==
    /\ handler = [c \in Clients |-> "new"]
    /\ registerQ = <<>>
    /\ unregisterQ = <<>>
    /\ registry = {}
    /\ hub = Selecting
    /\ send = [c \in Clients |-> <<>>]
    /\ closed = {}
    /\ doomed = {}
    /\ done = {}
    /\ view = [c \in Clients |-> {}]
    /\ crashed = FALSE
    /\ events = 0
    /\ kicks = 0
    /\ announced = {}
    /\ overtaken = {}
    /\ early = {}
    /\ dropped = {}

ClientsOf(u) == {c \in registry : UserOf[c] = u}

\* GetConnectedUserIDs: the users that have an entry in the workspace's map.
Connected == {UserOf[c] : c \in registry}

\* The loop over the clients of a scope: a full buffer skips the event.
Push(event, receivers) ==
    /\ send' = [c \in Clients |->
                   IF c \in receivers /\ Len(send[c]) < BufferCap
                   THEN Append(send[c], event) ELSE send[c]]
    /\ dropped' = dropped \cup
                     {c \in receivers : Len(send[c]) >= BufferCap}

\* Sending on a closed channel panics.
Panics(receivers) == receivers \cap closed # {}

-----------------------------------------------------------------------------
(* The handler of one connection.                                          *)

\* The middleware and the membership check have let the request through.
Connect(c) ==
    /\ handler[c] = "new"
    /\ handler' = [handler EXCEPT ![c] = "registering"]
    /\ UNCHANGED <<registerQ, unregisterQ, registry, hub, send, closed, doomed,
                   done, view, crashed, events, kicks, announced, overtaken,
                   early, dropped>>

\* Mutant of Register: the queue grows without limit.
RegisterUnbounded(c) ==
    /\ handler[c] = "registering"
    /\ handler' = [handler EXCEPT ![c] = "registered"]
    /\ registerQ' = Append(registerQ, c)
    /\ UNCHANGED <<unregisterQ, registry, hub, send, closed, doomed, done,
                   view, crashed, events, kicks, announced, overtaken, early,
                   dropped>>

Register(c) ==
    /\ handler[c] = "registering"
    /\ Len(registerQ) < QueueCap
    /\ handler' = [handler EXCEPT ![c] = "registered"]
    /\ registerQ' = Append(registerQ, c)
    /\ UNCHANGED <<unregisterQ, registry, hub, send, closed, doomed, done,
                   view, crashed, events, kicks, announced, overtaken, early,
                   dropped>>

\* Mutant of SendInitialPresence: a client is not told of its own user.
SendInitialPresenceOfOthers(c) ==
    /\ handler[c] = "registered"
    /\ handler' = [handler EXCEPT ![c] = "streaming"]
    /\ view' = [view EXCEPT ![c] = Connected \ {UserOf[c]}]
    /\ early' = IF c \in registry THEN early \cup {c} ELSE early
    /\ UNCHANGED <<registerQ, unregisterQ, registry, hub, send, closed, doomed,
                   done, crashed, events, kicks, announced, overtaken, dropped>>

\* The connected event changes nothing the model holds; then presence_initial.
SendInitialPresence(c) ==
    /\ handler[c] = "registered"
    /\ handler' = [handler EXCEPT ![c] = "streaming"]
    /\ view' = [view EXCEPT ![c] = Connected]
    /\ early' = IF c \in registry THEN early \cup {c} ELSE early
    /\ UNCHANGED <<registerQ, unregisterQ, registry, hub, send, closed, doomed,
                   done, crashed, events, kicks, announced, overtaken, dropped>>

\* The select takes an event from Send, or drainAndFlush does.
Receive(c) ==
    /\ handler[c] = "streaming"
    /\ send[c] # <<>>
    /\ LET event == Head(send[c])
       IN view' = [view EXCEPT ![c] =
                     CASE event.kind = "online"  -> @ \cup {event.user}
                       [] event.kind = "offline" -> @ \ {event.user}
                       [] event.kind = "other"   -> @]
    /\ send' = [send EXCEPT ![c] = Tail(@)]
    /\ UNCHANGED <<handler, registerQ, unregisterQ, registry, hub, closed,
                   doomed, done, crashed, events, kicks, announced, overtaken,
                   early, dropped>>

Leave(c) ==
    /\ handler[c] = "streaming"
    /\ handler' = [handler EXCEPT ![c] = "leaving"]
    /\ UNCHANGED <<registerQ, unregisterQ, registry, hub, send, closed, doomed,
                   done, view, crashed, events, kicks, announced, overtaken,
                   early, dropped>>

\* The request's context ends or a write fails; the select sees Done.
HangUp(c) == Leave(c)
LeaveOnDone(c) == c \in done /\ Leave(c)

\* Mutant of Unregister: the deferred call is forgotten.
NoUnregister(c) ==
    /\ handler[c] = "leaving"
    /\ handler' = [handler EXCEPT ![c] = "gone"]
    /\ UNCHANGED <<registerQ, unregisterQ, registry, hub, send, closed, doomed,
                   done, view, crashed, events, kicks, announced, overtaken,
                   early, dropped>>

\* The reader is gone, and what it knew with it.
Unregister(c) ==
    /\ handler[c] = "leaving"
    /\ Len(unregisterQ) < QueueCap
    /\ handler' = [handler EXCEPT ![c] = "gone"]
    /\ unregisterQ' = Append(unregisterQ, c)
    /\ view' = [view EXCEPT ![c] = {}]
    /\ early' = early \ {c}
    /\ UNCHANGED <<registerQ, registry, hub, send, closed, doomed, done,
                   crashed, events, kicks, announced, overtaken, dropped>>

-----------------------------------------------------------------------------
(* Hub.Run.                                                                *)

AddClient(c) ==
    /\ registry' = registry \cup {c}
    /\ hub' = IF ClientsOf(UserOf[c]) = {}
              THEN [kind |-> "online", user |-> UserOf[c]] ELSE Selecting

\* Mutants of RemoveClient: a client is taken off its user's list only when it
\* is the last; all the user's Send channels are closed; the loss of any
\* connection is announced.
RemoveClientOnlyLast(c) ==
    LET mine == ClientsOf(UserOf[c])
    IN /\ registry' = registry \ (IF mine = {c} THEN mine ELSE {})
       /\ hub' = IF mine = {c}
                 THEN [kind |-> "offline", user |-> UserOf[c]] ELSE Selecting
       /\ closed' = closed \cup {c}
       /\ overtaken' = IF c \in registry THEN overtaken ELSE overtaken \cup {c}

RemoveClientClosingAll(c) ==
    LET mine == ClientsOf(UserOf[c])
    IN /\ registry' = registry \ {c}
       /\ hub' = IF mine = {c}
                 THEN [kind |-> "offline", user |-> UserOf[c]] ELSE Selecting
       /\ closed' = closed \cup mine \cup {c}
       /\ overtaken' = IF c \in registry THEN overtaken ELSE overtaken \cup {c}

RemoveClientAnnouncingAny(c) ==
    /\ registry' = registry \ {c}
    /\ hub' = [kind |-> "offline", user |-> UserOf[c]]
    /\ closed' = closed \cup {c}
    /\ overtaken' = IF c \in registry THEN overtaken ELSE overtaken \cup {c}

\* removeClient.  The Send channel is closed whether or not it was found.
RemoveClient(c) ==
    LET mine == ClientsOf(UserOf[c])
    IN /\ registry' = registry \ {c}
       /\ hub' = IF mine = {c}
                 THEN [kind |-> "offline", user |-> UserOf[c]] ELSE Selecting
       /\ closed' = closed \cup {c}
       /\ overtaken' = IF c \in registry THEN overtaken ELSE overtaken \cup {c}

\* Mutant of HubRegister: the announcement is left to a goroutine of its own,
\* and the next registration is taken meanwhile.
HubRegisterMeanwhile ==
    /\ registerQ # <<>>
    /\ AddClient(Head(registerQ))
    /\ registerQ' = Tail(registerQ)
    /\ UNCHANGED <<handler, unregisterQ, send, closed, doomed, done, view,
                   crashed, events, kicks, announced, overtaken, early, dropped>>

HubRegister ==
    /\ hub = Selecting
    /\ registerQ # <<>>
    /\ AddClient(Head(registerQ))
    /\ registerQ' = Tail(registerQ)
    /\ UNCHANGED <<handler, unregisterQ, send, closed, doomed, done, view,
                   crashed, events, kicks, announced, overtaken, early, dropped>>

\* What was buffered for the client is garbage: nobody will receive it.
HubUnregister ==
    /\ hub = Selecting
    /\ unregisterQ # <<>>
    /\ RemoveClient(Head(unregisterQ))
    /\ unregisterQ' = Tail(unregisterQ)
    /\ send' = [send EXCEPT ![Head(unregisterQ)] = <<>>]
    /\ dropped' = dropped \ {Head(unregisterQ)}
    /\ UNCHANGED <<handler, registerQ, doomed, done, view, crashed, events,
                   kicks, announced, early>>

\* BroadcastToWorkspace of the presence change.  A panic here is in the hub's
\* own goroutine, where nothing recovers it.
HubAnnounce ==
    /\ hub # Selecting
    /\ ~Panics(registry)
    /\ Push(hub, registry)
    /\ announced' = IF hub.kind = "online" THEN announced \cup {hub.user}
                    ELSE announced \ {hub.user}
    /\ hub' = Selecting
    /\ UNCHANGED <<handler, registerQ, unregisterQ, registry, closed, doomed,
                   done, view, crashed, events, kicks, overtaken, early>>

HubPanics ==
    /\ hub # Selecting
    /\ Panics(registry)
    /\ crashed' = TRUE
    /\ UNCHANGED <<handler, registerQ, unregisterQ, registry, hub, send, closed,
                   doomed, done, view, events, kicks, announced, overtaken,
                   early, dropped>>

-----------------------------------------------------------------------------
(* The rest of the server.                                                 *)

\* Who receives an event: everyone in the workspace, the members of a
\* channel, or one user.
Receivers(scope) == {c \in registry : UserOf[c] \in scope}

Broadcast(scope) ==
    /\ events < MaxEvents
    /\ events' = events + 1
    /\ ~Panics(Receivers(scope))
    /\ Push(Other, Receivers(scope))
    /\ UNCHANGED <<handler, registerQ, unregisterQ, registry, hub, closed,
                   doomed, done, view, crashed, kicks, announced, overtaken,
                   early>>

\* Clients before the closed one have got the event.  The router recovers the
\* panic of a request and the scheduler that of a task; the goroutines that
\* send notifications and fetch link previews have no such net.
BroadcastPanics(scope) ==
    /\ events < MaxEvents
    /\ events' = events + 1
    /\ Panics(Receivers(scope))
    /\ \E reached \in SUBSET (Receivers(scope) \ closed) : Push(Other, reached)
    /\ crashed' \in BOOLEAN
    /\ UNCHANGED <<handler, registerQ, unregisterQ, registry, hub, closed,
                   doomed, done, view, kicks, announced, overtaken, early>>

\* DisconnectUserClients copies the user's clients, then closes Done of each.
DisconnectUserClients(u) ==
    /\ kicks < MaxKicks
    /\ kicks' = kicks + 1
    /\ doomed' = doomed \cup ClientsOf(u)
    /\ UNCHANGED <<handler, registerQ, unregisterQ, registry, hub, send, closed,
                   done, view, crashed, events, announced, overtaken, early,
                   dropped>>

\* Mutant of CloseDone: the channel that is closed is not the one the handler
\* waits for.
CloseDoneOfCopy(c) ==
    /\ c \in doomed
    /\ doomed' = doomed \ {c}
    /\ UNCHANGED <<handler, registerQ, unregisterQ, registry, hub, send, closed,
                   done, view, crashed, events, kicks, announced, overtaken,
                   early, dropped>>

CloseDone(c) ==
    /\ c \in doomed
    /\ done' = done \cup {c}
    /\ doomed' = doomed \ {c}
    /\ UNCHANGED <<handler, registerQ, unregisterQ, registry, hub, send, closed,
                   view, crashed, events, kicks, announced, overtaken, early,
                   dropped>>

-----------------------------------------------------------------------------
StreamStep(c) ==
    \/ Register(c)
    \/ SendInitialPresence(c)
    \/ Receive(c)
    \/ HangUp(c)
    \/ LeaveOnDone(c)
    \/ Unregister(c)

HubStep == HubRegister \/ HubUnregister \/ HubAnnounce \/ HubPanics

ServerStep ==
    \/ \E scope \in SUBSET Users : Broadcast(scope) \/ BroadcastPanics(scope)
    \/ \E c \in Clients : CloseDone(c)

Next ==
    /\ ~crashed
    /\ \/ \E c \in Clients : Connect(c) \/ StreamStep(c)
       \/ HubStep
       \/ ServerStep
       \/ \E u \in Users : DisconnectUserClients(u)

Spec == Init /\ [][Next]_hubVars

\* Go schedules every goroutine, and a select with several ready cases picks
\* one at random, so no ready case is passed over for ever.  Nothing obliges a
\* user to connect, or a server to broadcast or to disconnect anyone.
Alive(action) == ~crashed /\ action

HubFairness ==
    /\ SF_hubVars(Alive(HubRegister))
    /\ SF_hubVars(Alive(HubUnregister))
    /\ WF_hubVars(Alive(HubAnnounce \/ HubPanics))
    /\ \A c \in Clients :
          /\ SF_hubVars(Alive(Register(c)))
          /\ WF_hubVars(Alive(SendInitialPresence(c)))
          /\ WF_hubVars(Alive(LeaveOnDone(c)))
          /\ SF_hubVars(Alive(Unregister(c)))
          /\ WF_hubVars(Alive(CloseDone(c)))

FairSpec == Spec /\ HubFairness

-----------------------------------------------------------------------------
(* The presence a stream's reader will believe in once it has read what is  *)
(* buffered for it.                                                         *)
Believed(c) ==
    {u \in Users :
        LET about == {i \in DOMAIN send[c] :
                         send[c][i] \in Presence /\ send[c][i].user = u}
        IN IF about = {} THEN u \in view[c]
           ELSE \E i \in about : /\ send[c][i].kind = "online"
                                 /\ \A j \in about : j <= i}

Open == {"registered", "streaming", "leaving"}

HubTypeOK ==
    /\ handler \in [Clients -> HandlerPoints]
    /\ registerQ \in Seq(Clients) /\ Len(registerQ) <= QueueCap
    /\ unregisterQ \in Seq(Clients) /\ Len(unregisterQ) <= QueueCap
    /\ registry \subseteq Clients
    /\ hub \in Presence \cup {Selecting}
    /\ send \in [Clients -> Seq(Events)]
    /\ \A c \in Clients : Len(send[c]) <= BufferCap
    /\ closed \subseteq Clients
    /\ doomed \subseteq Clients
    /\ done \subseteq Clients
    /\ view \in [Clients -> SUBSET Users]
    /\ crashed \in BOOLEAN
    /\ events \in 0..MaxEvents
    /\ kicks \in 0..MaxKicks
    /\ announced \subseteq Users
    /\ overtaken \subseteq Clients
    /\ early \subseteq Clients
    /\ dropped \subseteq Clients

\* A client that broadcasts still reach has an open Send channel, unless the
\* hub's select took its unregistration before its registration: this is what
\* keeps every broadcast, and with the hub's own the process, from a panic.
OnlyOvertakenIsClosed == registry \cap closed \subseteq overtaken

\* A handler never reads from a closed Send channel, whose zero events it
\* would write out for ever: removeClient runs after the handler has left.
StreamsAreOpen == \A c \in Clients : handler[c] = "streaming" => c \notin closed

\* Whenever the hub waits in its select, what was last broadcast about every
\* user is what the registry says: the first connection of a user announces
\* online and the last one offline, with any number of tabs in between.
PresenceAnnounced == hub = Selecting => announced = Connected

\* A stream that was in the registry when its presence_initial was read, and
\* has missed no event, comes to believe exactly what the registry says, in
\* whatever order registrations, announcements and the snapshot fell.
PresenceViewConverges ==
    hub = Selecting =>
        \A c \in (registry \cap early) \ dropped :
            handler[c] = "streaming" => Believed(c) = Connected

\* The hub implements the presence feed: with any number of tabs, in whatever
\* order connections come and go, a user's first connection and last loss are
\* each announced, nothing else is, and no change overtakes an announcement.
Feed == INSTANCE PresenceFeed WITH online <- Connected
PresenceIsFed == Feed!Spec

\* The strengthening: where a client can be at each control point of its
\* handler, and what the pending announcement will make true.
Queued(q, c) == \E i \in 1..Len(q) : q[i] = c
Distinct(q) == \A i, j \in 1..Len(q) : q[i] = q[j] => i = j

BeforeRegister(c) ==
    handler[c] \in {"new", "registering"} =>
        ~Queued(registerQ, c) /\ c \notin registry
BeforeGone(c) ==
    handler[c] # "gone" => ~Queued(unregisterQ, c) /\ c \notin closed
RegisteredOnce(c) == c \in registry => ~Queued(registerQ, c)
ClosedTooEarly(c) == c \in closed /\ Queued(registerQ, c) => c \in overtaken

ClientInv(c) == /\ BeforeRegister(c)
                /\ BeforeGone(c)
                /\ RegisteredOnce(c)
                /\ ClosedTooEarly(c)

AnnouncedInv ==
    /\ PresenceAnnounced
    /\ hub.kind = "online"  => Connected = announced \cup {hub.user}
    /\ hub.kind = "offline" => Connected = announced \ {hub.user}

HubInv == /\ HubTypeOK
          /\ Distinct(registerQ)
          /\ \A c \in Clients : ClientInv(c)
          /\ OnlyOvertakenIsClosed
          /\ AnnouncedInv

\* What is buffered for a client of the registry ends, for each user it is
\* about, with what was last announced of that user; of the others, the reader
\* of a client that was early knows all but what is about to be announced.
About(event, u) == event \in Presence /\ event.user = u
Silent(q, u) == \A i \in 1..Len(q) : ~About(q[i], u)
LastSays(q, u, kind) ==
    \E i \in 1..Len(q) : /\ q[i] = [kind |-> kind, user |-> u]
                         /\ \A j \in 1..Len(q) : About(q[j], u) => j <= i
Status(u) == IF u \in announced THEN "online" ELSE "offline"

EmptyUntilRegistered(c) == c \notin registry => send[c] = <<>>
EarlyIsRegistered(c) ==
    c \in early => c \in registry /\ handler[c] \in {"streaming", "leaving"}
BufferAnnounces(c) ==
    c \in registry \ dropped =>
        \A u \in Users : Silent(send[c], u) \/ LastSays(send[c], u, Status(u))
ReaderKnows(c) ==
    c \in (registry \cap early) \ dropped =>
        \A u \in Users :
            Silent(send[c], u) =>
                \/ u \in view[c] <=> u \in Connected
                \/ hub # Selecting /\ hub.user = u

BufferInv(c) == /\ EmptyUntilRegistered(c)
                /\ EarlyIsRegistered(c)
                /\ BufferAnnounces(c)
                /\ ReaderKnows(c)

BuffersOK == \A c \in Clients : BufferInv(c)

\* A stream DisconnectUserClients has picked is ended and unregistered, though
\* events keep coming and the queues may be full.
DisconnectEndsStream ==
    \A c \in Clients : (c \in doomed) ~> (handler[c] = "gone" \/ crashed)

\* A connection whose handler has returned leaves the registry for good and
\* its buffer is given up, unless it was overtaken.
GoneIsForgotten ==
    \A c \in Clients :
        (handler[c] = "gone")
            ~> ([](c \notin registry /\ c \in closed) \/ c \in overtaken \/ crashed)

-----------------------------------------------------------------------------
(* What the documentation says of the program and the code does not do      *)
(* (README, section 4).                                                     *)

\* notifications.md:83: online means that the user has an active connection.
OnlineUsersConnected ==
    hub = Selecting /\ registerQ = <<>> /\ unregisterQ = <<>> =>
        \A u \in Connected :
            \E c \in Clients : UserOf[c] = u /\ handler[c] \in Open
=============================================================================
