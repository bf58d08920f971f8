------------------------------ MODULE HubProofs ------------------------------
(***************************************************************************)
(* Theorems about the hub of server/internal/sse and what is built on it:  *)
(* SSEHub (types; a closed channel is neither sent on nor read; presence), *)
(* BanEnforcement, which composes the hub with bans (a ban ends every      *)
(* stream it can see), and MemberCache (the entry of a channel is exact    *)
(* unless one of the named races led it astray).                           *)
(***************************************************************************)
EXTENDS BanEnforcement, MemberCache, TLAPS

USE HubAssumption, BanAssumption, MemberAssumption
    DEF HubAssumption, BanAssumption

-----------------------------------------------------------------------------
(* Queues as sequences: what Append and Tail do to membership.              *)
LEMMA QueuedAppend ==
  ASSUME NEW S, NEW q \in Seq(S), NEW d \in S, NEW c
  PROVE  Queued(Append(q, d), c) <=> Queued(q, c) \/ c = d
  <1>1. /\ Len(Append(q, d)) = Len(q) + 1
        /\ \A i \in 1..Len(q) : Append(q, d)[i] = q[i]
        /\ Append(q, d)[Len(q) + 1] = d
        /\ Len(q) \in Nat
    OBVIOUS
  <1>2. ASSUME Queued(Append(q, d), c)
        PROVE  Queued(q, c) \/ c = d
    <2>1. PICK i \in 1..(Len(q) + 1) : Append(q, d)[i] = c
      BY <1>1, <1>2 DEF Queued
    <2>2. CASE i \in 1..Len(q)
      BY <1>1, <2>1, <2>2 DEF Queued
    <2>3. CASE i = Len(q) + 1
      BY <1>1, <2>1, <2>3
    <2> QED
      BY <1>1, <2>2, <2>3
  <1>3. ASSUME Queued(q, c)
        PROVE  Queued(Append(q, d), c)
    <2>1. PICK i \in 1..Len(q) : q[i] = c
      BY <1>3 DEF Queued
    <2>2. i \in 1..(Len(q) + 1) /\ Append(q, d)[i] = c
      BY <1>1, <2>1
    <2> QED
      BY <1>1, <2>2 DEF Queued
  <1>4. Queued(Append(q, d), d)
    <2>1. Len(q) + 1 \in 1..(Len(q) + 1)
      BY <1>1
    <2> QED
      BY <1>1, <2>1 DEF Queued
  <1> QED
    BY <1>2, <1>3, <1>4

LEMMA TailFacts ==
  ASSUME NEW S, NEW q \in Seq(S), q # <<>>
  PROVE  /\ Head(q) \in S
         /\ Head(q) = q[1]
         /\ Tail(q) \in Seq(S)
         /\ Len(q) \in Nat \ {0}
         /\ Len(Tail(q)) = Len(q) - 1
         /\ \A i \in 1..Len(Tail(q)) : Tail(q)[i] = q[i + 1]
  OBVIOUS

LEMMA QueuedTail ==
  ASSUME NEW S, NEW q \in Seq(S), q # <<>>, NEW c
  PROVE  Queued(q, c) <=> c = Head(q) \/ Queued(Tail(q), c)
  <1>1. ASSUME Queued(q, c)
        PROVE  c = Head(q) \/ Queued(Tail(q), c)
    <2>1. PICK i \in 1..Len(q) : q[i] = c
      BY <1>1 DEF Queued
    <2>2. CASE i = 1
      BY <2>1, <2>2, TailFacts
    <2>3. CASE i # 1
      <3>1. i - 1 \in 1..Len(Tail(q)) /\ (i - 1) + 1 = i
        BY <2>1, <2>3, TailFacts
      <3>2. Tail(q)[i - 1] = c
        BY <2>1, <3>1, TailFacts
      <3> QED
        BY <3>1, <3>2 DEF Queued
    <2> QED
      BY <2>2, <2>3
  <1>2. Queued(q, Head(q))
    <2>1. 1 \in 1..Len(q)
      BY TailFacts
    <2> QED
      BY <2>1, TailFacts DEF Queued
  <1>3. ASSUME Queued(Tail(q), c)
        PROVE  Queued(q, c)
    <2>1. PICK i \in 1..Len(Tail(q)) : Tail(q)[i] = c
      BY <1>3 DEF Queued
    <2>2. i + 1 \in 1..Len(q) /\ q[i + 1] = c
      BY <2>1, TailFacts
    <2> QED
      BY <2>2 DEF Queued
  <1> QED
    BY <1>1, <1>2, <1>3

LEMMA DistinctAppend ==
  ASSUME NEW S, NEW q \in Seq(S), NEW d \in S, Distinct(q), ~Queued(q, d)
  PROVE  Distinct(Append(q, d))
  <1>1. /\ Len(Append(q, d)) = Len(q) + 1
        /\ \A i \in 1..Len(q) : Append(q, d)[i] = q[i] /\ q[i] # d
        /\ Append(q, d)[Len(q) + 1] = d
        /\ Len(q) \in Nat
    BY DEF Queued
  <1>2. ASSUME NEW i \in 1..(Len(q) + 1), NEW j \in 1..(Len(q) + 1),
               Append(q, d)[i] = Append(q, d)[j]
        PROVE  i = j
    <2>1. CASE i \in 1..Len(q) /\ j \in 1..Len(q)
      BY <1>1, <1>2, <2>1 DEF Distinct
    <2>2. CASE i = Len(q) + 1 \/ j = Len(q) + 1
      BY <1>1, <1>2, <2>2
    <2> QED
      BY <1>1, <2>1, <2>2
  <1> QED
    BY <1>1, <1>2 DEF Distinct

LEMMA DistinctTail ==
  ASSUME NEW S, NEW q \in Seq(S), q # <<>>, Distinct(q)
  PROVE  Distinct(Tail(q)) /\ ~Queued(Tail(q), Head(q))
  <1>1. ASSUME NEW i \in 1..Len(Tail(q))
        PROVE  i + 1 \in 1..Len(q) /\ Tail(q)[i] = q[i + 1] /\ i + 1 # 1
    BY TailFacts
  <1>2. 1 \in 1..Len(q) /\ Head(q) = q[1]
    BY TailFacts
  <1>3. ASSUME NEW i \in 1..Len(Tail(q)), NEW j \in 1..Len(Tail(q)),
               Tail(q)[i] = Tail(q)[j]
        PROVE  i = j
    <2>1. i + 1 = j + 1
      BY <1>1, <1>3 DEF Distinct
    <2> QED
      BY <2>1
  <1>4. \A i \in 1..Len(Tail(q)) : Tail(q)[i] # Head(q)
    BY <1>1, <1>2 DEF Distinct
  <1> QED
    BY <1>3, <1>4 DEF Distinct, Queued

-----------------------------------------------------------------------------
(* Type correctness.                                                        *)
LEMMA PushTyped ==
  ASSUME HubTypeOK, NEW event \in Events, NEW receivers \in SUBSET Clients,
         Push(event, receivers)
  PROVE  /\ send' \in [Clients -> Seq(Events)]
         /\ \A c \in Clients : Len(send'[c]) <= BufferCap
         /\ dropped' \subseteq Clients
  <1>1. ASSUME NEW c \in Clients
        PROVE  /\ Append(send[c], event) \in Seq(Events)
               /\ Len(Append(send[c], event)) = Len(send[c]) + 1
               /\ Len(send[c]) \in Nat
               /\ send[c] \in Seq(Events)
               /\ Len(send[c]) <= BufferCap
    <2>1. send[c] \in Seq(Events)
      BY DEF HubTypeOK
    <2> QED
      BY <2>1 DEF HubTypeOK
  <1>2. send' \in [Clients -> Seq(Events)]
    BY <1>1 DEF Push
  <1>3. ASSUME NEW c \in Clients
        PROVE  Len(send'[c]) <= BufferCap
    <2>1. CASE c \in receivers /\ Len(send[c]) < BufferCap
      <3>1. send'[c] = Append(send[c], event)
        BY <2>1 DEF Push
      <3> QED
        BY <1>1, <2>1, <3>1
    <2>2. CASE ~(c \in receivers /\ Len(send[c]) < BufferCap)
      <3>1. send'[c] = send[c]
        BY <2>2 DEF Push
      <3> QED
        BY <1>1, <3>1
    <2> QED
      BY <2>1, <2>2
  <1>4. dropped' \subseteq Clients
    BY DEF Push, HubTypeOK
  <1> QED
    BY <1>2, <1>3, <1>4

LEMMA TypeInit == Init => HubTypeOK
  <1> SUFFICES ASSUME Init PROVE HubTypeOK
    OBVIOUS
  <1>1. handler \in [Clients -> HandlerPoints]
    BY DEF Init, HandlerPoints
  <1>2. send \in [Clients -> Seq(Events)] /\ view \in [Clients -> SUBSET Users]
    BY DEF Init
  <1>3. \A c \in Clients : Len(send[c]) <= BufferCap
    BY DEF Init
  <1>4. /\ registerQ \in Seq(Clients) /\ Len(registerQ) <= QueueCap
        /\ unregisterQ \in Seq(Clients) /\ Len(unregisterQ) <= QueueCap
    BY DEF Init
  <1>5. events \in 0..MaxEvents /\ kicks \in 0..MaxKicks
    BY DEF Init
  <1>7. crashed \in BOOLEAN
    BY DEF Init
  <1>6. /\ registry \subseteq Clients /\ closed \subseteq Clients
        /\ doomed \subseteq Clients /\ done \subseteq Clients
        /\ overtaken \subseteq Clients /\ early \subseteq Clients
        /\ dropped \subseteq Clients /\ announced \subseteq Users
        /\ hub \in Presence \cup {Selecting}
    BY DEF Init
  <1> QED
    BY <1>1, <1>2, <1>3, <1>4, <1>5, <1>6, <1>7 DEF HubTypeOK

LEMMA StreamTyped ==
  ASSUME HubTypeOK, NEW c \in Clients, Connect(c) \/ StreamStep(c)
  PROVE  HubTypeOK'
  <1>1. CASE Connect(c)
    BY <1>1 DEF Connect, HubTypeOK, HandlerPoints
  <1>2. CASE Register(c)
    <2>1. /\ registerQ' \in Seq(Clients)
          /\ Len(registerQ') = Len(registerQ) + 1
          /\ Len(registerQ) \in Nat
      BY <1>2 DEF Register, HubTypeOK
    <2>2. Len(registerQ') <= QueueCap
      BY <1>2, <2>1 DEF Register
    <2> QED
      BY <1>2, <2>1, <2>2 DEF Register, HubTypeOK, HandlerPoints
  <1>3. CASE SendInitialPresence(c)
    <2>1. Connected \subseteq Users
      BY DEF Connected, HubTypeOK
    <2> QED
      BY <1>3, <2>1 DEF SendInitialPresence, HubTypeOK, HandlerPoints
  <1>4. CASE Receive(c)
    <2>1. send[c] \in Seq(Events) /\ send[c] # <<>>
      BY <1>4 DEF Receive, HubTypeOK
    <2>2. /\ Head(send[c]) \in Events
          /\ Tail(send[c]) \in Seq(Events)
          /\ Len(send[c]) \in Nat
          /\ Len(Tail(send[c])) = Len(send[c]) - 1
      BY <2>1, TailFacts
    <2>3. view' \in [Clients -> SUBSET Users]
      <3> DEFINE event == Head(send[c])
      <3>1. CASE event.kind = "online"
        BY <1>4, <2>2, <3>1 DEF Receive, HubTypeOK, Events, Presence, Other
      <3>2. CASE event.kind = "offline"
        BY <1>4, <2>2, <3>2 DEF Receive, HubTypeOK, Events, Presence, Other
      <3>3. CASE event.kind = "other"
        BY <1>4, <2>2, <3>3 DEF Receive, HubTypeOK, Events, Presence, Other
      <3> QED
        BY <2>2, <3>1, <3>2, <3>3 DEF Events, Presence, Other
    <2>4. send' \in [Clients -> Seq(Events)]
      BY <1>4, <2>2 DEF Receive, HubTypeOK
    <2>5. ASSUME NEW d \in Clients PROVE Len(send'[d]) <= BufferCap
      <3>1. CASE d = c
        <4>1. send'[d] = Tail(send[c]) /\ Len(send[c]) <= BufferCap
          BY <1>4, <3>1 DEF Receive, HubTypeOK
        <4> QED
          BY <2>2, <4>1
      <3>2. CASE d # c
        BY <1>4, <3>2 DEF Receive, HubTypeOK
      <3> QED
        BY <3>1, <3>2
    <2> QED
      BY <1>4, <2>3, <2>4, <2>5 DEF Receive, HubTypeOK
  <1>5. CASE HangUp(c) \/ LeaveOnDone(c)
    BY <1>5 DEF HangUp, LeaveOnDone, Leave, HubTypeOK, HandlerPoints
  <1>6. CASE Unregister(c)
    <2>1. /\ unregisterQ' \in Seq(Clients)
          /\ Len(unregisterQ') = Len(unregisterQ) + 1
          /\ Len(unregisterQ) \in Nat
      BY <1>6 DEF Unregister, HubTypeOK
    <2>2. Len(unregisterQ') <= QueueCap
      BY <1>6, <2>1 DEF Unregister
    <2> QED
      BY <1>6, <2>1, <2>2 DEF Unregister, HubTypeOK, HandlerPoints
  <1> QED
    BY <1>1, <1>2, <1>3, <1>4, <1>5, <1>6 DEF StreamStep

LEMMA HubStepTyped ==
  ASSUME HubTypeOK, HubStep
  PROVE  HubTypeOK'
  <1>1. CASE HubRegister
    <2>1. /\ Head(registerQ) \in Clients
          /\ registerQ' \in Seq(Clients)
          /\ Len(registerQ) \in Nat
          /\ Len(registerQ') = Len(registerQ) - 1
      BY <1>1, TailFacts DEF HubRegister, HubTypeOK
    <2>2. Len(registerQ') <= QueueCap
      BY <2>1 DEF HubTypeOK
    <2>3. hub' \in Presence \cup {Selecting} /\ registry' \subseteq Clients
      BY <1>1, <2>1 DEF HubRegister, AddClient, HubTypeOK, Presence
    <2> QED
      BY <1>1, <2>1, <2>2, <2>3 DEF HubRegister, HubTypeOK
  <1>2. CASE HubUnregister
    <2>1. /\ Head(unregisterQ) \in Clients
          /\ unregisterQ' \in Seq(Clients)
          /\ Len(unregisterQ) \in Nat
          /\ Len(unregisterQ') = Len(unregisterQ) - 1
      BY <1>2, TailFacts DEF HubUnregister, HubTypeOK
    <2>2. Len(unregisterQ') <= QueueCap
      BY <2>1 DEF HubTypeOK
    <2>3. /\ hub' \in Presence \cup {Selecting}
          /\ registry' \subseteq Clients
          /\ closed' \subseteq Clients
          /\ overtaken' \subseteq Clients
      BY <1>2, <2>1 DEF HubUnregister, RemoveClient, HubTypeOK, Presence
    <2>4. send' \in [Clients -> Seq(Events)]
      BY <1>2, <2>1 DEF HubUnregister, HubTypeOK
    <2>5. ASSUME NEW c \in Clients PROVE Len(send'[c]) <= BufferCap
      BY <1>2, <2>1 DEF HubUnregister, HubTypeOK
    <2> QED
      BY <1>2, <2>1, <2>2, <2>3, <2>4, <2>5 DEF HubUnregister, HubTypeOK
  <1>3. CASE HubAnnounce
    <2>1. hub \in Presence /\ hub \in Events /\ registry \subseteq Clients
      BY <1>3 DEF HubAnnounce, HubTypeOK, Events
    <2>2. /\ send' \in [Clients -> Seq(Events)]
          /\ \A c \in Clients : Len(send'[c]) <= BufferCap
          /\ dropped' \subseteq Clients
      BY <1>3, <2>1, PushTyped DEF HubAnnounce
    <2>3. announced' \subseteq Users
      BY <1>3, <2>1 DEF HubAnnounce, HubTypeOK, Presence
    <2> QED
      BY <1>3, <2>2, <2>3 DEF HubAnnounce, HubTypeOK
  <1>4. CASE HubPanics
    BY <1>4 DEF HubPanics, HubTypeOK
  <1> QED
    BY <1>1, <1>2, <1>3, <1>4 DEF HubStep

LEMMA ServerTyped ==
  ASSUME HubTypeOK,
         ServerStep \/ \E u \in Users : DisconnectUserClients(u)
  PROVE  HubTypeOK'
  <1>1. Other \in Events
    BY DEF Events
  <1>2. ASSUME NEW scope \in SUBSET Users, Broadcast(scope)
        PROVE  HubTypeOK'
    <2>1. Receivers(scope) \in SUBSET Clients
      BY DEF Receivers, HubTypeOK
    <2>2. /\ send' \in [Clients -> Seq(Events)]
          /\ \A c \in Clients : Len(send'[c]) <= BufferCap
          /\ dropped' \subseteq Clients
      BY <1>1, <1>2, <2>1, PushTyped DEF Broadcast
    <2>3. events' \in 0..MaxEvents
      BY <1>2 DEF Broadcast, HubTypeOK
    <2> QED
      BY <1>2, <2>2, <2>3 DEF Broadcast, HubTypeOK
  <1>3. ASSUME NEW scope \in SUBSET Users, BroadcastPanics(scope)
        PROVE  HubTypeOK'
    <2>1. PICK reached \in SUBSET (Receivers(scope) \ closed) :
             Push(Other, reached)
      BY <1>3 DEF BroadcastPanics
    <2>2. reached \in SUBSET Clients
      BY <2>1 DEF Receivers, HubTypeOK
    <2>3. /\ send' \in [Clients -> Seq(Events)]
          /\ \A c \in Clients : Len(send'[c]) <= BufferCap
          /\ dropped' \subseteq Clients
      BY <1>1, <2>1, <2>2, PushTyped
    <2>4. events' \in 0..MaxEvents
      BY <1>3 DEF BroadcastPanics, HubTypeOK
    <2> QED
      BY <1>3, <2>3, <2>4 DEF BroadcastPanics, HubTypeOK
  <1>4. ASSUME NEW c \in Clients, CloseDone(c)
        PROVE  HubTypeOK'
    BY <1>4 DEF CloseDone, HubTypeOK
  <1>5. ASSUME NEW u \in Users, DisconnectUserClients(u)
        PROVE  HubTypeOK'
    <2>1. kicks' \in 0..MaxKicks
      BY <1>5 DEF DisconnectUserClients, HubTypeOK
    <2> QED
      BY <1>5, <2>1 DEF DisconnectUserClients, HubTypeOK, ClientsOf
  <1> QED
    BY <1>2, <1>3, <1>4, <1>5 DEF ServerStep

LEMMA StutterTyped ==
  ASSUME HubTypeOK, UNCHANGED hubVars
  PROVE  HubTypeOK'
  BY DEF HubTypeOK, hubVars

\* No action of the hub, of a handler or of the rest of the server takes the
\* registry, the queues and the buffers out of their types and capacities.
THEOREM HubTypeCorrect == Spec => []HubTypeOK
  <1>1. ASSUME HubTypeOK, [Next]_hubVars
        PROVE  HubTypeOK'
    BY <1>1, StreamTyped, HubStepTyped, ServerTyped, StutterTyped DEF Next
  <1> QED
    BY TypeInit, <1>1, PTL DEF Spec

-----------------------------------------------------------------------------
(* Where a client is: its queues, the registry and its Send channel.        *)
ChannelInv == /\ Distinct(registerQ)
              /\ \A c \in Clients : ClientInv(c)
              /\ OnlyOvertakenIsClosed

LEMMA ChannelInit == Init => ChannelInv
  <1> SUFFICES ASSUME Init PROVE ChannelInv
    OBVIOUS
  <1>1. \A c : ~Queued(registerQ, c) /\ ~Queued(unregisterQ, c)
    BY DEF Init, Queued
  <1>2. Distinct(registerQ)
    BY DEF Init, Distinct
  <1> QED
    BY <1>1, <1>2 DEF Init, ChannelInv, ClientInv, BeforeRegister, BeforeGone,
       RegisteredOnce, ClosedTooEarly, OnlyOvertakenIsClosed

LEMMA ChannelFrame ==
  ASSUME ChannelInv,
         UNCHANGED <<handler, registerQ, unregisterQ, registry, closed,
                     overtaken>>
  PROVE  ChannelInv'
  BY DEF ChannelInv, ClientInv, BeforeRegister, BeforeGone, RegisteredOnce,
     ClosedTooEarly, OnlyOvertakenIsClosed, Queued, Distinct

\* A handler that moves on, without touching a queue, to a point where as
\* much is known of its client as before.
LEMMA HandlerMoves ==
  ASSUME HubTypeOK, ChannelInv, NEW c \in Clients,
         NEW point \in HandlerPoints \ {"gone"}, handler[c] # "gone",
         point \in {"new", "registering"} =>
            handler[c] \in {"new", "registering"},
         handler' = [handler EXCEPT ![c] = point],
         UNCHANGED <<registerQ, unregisterQ, registry, closed, overtaken>>
  PROVE  ChannelInv'
  <1>1. ASSUME NEW d \in Clients PROVE ClientInv(d)'
    <2>1. ClientInv(d)
      BY DEF ChannelInv
    <2>2. CASE d = c
      <3>1. handler'[d] = point
        BY <2>2 DEF HubTypeOK
      <3> QED
        BY <2>1, <2>2, <3>1 DEF ClientInv, BeforeRegister, BeforeGone,
           RegisteredOnce, ClosedTooEarly, Queued
    <2>3. CASE d # c
      <3>1. handler'[d] = handler[d]
        BY <2>3 DEF HubTypeOK
      <3> QED
        BY <2>1, <3>1 DEF ClientInv, BeforeRegister, BeforeGone,
           RegisteredOnce, ClosedTooEarly, Queued
    <2> QED
      BY <2>2, <2>3
  <1> QED
    BY <1>1 DEF ChannelInv, OnlyOvertakenIsClosed, Distinct

LEMMA RegisterKeepsChannels ==
  ASSUME HubTypeOK, ChannelInv, NEW c \in Clients, Register(c)
  PROVE  ChannelInv'
  <1>1. registerQ \in Seq(Clients) /\ registerQ' = Append(registerQ, c)
    BY DEF Register, HubTypeOK
  <1>2. ~Queued(registerQ, c) /\ c \notin registry /\ c \notin closed
    BY DEF Register, ChannelInv, ClientInv, BeforeRegister, BeforeGone
  <1>3. Distinct(registerQ)'
    BY <1>1, <1>2, DistinctAppend DEF ChannelInv
  <1>4. ASSUME NEW d \in Clients PROVE ClientInv(d)'
    <2>1. ClientInv(d)
      BY DEF ChannelInv
    <2>2. Queued(registerQ', d) <=> Queued(registerQ, d) \/ d = c
      BY <1>1, QueuedAppend
    <2>3. Queued(unregisterQ', d) <=> Queued(unregisterQ, d)
      BY DEF Register
    <2>4. d # c => handler'[d] = handler[d]
      BY DEF Register, HubTypeOK
    <2>5. handler[c] = "registering" /\ handler'[c] = "registered"
      BY DEF Register, HubTypeOK
    <2>6. UNCHANGED <<registry, closed, overtaken>>
      BY DEF Register
    <2> QED
      BY <1>2, <2>1, <2>2, <2>3, <2>4, <2>5, <2>6 DEF ClientInv,
         BeforeRegister, BeforeGone, RegisteredOnce, ClosedTooEarly
  <1>5. OnlyOvertakenIsClosed'
    BY DEF Register, ChannelInv, OnlyOvertakenIsClosed
  <1> QED
    BY <1>3, <1>4, <1>5 DEF ChannelInv

LEMMA UnregisterKeepsChannels ==
  ASSUME HubTypeOK, ChannelInv, NEW c \in Clients, Unregister(c)
  PROVE  ChannelInv'
  <1>1. unregisterQ \in Seq(Clients) /\ unregisterQ' = Append(unregisterQ, c)
    BY DEF Unregister, HubTypeOK
  <1>2. ASSUME NEW d \in Clients PROVE ClientInv(d)'
    <2>1. ClientInv(d)
      BY DEF ChannelInv
    <2>2. Queued(unregisterQ', d) <=> Queued(unregisterQ, d) \/ d = c
      BY <1>1, QueuedAppend
    <2>3. Queued(registerQ', d) <=> Queued(registerQ, d)
      BY DEF Unregister
    <2>4. d # c => handler'[d] = handler[d]
      BY DEF Unregister, HubTypeOK
    <2>5. handler'[c] = "gone"
      BY DEF Unregister, HubTypeOK
    <2>6. UNCHANGED <<registry, closed, overtaken>>
      BY DEF Unregister
    <2> QED
      BY <2>1, <2>2, <2>3, <2>4, <2>5, <2>6 DEF ClientInv, BeforeRegister,
         BeforeGone, RegisteredOnce, ClosedTooEarly
  <1> QED
    BY <1>2 DEF Unregister, ChannelInv, OnlyOvertakenIsClosed, Distinct

LEMMA HubRegisterKeepsChannels ==
  ASSUME HubTypeOK, ChannelInv, HubRegister
  PROVE  ChannelInv'
  <1> DEFINE c == Head(registerQ)
  <1>1. /\ registerQ \in Seq(Clients) /\ registerQ # <<>>
        /\ registerQ' = Tail(registerQ)
        /\ registry' = registry \cup {c}
        /\ UNCHANGED <<handler, unregisterQ, closed, overtaken>>
    BY DEF HubRegister, AddClient, HubTypeOK
  <1>2. c \in Clients /\ Queued(registerQ, c) /\ ~Queued(registerQ', c)
    BY <1>1, TailFacts, QueuedTail, DistinctTail DEF ChannelInv
  <1>3. Distinct(registerQ)'
    BY <1>1, DistinctTail DEF ChannelInv
  <1>4. ClientInv(c)
    BY <1>2 DEF ChannelInv
  <1>5. ASSUME NEW d \in Clients PROVE ClientInv(d)'
    <2>1. ClientInv(d)
      BY DEF ChannelInv
    <2>2. Queued(registerQ', d) => Queued(registerQ, d) /\ d # c
      BY <1>1, <1>2, QueuedTail
    <2>3. Queued(unregisterQ', d) <=> Queued(unregisterQ, d)
      BY <1>1
    <2>4. handler'[d] = handler[d]
      BY <1>1
    <2> HIDE DEF c
    <2> QED
      BY <1>1, <1>2, <1>4, <2>1, <2>2, <2>3, <2>4 DEF ClientInv,
         BeforeRegister, BeforeGone, RegisteredOnce, ClosedTooEarly
  <1>6. OnlyOvertakenIsClosed'
    <2>1. c \in closed => c \in overtaken
      BY <1>2, <1>4 DEF ClientInv, ClosedTooEarly
    <2> HIDE DEF c
    <2> QED
      BY <1>1, <2>1 DEF ChannelInv, OnlyOvertakenIsClosed
  <1> QED
    BY <1>3, <1>5, <1>6 DEF ChannelInv

LEMMA HubUnregisterKeepsChannels ==
  ASSUME HubTypeOK, ChannelInv, HubUnregister
  PROVE  ChannelInv'
  <1> DEFINE c == Head(unregisterQ)
  <1>1. /\ unregisterQ \in Seq(Clients) /\ unregisterQ # <<>>
        /\ unregisterQ' = Tail(unregisterQ)
        /\ registry' = registry \ {c}
        /\ closed' = closed \cup {c}
        /\ overtaken' = IF c \in registry THEN overtaken
                         ELSE overtaken \cup {c}
        /\ UNCHANGED <<handler, registerQ>>
    BY DEF HubUnregister, RemoveClient, HubTypeOK
  <1>2. c \in Clients /\ Queued(unregisterQ, c)
    BY <1>1, TailFacts, QueuedTail
  <1>3. ClientInv(c)
    BY <1>2 DEF ChannelInv
  <1>4. handler[c] = "gone"
    BY <1>2, <1>3 DEF ClientInv, BeforeGone
  <1>5. ASSUME NEW d \in Clients PROVE ClientInv(d)'
    <2>1. ClientInv(d)
      BY DEF ChannelInv
    <2>2. Queued(unregisterQ', d) => Queued(unregisterQ, d)
      BY <1>1, QueuedTail
    <2>3. Queued(registerQ', d) <=> Queued(registerQ, d)
      BY <1>1
    <2>4. handler'[d] = handler[d]
      BY <1>1
    <2> HIDE DEF c
    <2> QED
      BY <1>1, <1>3, <1>4, <2>1, <2>2, <2>3, <2>4 DEF ClientInv,
         BeforeRegister, BeforeGone, RegisteredOnce, ClosedTooEarly
  <1>6. OnlyOvertakenIsClosed'
    <2> HIDE DEF c
    <2> QED
      BY <1>1 DEF ChannelInv, OnlyOvertakenIsClosed
  <1> QED
    BY <1>1, <1>5, <1>6 DEF ChannelInv, Distinct

LEMMA ChannelStep ==
  ASSUME HubTypeOK, ChannelInv, [Next]_hubVars
  PROVE  ChannelInv'
  <1>1. ASSUME NEW c \in Clients, Connect(c) \/ StreamStep(c)
        PROVE  ChannelInv'
    <2>1. CASE Connect(c)
      BY <2>1, HandlerMoves DEF Connect, HandlerPoints
    <2>2. CASE Register(c)
      BY <2>2, RegisterKeepsChannels
    <2>3. CASE SendInitialPresence(c)
      BY <2>3, HandlerMoves DEF SendInitialPresence, HandlerPoints
    <2>4. CASE Receive(c)
      BY <2>4, ChannelFrame DEF Receive
    <2>5. CASE HangUp(c) \/ LeaveOnDone(c)
      BY <2>5, HandlerMoves DEF HangUp, LeaveOnDone, Leave, HandlerPoints
    <2>6. CASE Unregister(c)
      BY <2>6, UnregisterKeepsChannels
    <2> QED
      BY <1>1, <2>1, <2>2, <2>3, <2>4, <2>5, <2>6 DEF StreamStep
  <1>2. CASE HubStep
    <2>1. CASE HubRegister
      BY <2>1, HubRegisterKeepsChannels
    <2>2. CASE HubUnregister
      BY <2>2, HubUnregisterKeepsChannels
    <2>3. CASE HubAnnounce
      BY <2>3, ChannelFrame DEF HubAnnounce
    <2>4. CASE HubPanics
      BY <2>4, ChannelFrame DEF HubPanics
    <2> QED
      BY <1>2, <2>1, <2>2, <2>3, <2>4 DEF HubStep
  <1>3. CASE ServerStep
    BY <1>3, ChannelFrame DEF ServerStep, Broadcast, BroadcastPanics, CloseDone
  <1>4. ASSUME NEW u \in Users, DisconnectUserClients(u)
        PROVE  ChannelInv'
    BY <1>4, ChannelFrame DEF DisconnectUserClients
  <1>5. CASE UNCHANGED hubVars
    BY <1>5, ChannelFrame DEF hubVars
  <1> QED
    BY <1>1, <1>2, <1>3, <1>4, <1>5 DEF Next

-----------------------------------------------------------------------------
(* What the hub has announced and what it is about to announce.             *)
LEMMA AnnouncedInit == Init => AnnouncedInv
  BY DEF Init, AnnouncedInv, PresenceAnnounced, Connected, Selecting

LEMMA AnnouncedFrame ==
  ASSUME AnnouncedInv, UNCHANGED <<registry, hub, announced>>
  PROVE  AnnouncedInv'
  BY DEF AnnouncedInv, PresenceAnnounced, Connected

LEMMA AnnouncedHubStep ==
  ASSUME HubTypeOK, AnnouncedInv, HubStep
  PROVE  AnnouncedInv'
  <1>1. CASE HubRegister
    <2> DEFINE c == Head(registerQ)
    <2>1. c \in Clients /\ announced = Connected /\ announced' = announced
      BY <1>1, TailFacts DEF HubRegister, HubTypeOK, AnnouncedInv,
         PresenceAnnounced
    <2>2. Connected' = Connected \cup {UserOf[c]}
      BY <1>1 DEF HubRegister, AddClient, Connected
    <2>3. CASE ClientsOf(UserOf[c]) = {}
      <3>1. hub' = [kind |-> "online", user |-> UserOf[c]]
        BY <1>1, <2>3 DEF HubRegister, AddClient
      <3> HIDE DEF c
      <3> QED
        BY <2>1, <2>2, <3>1 DEF AnnouncedInv, PresenceAnnounced, Selecting
    <2>4. CASE ClientsOf(UserOf[c]) # {}
      <3>1. hub' = Selecting /\ UserOf[c] \in Connected
        BY <1>1, <2>4 DEF HubRegister, AddClient, ClientsOf, Connected
      <3> HIDE DEF c
      <3> QED
        BY <2>1, <2>2, <3>1 DEF AnnouncedInv, PresenceAnnounced, Selecting
    <2> QED
      BY <2>3, <2>4
  <1>2. CASE HubUnregister
    <2> DEFINE c == Head(unregisterQ)
               mine == ClientsOf(UserOf[c])
    <2>1. c \in Clients /\ announced = Connected /\ announced' = announced
      BY <1>2, TailFacts DEF HubUnregister, HubTypeOK, AnnouncedInv,
         PresenceAnnounced
    <2>2. registry' = registry \ {c}
      BY <1>2 DEF HubUnregister, RemoveClient
    <2>3. CASE mine = {c}
      <3>1. hub' = [kind |-> "offline", user |-> UserOf[c]]
        BY <1>2, <2>3 DEF HubUnregister, RemoveClient
      <3>2. Connected' = Connected \ {UserOf[c]}
        BY <2>2, <2>3 DEF Connected, ClientsOf
      <3> HIDE DEF c
      <3> QED
        BY <2>1, <3>1, <3>2 DEF AnnouncedInv, PresenceAnnounced, Selecting
    <2>4. CASE mine # {c}
      <3>1. hub' = Selecting
        BY <1>2, <2>4 DEF HubUnregister, RemoveClient
      <3>2. Connected' = Connected
        BY <2>2, <2>4 DEF Connected, ClientsOf
      <3> QED
        BY <2>1, <3>1, <3>2 DEF AnnouncedInv, PresenceAnnounced, Selecting
    <2> QED
      BY <2>3, <2>4
  <1>3. CASE HubAnnounce
    <2>1. /\ registry' = registry /\ hub' = Selecting
          /\ hub \in Presence
          /\ announced' = IF hub.kind = "online"
                          THEN announced \cup {hub.user}
                          ELSE announced \ {hub.user}
      BY <1>3 DEF HubAnnounce, HubTypeOK
    <2>2. announced' = Connected
      BY <2>1 DEF AnnouncedInv, Presence
    <2>3. Connected' = Connected
      BY <2>1 DEF Connected
    <2> QED
      BY <2>1, <2>2, <2>3 DEF AnnouncedInv, PresenceAnnounced, Selecting
  <1>4. CASE HubPanics
    BY <1>4, AnnouncedFrame DEF HubPanics
  <1> QED
    BY <1>1, <1>2, <1>3, <1>4 DEF HubStep

LEMMA AnnouncedStep ==
  ASSUME HubTypeOK, AnnouncedInv, [Next]_hubVars
  PROVE  AnnouncedInv'
  <1>1. ASSUME NEW c \in Clients, Connect(c) \/ StreamStep(c)
        PROVE  AnnouncedInv'
    BY <1>1, AnnouncedFrame DEF Connect, StreamStep, Register,
       SendInitialPresence, Receive, HangUp, LeaveOnDone, Leave, Unregister
  <1>2. CASE ServerStep
    BY <1>2, AnnouncedFrame DEF ServerStep, Broadcast, BroadcastPanics,
       CloseDone
  <1>3. ASSUME NEW u \in Users, DisconnectUserClients(u)
        PROVE  AnnouncedInv'
    BY <1>3, AnnouncedFrame DEF DisconnectUserClients
  <1>4. CASE UNCHANGED hubVars
    BY <1>4, AnnouncedFrame DEF hubVars
  <1> QED
    BY <1>1, <1>2, <1>3, <1>4, AnnouncedHubStep DEF Next

-----------------------------------------------------------------------------
\* The strengthening is inductive: it holds in every reachable state.
THEOREM HubInvariant == Spec => []HubInv
  <1>1. ASSUME HubTypeOK, ChannelInv, AnnouncedInv, [Next]_hubVars
        PROVE  HubTypeOK' /\ ChannelInv' /\ AnnouncedInv'
    <2>1. HubTypeOK'
      BY <1>1, StreamTyped, HubStepTyped, ServerTyped, StutterTyped DEF Next
    <2> QED
      BY <1>1, <2>1, ChannelStep, AnnouncedStep
  <1>2. HubInv <=> HubTypeOK /\ ChannelInv /\ AnnouncedInv
    BY DEF HubInv, ChannelInv
  <1> QED
    BY TypeInit, ChannelInit, AnnouncedInit, <1>1, <1>2, PTL DEF Spec

\* Hub.Run, and every broadcast, sends on a closed channel only if the hub's
\* select took the client's unregistration before its registration.
THEOREM OnlyOvertakenPanics == Spec => []OnlyOvertakenIsClosed
  <1>1. HubInv => OnlyOvertakenIsClosed
    BY DEF HubInv
  <1> QED
    BY <1>1, HubInvariant, PTL

\* No handler that still streams reads from a closed Send channel: the channel
\* is closed by removeClient only, after the handler has unregistered.
THEOREM StreamsStayOpen == Spec => []StreamsAreOpen
  <1>1. HubInv => StreamsAreOpen
    BY DEF HubInv, ClientInv, BeforeGone, StreamsAreOpen
  <1> QED
    BY <1>1, HubInvariant, PTL

\* The presence last broadcast about every user is whether the registry has a
\* connection of it, for any number of users, tabs and reconnections.
THEOREM PresenceFollowsRegistry == Spec => []PresenceAnnounced
  <1>1. HubInv => PresenceAnnounced
    BY DEF HubInv, AnnouncedInv
  <1> QED
    BY <1>1, HubInvariant, PTL

-----------------------------------------------------------------------------
(* What is buffered for a client, and what its reader believes.             *)
LEMMA QuietAppend ==
  ASSUME NEW q \in Seq(Events), NEW event \in Events, NEW u, ~About(event, u)
  PROVE  /\ Silent(Append(q, event), u) <=> Silent(q, u)
         /\ \A kind : LastSays(q, u, kind) => LastSays(Append(q, event), u, kind)
  <1> DEFINE r == Append(q, event)
  <1>1. /\ Len(r) = Len(q) + 1 /\ Len(q) \in Nat /\ r[Len(q) + 1] = event
        /\ \A i \in 1..Len(q) : r[i] = q[i]
    OBVIOUS
  <1> HIDE DEF r
  <1>2. \A i \in 1..Len(r) : i \in 1..Len(q) \/ i = Len(q) + 1
    BY <1>1
  <1>3. \A i \in 1..Len(q) : i \in 1..Len(r)
    BY <1>1
  <1>4. Silent(r, u) <=> Silent(q, u)
    BY <1>1, <1>2, <1>3 DEF Silent
  <1>5. ASSUME NEW kind, LastSays(q, u, kind) PROVE LastSays(r, u, kind)
    <2>1. PICK i \in 1..Len(q) : /\ q[i] = [kind |-> kind, user |-> u]
                                 /\ \A j \in 1..Len(q) : About(q[j], u) => j <= i
      BY <1>5 DEF LastSays
    <2>2. \A j \in 1..Len(r) : About(r[j], u) => j <= i
      BY <1>1, <1>2, <2>1
    <2> QED
      BY <1>1, <1>3, <2>1, <2>2 DEF LastSays
  <1> QED
    BY <1>4, <1>5 DEF r

LEMMA SayingAppend ==
  ASSUME NEW q \in Seq(Events), NEW event \in Presence
  PROVE  /\ LastSays(Append(q, event), event.user, event.kind)
         /\ ~Silent(Append(q, event), event.user)
  <1> DEFINE r == Append(q, event)
  <1>1. Len(r) = Len(q) + 1 /\ Len(q) \in Nat /\ r[Len(q) + 1] = event
    OBVIOUS
  <1> HIDE DEF r
  <1>2. Len(q) + 1 \in 1..Len(r) /\ \A j \in 1..Len(r) : j <= Len(q) + 1
    BY <1>1
  <1>3. event = [kind |-> event.kind, user |-> event.user]
    BY DEF Presence
  <1> QED
    BY <1>1, <1>2, <1>3 DEF LastSays, Silent, About, r

LEMMA HeadTaken ==
  ASSUME NEW q \in Seq(Events), q # <<>>, NEW u
  PROVE  /\ Silent(q, u) <=> Silent(Tail(q), u) /\ ~About(Head(q), u)
         /\ \A kind : LastSays(q, u, kind) =>
                \/ LastSays(Tail(q), u, kind)
                \/ Silent(Tail(q), u) /\ Head(q) = [kind |-> kind, user |-> u]
  <1> DEFINE r == Tail(q)
  <1>1. /\ Len(q) \in Nat \ {0} /\ Len(r) = Len(q) - 1 /\ Head(q) = q[1]
        /\ \A i \in 1..Len(r) : r[i] = q[i + 1]
    BY TailFacts
  <1> HIDE DEF r
  <1>2. \A i \in 1..Len(q) : i # 1 => i - 1 \in 1..Len(r) /\ r[i - 1] = q[i]
    BY <1>1
  <1>3. \A i \in 1..Len(r) : i + 1 \in 1..Len(q)
    BY <1>1
  <1>4. 1 \in 1..Len(q)
    BY <1>1
  <1>5. Silent(q, u) <=> Silent(r, u) /\ ~About(Head(q), u)
    BY <1>1, <1>2, <1>3, <1>4 DEF Silent
  <1>6. ASSUME NEW kind, LastSays(q, u, kind)
        PROVE  \/ LastSays(r, u, kind)
               \/ Silent(r, u) /\ Head(q) = [kind |-> kind, user |-> u]
    <2>1. PICK i \in 1..Len(q) : /\ q[i] = [kind |-> kind, user |-> u]
                                 /\ \A j \in 1..Len(q) : About(q[j], u) => j <= i
      BY <1>6 DEF LastSays
    <2>2. \A j \in 1..Len(r) : About(r[j], u) => j + 1 <= i
      BY <1>1, <1>3, <2>1
    <2>3. CASE i = 1
      <3>1. Silent(r, u)
        BY <1>1, <2>2, <2>3 DEF Silent
      <3> QED
        BY <1>1, <2>1, <2>3, <3>1
    <2>4. CASE i # 1
      <3>1. i - 1 \in 1..Len(r) /\ r[i - 1] = [kind |-> kind, user |-> u]
        BY <1>2, <2>1, <2>4
      <3>2. \A j \in 1..Len(r) : About(r[j], u) => j <= i - 1
        BY <1>1, <2>1, <2>2
      <3> QED
        BY <3>1, <3>2 DEF LastSays
    <2> QED
      BY <2>3, <2>4
  <1> QED
    BY <1>5, <1>6 DEF r

LEMMA NothingSaid == \A u : Silent(<<>>, u)
  BY DEF Silent

LEMMA SaidOnce ==
  ASSUME NEW q, NEW u, NEW kind, LastSays(q, u, kind), kind \in {"online", "offline"},
         u \in Users
  PROVE  ~Silent(q, u)
  BY DEF LastSays, Silent, About, Presence

LEMMA BuffersInit == Init => BuffersOK
  BY DEF Init, BuffersOK, BufferInv, EmptyUntilRegistered, EarlyIsRegistered,
     BufferAnnounces, ReaderKnows

\* A client that a step leaves as it is, but for the point of its handler.
LEMMA BufferFrame ==
  ASSUME NEW c \in Clients, BufferInv(c), UNCHANGED <<registry, hub, announced, dropped>>,
         send'[c] = send[c], view'[c] = view[c],
         c \in early' => c \in early /\ handler'[c] \in {"streaming", "leaving"}
  PROVE  BufferInv(c)'
  <1>1. /\ EmptyUntilRegistered(c)' /\ EarlyIsRegistered(c)'
    BY DEF BufferInv, EmptyUntilRegistered, EarlyIsRegistered
  <1>2. BufferAnnounces(c)'
    BY DEF BufferInv, BufferAnnounces, Silent, LastSays, Status
  <1>3. ReaderKnows(c)'
    BY DEF BufferInv, ReaderKnows, Silent, Connected
  <1> QED
    BY <1>1, <1>2, <1>3 DEF BufferInv

LEMMA StreamBuffers ==
  ASSUME HubTypeOK, AnnouncedInv, BuffersOK, NEW c \in Clients,
         Connect(c) \/ StreamStep(c)
  PROVE  BuffersOK'
  <1> SUFFICES ASSUME NEW d \in Clients PROVE BufferInv(d)'
    BY DEF BuffersOK
  <1>1. BufferInv(d)
    BY DEF BuffersOK
  <1>2. handler \in [Clients -> HandlerPoints] /\ view \in [Clients -> SUBSET Users]
        /\ send \in [Clients -> Seq(Events)]
    BY DEF HubTypeOK
  <1>3. d \in early => d \in registry /\ handler[d] \in {"streaming", "leaving"}
    BY <1>1 DEF BufferInv, EarlyIsRegistered
  <1>4. CASE Connect(c) \/ Register(c)
    <2>1. /\ UNCHANGED <<registry, hub, announced, dropped, send, view, early>>
          /\ d # c => handler'[d] = handler[d]
          /\ handler[c] \in {"new", "registering"}
      BY <1>2, <1>4 DEF Connect, Register
    <2>2. d \in early' => d \in early /\ handler'[d] \in {"streaming", "leaving"}
      BY <1>3, <2>1
    <2> QED
      BY <1>1, <2>1, <2>2, BufferFrame
  <1>5. CASE HangUp(c) \/ LeaveOnDone(c)
    <2>1. /\ UNCHANGED <<registry, hub, announced, dropped, send, view, early>>
          /\ handler' = [handler EXCEPT ![c] = "leaving"]
      BY <1>5 DEF HangUp, LeaveOnDone, Leave
    <2>2. d \in early' => d \in early /\ handler'[d] \in {"streaming", "leaving"}
      BY <1>2, <1>3, <2>1
    <2> QED
      BY <1>1, <2>1, <2>2, BufferFrame
  <1>6. CASE Unregister(c)
    <2>1. /\ UNCHANGED <<registry, hub, announced, dropped, send>> /\ early' = early \ {c}
          /\ d # c => handler'[d] = handler[d] /\ view'[d] = view[d]
      BY <1>2, <1>6 DEF Unregister
    <2>2. CASE d # c
      BY <1>1, <1>3, <2>1, <2>2, BufferFrame
    <2>3. CASE d = c
      <3>1. d \notin early'
        BY <2>1, <2>3
      <3>2. EmptyUntilRegistered(d)' /\ EarlyIsRegistered(d)' /\ ReaderKnows(d)'
        BY <1>1, <2>1, <3>1 DEF BufferInv, EmptyUntilRegistered, EarlyIsRegistered,
           ReaderKnows
      <3>3. BufferAnnounces(d)'
        BY <1>1, <2>1 DEF BufferInv, BufferAnnounces, Silent, LastSays, Status
      <3> QED
        BY <3>2, <3>3 DEF BufferInv
    <2> QED
      BY <2>2, <2>3
  <1>7. CASE SendInitialPresence(c)
    <2>1. /\ UNCHANGED <<registry, hub, announced, dropped, send>>
          /\ early' = IF c \in registry THEN early \cup {c} ELSE early
          /\ d # c => handler'[d] = handler[d] /\ view'[d] = view[d]
          /\ handler[c] = "registered" /\ handler'[c] = "streaming" /\ view'[c] = Connected
      BY <1>2, <1>7 DEF SendInitialPresence
    <2>2. CASE d # c
      BY <1>1, <1>3, <2>1, <2>2, BufferFrame
    <2>3. CASE d = c
      <3>1. EmptyUntilRegistered(d)' /\ EarlyIsRegistered(d)'
        BY <1>1, <1>3, <2>1, <2>3 DEF BufferInv, EmptyUntilRegistered, EarlyIsRegistered
      <3>2. BufferAnnounces(d)'
        BY <1>1, <2>1 DEF BufferInv, BufferAnnounces, Silent, LastSays, Status
      <3>3. view'[d] = Connected'
        BY <2>1, <2>3 DEF Connected
      <3>4. ReaderKnows(d)'
        BY <3>3 DEF ReaderKnows
      <3> QED
        BY <3>1, <3>2, <3>4 DEF BufferInv
    <2> QED
      BY <2>2, <2>3
  <1>8. CASE Receive(c)
    <2> DEFINE q == send[c]
    <2>1. /\ UNCHANGED <<registry, hub, announced, dropped, early, handler>>
          /\ q # <<>> /\ q \in Seq(Events) /\ send'[c] = Tail(q)
          /\ d # c => send'[d] = send[d] /\ view'[d] = view[d]
      BY <1>2, <1>8 DEF Receive
    <2>2. CASE d # c
      BY <1>1, <1>3, <2>1, <2>2, BufferFrame
    <2>3. CASE d = c
      <3>1. EmptyUntilRegistered(d)' /\ EarlyIsRegistered(d)'
        BY <1>1, <2>1, <2>3 DEF BufferInv, EmptyUntilRegistered, EarlyIsRegistered
      <3>2. ASSUME NEW u \in Users, c \in registry \ dropped
            PROVE  \/ Silent(q, u) /\ Silent(Tail(q), u) /\ ~About(Head(q), u)
                   \/ LastSays(Tail(q), u, Status(u))
                   \/ Silent(Tail(q), u) /\ Head(q) = [kind |-> Status(u), user |-> u]
        <4>1. Silent(q, u) \/ LastSays(q, u, Status(u))
          BY <1>1, <2>3, <3>2 DEF BufferInv, BufferAnnounces
        <4> HIDE DEF q
        <4> QED
          BY <2>1, <4>1, HeadTaken
      <3>3. BufferAnnounces(d)'
        <4> SUFFICES ASSUME c \in registry \ dropped, NEW u \in Users
                     PROVE  Silent(Tail(q), u) \/ LastSays(Tail(q), u, Status(u))
          BY <2>1, <2>3 DEF BufferAnnounces, Status
        <4> QED
          BY <3>2
      <3>4. ASSUME NEW u \in Users, c \in registry \ dropped, c \in early, Silent(Tail(q), u)
            PROVE  \/ u \in view'[c] <=> u \in Connected
                   \/ hub # Selecting /\ hub.user = u
        <4> DEFINE event == Head(q)
        <4>1. event \in Events
          BY <2>1, TailFacts
        <4>2. view'[c] = CASE event.kind = "online"  -> view[c] \cup {event.user}
                           [] event.kind = "offline" -> view[c] \ {event.user}
                           [] event.kind = "other"   -> view[c]
          BY <1>2, <1>8 DEF Receive
        <4>3. CASE ~About(event, u)
          <5>1. Silent(q, u)
            BY <2>1, <3>4, <4>3, HeadTaken
          <5>2. \/ u \in view[c] <=> u \in Connected
                \/ hub # Selecting /\ hub.user = u
            BY <1>1, <2>3, <3>4, <5>1 DEF BufferInv, ReaderKnows
          <5>3. u \in view'[c] <=> u \in view[c]
            <6> HIDE DEF event
            <6>1. CASE event \in Presence
              BY <4>2, <4>3, <6>1 DEF About, Presence
            <6>2. CASE event = Other
              BY <4>2, <6>2 DEF Other
            <6> QED
              BY <4>1, <6>1, <6>2 DEF Events
          <5> QED
            BY <5>2, <5>3
        <4>4. CASE About(event, u)
          <5>1. Status(u) \in {"online", "offline"}
            BY DEF Status
          <5>2. event = [kind |-> Status(u), user |-> u]
            BY <3>2, <3>4, <4>4, <5>1, SaidOnce
          <5> HIDE DEF event
          <5>3. u \in view'[c] <=> u \in announced
            BY <4>2, <5>2 DEF Status
          <5>4. (u \in announced <=> u \in Connected) \/ (hub # Selecting /\ hub.user = u)
            BY DEF AnnouncedInv, PresenceAnnounced, HubTypeOK, Presence
          <5> QED
            BY <5>3, <5>4
        <4> QED
          BY <4>3, <4>4
      <3>5. ReaderKnows(d)'
        <4>1. Connected' = Connected
          BY <2>1 DEF Connected
        <4> QED
          BY <2>1, <2>3, <3>4, <4>1 DEF ReaderKnows
      <3> QED
        BY <3>1, <3>3, <3>5 DEF BufferInv
    <2> QED
      BY <2>2, <2>3
  <1> QED
    BY <1>4, <1>5, <1>6, <1>7, <1>8 DEF StreamStep

\* An event that says nothing of presence.
LEMMA OtherPushed ==
  ASSUME HubTypeOK, BuffersOK, NEW receivers, receivers \subseteq registry,
         Push(Other, receivers),
         UNCHANGED <<handler, registry, hub, announced, view, early>>
  PROVE  BuffersOK'
  <1> SUFFICES ASSUME NEW c \in Clients PROVE BufferInv(c)'
    BY DEF BuffersOK
  <1>1. BufferInv(c) /\ send[c] \in Seq(Events) /\ Other \in Events
    BY DEF BuffersOK, HubTypeOK, Events
  <1>2. Connected' = Connected
    BY DEF Connected
  <1>3. EarlyIsRegistered(c)'
    BY <1>1 DEF BufferInv, EarlyIsRegistered
  <1>4. EmptyUntilRegistered(c)'
    BY <1>1 DEF BufferInv, EmptyUntilRegistered, Push
  <1>5. \A u \in Users : ~About(Other, u)
    BY DEF About, Presence, Other
  <1>6. c \in registry' \ dropped' => c \in registry \ dropped
    BY DEF Push
  <1>7. ASSUME NEW u \in Users
        PROVE  /\ Silent(send'[c], u) <=> Silent(send[c], u)
               /\ LastSays(send[c], u, Status(u)) => LastSays(send'[c], u, Status(u))
    <2>1. send'[c] = Append(send[c], Other) \/ send'[c] = send[c]
      BY DEF Push
    <2>2. /\ Silent(Append(send[c], Other), u) <=> Silent(send[c], u)
          /\ LastSays(send[c], u, Status(u)) => LastSays(Append(send[c], Other), u, Status(u))
      BY <1>1, <1>5, QuietAppend
    <2> QED
      BY <2>1, <2>2
  <1>8. BufferAnnounces(c)'
    BY <1>1, <1>6, <1>7 DEF BufferInv, BufferAnnounces, Status
  <1>9. ReaderKnows(c)'
    BY <1>1, <1>2, <1>6, <1>7 DEF BufferInv, ReaderKnows
  <1> QED
    BY <1>3, <1>4, <1>8, <1>9 DEF BufferInv

\* The presence change that the hub was about to announce.
LEMMA AnnouncementPushed ==
  ASSUME HubTypeOK, BuffersOK, HubAnnounce
  PROVE  BuffersOK'
  <1> SUFFICES ASSUME NEW c \in Clients PROVE BufferInv(c)'
    BY DEF BuffersOK
  <1>1. BufferInv(c) /\ send[c] \in Seq(Events) /\ hub \in Presence /\ hub \in Events
    BY DEF BuffersOK, HubTypeOK, HubAnnounce, Events
  <1>2. /\ UNCHANGED <<handler, registry, view, early>> /\ hub' = Selecting
        /\ Push(hub, registry)
        /\ announced' = IF hub.kind = "online" THEN announced \cup {hub.user}
                        ELSE announced \ {hub.user}
    BY DEF HubAnnounce
  <1>3. Connected' = Connected
    BY <1>2 DEF Connected
  <1>4. EarlyIsRegistered(c)' /\ EmptyUntilRegistered(c)'
    BY <1>1, <1>2 DEF BufferInv, EarlyIsRegistered, EmptyUntilRegistered, Push
  <1>5. ASSUME c \in registry' \ dropped'
        PROVE  c \in registry \ dropped /\ send'[c] = Append(send[c], hub)
    <2>1. c \in registry /\ ~(Len(send[c]) >= BufferCap)
      BY <1>2, <1>5 DEF Push
    <2>2. Len(send[c]) \in Nat /\ BufferCap \in Nat
      BY <1>1
    <2>3. Len(send[c]) < BufferCap
      BY <2>1, <2>2
    <2> QED
      BY <1>2, <1>5, <2>1, <2>3 DEF Push
  <1>6. ASSUME c \in registry' \ dropped', NEW u \in Users, u # hub.user
        PROVE  /\ Silent(send'[c], u) <=> Silent(send[c], u)
               /\ Silent(send[c], u) \/ LastSays(send'[c], u, Status(u)')
    <2>1. ~About(hub, u) /\ Status(u)' = Status(u)
      BY <1>2, <1>6 DEF About, Status
    <2>2. Silent(send[c], u) \/ LastSays(send[c], u, Status(u))
      BY <1>1, <1>5, <1>6 DEF BufferInv, BufferAnnounces
    <2>3. send'[c] = Append(send[c], hub)
      BY <1>5, <1>6
    <2>4. /\ Silent(send'[c], u) <=> Silent(send[c], u)
          /\ \A kind : LastSays(send[c], u, kind) => LastSays(send'[c], u, kind)
      BY <1>1, <2>1, <2>3, QuietAppend
    <2> QED
      BY <2>1, <2>2, <2>4
  <1>7. ASSUME c \in registry' \ dropped', NEW u \in Users, u = hub.user
        PROVE  /\ ~Silent(send'[c], u) /\ LastSays(send'[c], u, Status(u)')
    <2>1. Status(u)' = hub.kind
      BY <1>1, <1>2, <1>7 DEF Status, Presence
    <2> QED
      BY <1>1, <1>5, <1>7, <2>1, SayingAppend
  <1>8. BufferAnnounces(c)'
    <2> SUFFICES ASSUME c \in registry' \ dropped', NEW u \in Users
                 PROVE  Silent(send'[c], u) \/ LastSays(send'[c], u, Status(u)')
      BY DEF BufferAnnounces
    <2> QED
      BY <1>6, <1>7
  <1>9. ReaderKnows(c)'
    <2> SUFFICES ASSUME c \in registry' \ dropped', c \in early', NEW u \in Users,
                        Silent(send'[c], u)
                 PROVE  u \in view'[c] <=> u \in Connected'
      BY DEF ReaderKnows
    <2>1. u # hub.user
      BY <1>7
    <2>2. Silent(send[c], u) /\ c \in registry \ dropped /\ c \in early
      BY <1>2, <1>5, <1>6, <2>1
    <2> QED
      BY <1>1, <1>2, <1>3, <2>1, <2>2 DEF BufferInv, ReaderKnows
  <1> QED
    BY <1>4, <1>8, <1>9 DEF BufferInv

\* A client comes to or leaves the registry: what the hub is going to announce
\* is the only thing its readers do not know.
LEMMA RegistryBuffers ==
  ASSUME HubTypeOK, ChannelInv, BuffersOK, HubRegister \/ HubUnregister
  PROVE  BuffersOK'
  <1> SUFFICES ASSUME NEW c \in Clients PROVE BufferInv(c)'
    BY DEF BuffersOK
  <1>1. BufferInv(c) /\ ClientInv(c)
    BY DEF BuffersOK, ChannelInv
  <1>2. PICK u0 \in Users : \/ Connected' = Connected
                            \/ /\ hub' # Selecting /\ hub'.user = u0
                               /\ \A u \in Users \ {u0} : u \in Connected' <=> u \in Connected
    <2>1. CASE HubRegister
      <3> DEFINE d == Head(registerQ)
      <3>1. d \in Clients /\ UserOf[d] \in Users
        <4>1. registerQ \in Seq(Clients) /\ registerQ # <<>>
          BY <2>1 DEF HubRegister, HubTypeOK
        <4> QED
          BY <4>1, TailFacts
      <3>2. Connected' = Connected \cup {UserOf[d]}
        BY <2>1 DEF HubRegister, AddClient, Connected
      <3>3. CASE ClientsOf(UserOf[d]) = {}
        <4>1. hub' = [kind |-> "online", user |-> UserOf[d]]
          BY <2>1, <3>3 DEF HubRegister, AddClient
        <4> HIDE DEF d
        <4> QED
          BY <3>1, <3>2, <4>1 DEF Selecting
      <3>4. CASE ClientsOf(UserOf[d]) # {}
        <4>1. UserOf[d] \in Connected
          BY <3>4 DEF ClientsOf, Connected
        <4> HIDE DEF d
        <4> QED
          BY <3>1, <3>2, <4>1
      <3> QED
        BY <3>3, <3>4
    <2>2. CASE HubUnregister
      <3> DEFINE d == Head(unregisterQ)
      <3>1. d \in Clients /\ UserOf[d] \in Users
        <4>1. unregisterQ \in Seq(Clients) /\ unregisterQ # <<>>
          BY <2>2 DEF HubUnregister, HubTypeOK
        <4> QED
          BY <4>1, TailFacts
      <3>2. registry' = registry \ {d}
        BY <2>2 DEF HubUnregister, RemoveClient
      <3>3. CASE ClientsOf(UserOf[d]) = {d}
        <4>1. hub' = [kind |-> "offline", user |-> UserOf[d]]
          BY <2>2, <3>3 DEF HubUnregister, RemoveClient
        <4>2. Connected' = Connected \ {UserOf[d]}
          BY <3>2, <3>3 DEF Connected, ClientsOf
        <4> HIDE DEF d
        <4> QED
          BY <3>1, <4>1, <4>2 DEF Selecting
      <3>4. CASE ClientsOf(UserOf[d]) # {d}
        <4>1. Connected' = Connected
          BY <3>2, <3>4 DEF Connected, ClientsOf
        <4> HIDE DEF d
        <4> QED
          BY <3>1, <4>1
      <3> QED
        BY <3>3, <3>4
    <2> QED
      BY <2>1, <2>2
  <1>3. UNCHANGED <<handler, announced, view, early>> /\ hub = Selecting
    BY DEF HubRegister, HubUnregister
  <1>4. CASE c \in registry' /\ c \in registry
    <2>1. send'[c] = send[c] /\ (c \in dropped' <=> c \in dropped)
      <3>1. CASE HubRegister
        BY <3>1 DEF HubRegister
      <3>2. CASE HubUnregister
        <4>1. c # Head(unregisterQ)
          BY <1>4, <3>2 DEF HubUnregister, RemoveClient
        <4> QED
          BY <3>2, <4>1 DEF HubUnregister, HubTypeOK
      <3> QED
        BY <3>1, <3>2
    <2>2. EmptyUntilRegistered(c)' /\ EarlyIsRegistered(c)'
      BY <1>1, <1>3, <1>4 DEF BufferInv, EmptyUntilRegistered, EarlyIsRegistered
    <2>3. BufferAnnounces(c)'
      BY <1>1, <1>3, <1>4, <2>1 DEF BufferInv, BufferAnnounces, Silent, LastSays, Status
    <2>4. ReaderKnows(c)'
      <3> SUFFICES ASSUME c \in early', c \notin dropped', NEW u \in Users,
                          Silent(send'[c], u)
                   PROVE  \/ u \in view'[c] <=> u \in Connected'
                          \/ hub' # Selecting /\ hub'.user = u
        BY DEF ReaderKnows
      <3>1. u \in view[c] <=> u \in Connected
        BY <1>1, <1>3, <1>4, <2>1 DEF BufferInv, ReaderKnows
      <3> QED
        BY <1>2, <1>3, <3>1
    <2> QED
      BY <2>2, <2>3, <2>4 DEF BufferInv
  <1>5. CASE c \in registry' /\ c \notin registry
    <2>1. HubRegister /\ send' = send
      BY <1>5 DEF HubRegister, HubUnregister, RemoveClient
    <2>2. send'[c] = <<>> /\ c \notin early'
      BY <1>1, <1>3, <1>5, <2>1 DEF BufferInv, EmptyUntilRegistered, EarlyIsRegistered
    <2>3. BufferAnnounces(c)'
      BY <2>2, NothingSaid DEF BufferAnnounces
    <2> QED
      BY <1>5, <2>2, <2>3 DEF BufferInv, EmptyUntilRegistered, EarlyIsRegistered,
         ReaderKnows
  <1>6. CASE c \notin registry'
    <2>1. c \notin early'
      <3>1. CASE c \in registry
        <4>1. HubUnregister /\ c = Head(unregisterQ)
          BY <1>6, <3>1 DEF HubRegister, AddClient, HubUnregister, RemoveClient
        <4>2. Queued(unregisterQ, c)
          BY <4>1, QueuedTail DEF HubUnregister, HubTypeOK
        <4>3. handler[c] = "gone"
          BY <1>1, <4>2 DEF ClientInv, BeforeGone
        <4> QED
          BY <1>1, <1>3, <4>3 DEF BufferInv, EarlyIsRegistered
      <3>2. CASE c \notin registry
        BY <1>1, <1>3, <3>2 DEF BufferInv, EarlyIsRegistered
      <3> QED
        BY <3>1, <3>2
    <2>2. send'[c] = <<>>
      <3>1. CASE HubRegister
        BY <1>1, <1>6, <3>1 DEF HubRegister, AddClient, BufferInv, EmptyUntilRegistered
      <3>2. CASE HubUnregister
        <4>1. CASE c = Head(unregisterQ)
          BY <3>2, <4>1 DEF HubUnregister, HubTypeOK
        <4>2. CASE c # Head(unregisterQ)
          BY <1>1, <1>6, <3>2, <4>2 DEF HubUnregister, RemoveClient, HubTypeOK,
             BufferInv, EmptyUntilRegistered
        <4> QED
          BY <4>1, <4>2
      <3> QED
        BY <3>1, <3>2
    <2> QED
      BY <1>6, <2>1, <2>2 DEF BufferInv, EmptyUntilRegistered, EarlyIsRegistered,
         BufferAnnounces, ReaderKnows
  <1> QED
    BY <1>4, <1>5, <1>6

LEMMA BuffersStep ==
  ASSUME HubInv, BuffersOK, [Next]_hubVars
  PROVE  BuffersOK'
  <1>1. HubTypeOK /\ ChannelInv /\ AnnouncedInv
    BY DEF HubInv, ChannelInv
  <1>2. ASSUME UNCHANGED <<handler, registry, hub, announced, dropped, send, view, early>>
        PROVE  BuffersOK'
    <2> SUFFICES ASSUME NEW c \in Clients PROVE BufferInv(c)'
      BY DEF BuffersOK
    <2>1. BufferInv(c)
      BY DEF BuffersOK
    <2> QED
      BY <1>2, <2>1, BufferFrame DEF BufferInv, EarlyIsRegistered
  <1>3. ASSUME NEW c \in Clients, Connect(c) \/ StreamStep(c)
        PROVE  BuffersOK'
    BY <1>1, <1>3, StreamBuffers
  <1>4. CASE HubStep
    BY <1>1, <1>2, <1>4, RegistryBuffers, AnnouncementPushed DEF HubStep, HubPanics
  <1>5. ASSUME NEW scope \in SUBSET Users, Broadcast(scope) \/ BroadcastPanics(scope)
        PROVE  BuffersOK'
    <2>1. PICK receivers : receivers \subseteq registry /\ Push(Other, receivers)
      <3>1. Receivers(scope) \subseteq registry
        BY DEF Receivers
      <3> QED
        BY <1>5, <3>1 DEF Broadcast, BroadcastPanics
    <2>2. UNCHANGED <<handler, registry, hub, announced, view, early>>
      BY <1>5 DEF Broadcast, BroadcastPanics
    <2> QED
      BY <1>1, <2>1, <2>2, OtherPushed
  <1>6. ASSUME NEW c \in Clients, CloseDone(c)
        PROVE  BuffersOK'
    BY <1>2, <1>6 DEF CloseDone
  <1>7. ASSUME NEW u \in Users, DisconnectUserClients(u)
        PROVE  BuffersOK'
    BY <1>2, <1>7 DEF DisconnectUserClients
  <1>8. CASE UNCHANGED hubVars
    BY <1>2, <1>8 DEF hubVars
  <1> QED
    BY <1>3, <1>4, <1>5, <1>6, <1>7, <1>8 DEF Next, ServerStep

\* Events.initialPresence and Hub.Run do not wait for each other: a change that
\* falls between a client's registration and its presence_initial is in its
\* buffer, in the snapshot, or both, and what comes last is what is true.
THEOREM ViewsConverge == Spec => []PresenceViewConverges
  <1>1. Init => BuffersOK
    BY BuffersInit
  <1>2. HubInv /\ BuffersOK /\ [Next]_hubVars => BuffersOK'
    BY BuffersStep
  <1>3. HubInv /\ BuffersOK => PresenceViewConverges
    <2> SUFFICES ASSUME HubInv, BuffersOK, hub = Selecting,
                        NEW c \in (registry \cap early) \ dropped
                 PROVE  Believed(c) = Connected
      BY DEF PresenceViewConverges
    <2>1. c \in Clients /\ announced = Connected /\ Connected \subseteq Users
      BY DEF HubInv, HubTypeOK, AnnouncedInv, PresenceAnnounced, Connected
    <2>2. BufferInv(c) /\ send[c] \in Seq(Events)
      BY <2>1 DEF BuffersOK, HubInv, HubTypeOK
    <2>3. ASSUME NEW u \in Users PROVE u \in Believed(c) <=> u \in Connected
      <3> DEFINE about == {i \in DOMAIN send[c] :
                              send[c][i] \in Presence /\ send[c][i].user = u}
      <3>1. about = {i \in 1..Len(send[c]) : About(send[c][i], u)}
        BY <2>2 DEF About
      <3>2. u \in Believed(c) <=>
               IF about = {} THEN u \in view[c]
               ELSE \E i \in about : /\ send[c][i].kind = "online"
                                     /\ \A j \in about : j <= i
        BY DEF Believed
      <3> HIDE DEF about
      <3>3. CASE Silent(send[c], u)
        <4>1. about = {}
          BY <3>1, <3>3 DEF Silent
        <4>2. u \in view[c] <=> u \in Connected
          BY <2>2, <3>3 DEF BufferInv, ReaderKnows
        <4> QED
          BY <3>2, <4>1, <4>2
      <3>4. CASE LastSays(send[c], u, Status(u))
        <4>1. Status(u) \in {"online", "offline"}
              /\ (Status(u) = "online" <=> u \in Connected)
          BY <2>1 DEF Status
        <4>2. PICK i \in 1..Len(send[c]) :
                      /\ send[c][i] = [kind |-> Status(u), user |-> u]
                      /\ \A j \in 1..Len(send[c]) : About(send[c][j], u) => j <= i
          BY <3>4 DEF LastSays
        <4>3. i \in about /\ \A j \in about : j <= i
          BY <3>1, <4>1, <4>2 DEF About, Presence
        <4>4. \A j \in about : (\A k \in about : k <= j) => j = i
          <5>1. Len(send[c]) \in Nat
            BY <2>2
          <5> QED
            BY <3>1, <4>3, <5>1
        <4> QED
          BY <3>2, <4>1, <4>2, <4>3, <4>4
      <3> QED
        BY <2>1, <2>2, <3>3, <3>4 DEF BufferInv, BufferAnnounces
    <2>4. Believed(c) \subseteq Users
      BY DEF Believed
    <2> QED
      BY <2>1, <2>3, <2>4
  <1> QED
    BY <1>1, <1>2, <1>3, HubInvariant, PTL DEF Spec

-----------------------------------------------------------------------------
(* The hub implements the presence feed.                                    *)
LEMMA FeedHubStep ==
  ASSUME HubTypeOK, AnnouncedInv, HubStep
  PROVE  [Feed!Next]_(Feed!vars)
  <1> USE DEF Feed!Next, Feed!vars, Feed!ComeOnline, Feed!GoOffline,
              Feed!Announce
  <1>1. CASE HubRegister
    <2> DEFINE c == Head(registerQ)
    <2>1. /\ c \in Clients /\ UserOf[c] \in Users
          /\ announced = Connected /\ announced' = announced
      BY <1>1, TailFacts DEF HubRegister, HubTypeOK, AnnouncedInv,
         PresenceAnnounced
    <2>2. Connected' = Connected \cup {UserOf[c]}
      BY <1>1 DEF HubRegister, AddClient, Connected
    <2> HIDE DEF c
    <2> QED
      BY <2>1, <2>2
  <1>2. CASE HubUnregister
    <2> DEFINE c == Head(unregisterQ)
    <2>1. /\ c \in Clients /\ UserOf[c] \in Users
          /\ announced = Connected /\ announced' = announced
      BY <1>2, TailFacts DEF HubUnregister, HubTypeOK, AnnouncedInv,
         PresenceAnnounced
    <2>2. registry' = registry \ {c}
      BY <1>2 DEF HubUnregister, RemoveClient
    <2>3. Connected' = Connected \/ Connected' = Connected \ {UserOf[c]}
      BY <2>2 DEF Connected
    <2> HIDE DEF c
    <2> QED
      BY <2>1, <2>3
  <1>3. CASE HubAnnounce
    <2>1. registry' = registry /\ announced' = Connected
      BY <1>3 DEF HubAnnounce, HubTypeOK, AnnouncedInv, Presence
    <2>2. Connected' = Connected
      BY <2>1 DEF Connected
    <2> QED
      BY <2>1, <2>2
  <1>4. CASE HubPanics
    BY <1>4 DEF HubPanics, Connected
  <1> QED
    BY <1>1, <1>2, <1>3, <1>4 DEF HubStep

\* Every behaviour of the hub, its handlers and the rest of the server is, as
\* far as presence goes, one of the feed: first connections and last losses
\* alone are announced, each before the next is taken up.
THEOREM HubImplementsFeed == Spec => PresenceIsFed
  <1>1. Init => Feed!Init
    BY DEF Init, Feed!Init, Connected
  <1>2. ASSUME HubInv, [Next]_hubVars PROVE [Feed!Next]_(Feed!vars)
    <2>1. ASSUME UNCHANGED <<registry, announced>>
          PROVE  UNCHANGED Feed!vars
      BY <2>1 DEF Feed!vars, Connected
    <2>2. ASSUME NEW c \in Clients, Connect(c) \/ StreamStep(c)
          PROVE  UNCHANGED Feed!vars
      BY <2>1, <2>2 DEF Connect, StreamStep, Register, SendInitialPresence,
         Receive, HangUp, LeaveOnDone, Leave, Unregister
    <2>3. CASE ServerStep
      BY <2>1, <2>3 DEF ServerStep, Broadcast, BroadcastPanics, CloseDone
    <2>4. ASSUME NEW u \in Users, DisconnectUserClients(u)
          PROVE  UNCHANGED Feed!vars
      BY <2>1, <2>4 DEF DisconnectUserClients
    <2>5. CASE UNCHANGED hubVars
      BY <2>1, <2>5 DEF hubVars
    <2> QED
      BY <1>2, <2>2, <2>3, <2>4, <2>5, FeedHubStep DEF Next, HubInv
  <1> QED
    BY <1>1, <1>2, HubInvariant, PTL DEF Spec, PresenceIsFed, Feed!Spec

-----------------------------------------------------------------------------
(* BanEnforcement.                                                          *)

(* With bans in front of it and beside it, the hub takes no step it would    *)
(* not take alone: the ban check only delays a connection or refuses it, and *)
(* BanUser comes in by a broadcast and by DisconnectUserClients.             *)
LEMMA BanStepIsHubStep == [BanNext]_vars => [Next]_hubVars
  <1> SUFFICES ASSUME [BanNext]_vars PROVE [Next]_hubVars
    OBVIOUS
  <1>1. CASE UNCHANGED vars
    BY <1>1 DEF vars
  <1>2. CASE BanNext
    <2>0. ~crashed
      BY <1>2 DEF BanNext
    <2>1. ASSUME NEW u \in Users, BanStep(u)
          PROVE  [Next]_hubVars
      <3>1. \/ UNCHANGED hubVars
            \/ Broadcast(Users) \/ BroadcastPanics(Users)
            \/ DisconnectUserClients(u)
        BY <2>1 DEF BanStep, OtherMisses, OtherReads, OtherFails, OtherStores,
           OtherCheck, CacheExpires, CreateBan, AnnounceBan, AnnounceBanPanics,
           Disconnect, BanReturns, UnbanUser
      <3> QED
        BY <2>0, <3>1 DEF Next, ServerStep
    <2>2. ASSUME NEW c \in Clients, CheckStep(c)
          PROVE  [Next]_hubVars
      <3>1. UNCHANGED hubVars \/ Connect(c)
        BY <2>2 DEF CheckStep, CacheHit, CacheMiss, ReadBan, ReadBanFails,
           StoreVerdict
      <3> QED
        BY <2>0, <3>1 DEF Next
    <2>3. ASSUME NEW c \in Clients, StreamStep(c) \/ CloseDone(c)
          PROVE  [Next]_hubVars
      BY <2>0, <2>3 DEF Next, ServerStep
    <2>4. CASE HubStep
      BY <2>0, <2>4 DEF Next
    <2> QED
      BY <1>2, <2>1, <2>2, <2>3, <2>4 DEF BanNext, HubWithHistory
  <1> QED
    BY <1>1, <1>2

(* Bans implement the hub: whatever is true of the hub alone is true of it   *)
(* while users are banned, disconnected and let in again.                    *)
THEOREM BansImplementHub == BanSpec => Spec
  <1>1. BanInit => Init
    BY DEF BanInit
  <1> QED
    BY <1>1, BanStepIsHubStep, PTL DEF BanSpec, Spec

\* The same with fairness: what the hub does in the end, it does with bans.
THEOREM FairBansImplementHub == FairBanSpec => FairSpec
  BY BansImplementHub, PTL DEF FairBanSpec, FairSpec

(* ... so banning users never makes a broadcast panic that would not, never  *)
(* leaves a reader on a closed channel, and never makes presence wrong.      *)
THEOREM BansKeepHub ==
  BanSpec => /\ []OnlyOvertakenIsClosed
             /\ []StreamsAreOpen
             /\ []PresenceAnnounced
             /\ []PresenceViewConverges
             /\ PresenceIsFed
  BY BansImplementHub, OnlyOvertakenPanics, StreamsStayOpen,
     PresenceFollowsRegistry, ViewsConverge, HubImplementsFeed, PTL

(* What a step of the combined system does to the hub's variables.          *)
LEMMA HubPartTyped ==
  ASSUME BanTypeOK, [BanNext]_vars
  PROVE  HubTypeOK'
  <1>1. HubTypeOK
    BY DEF BanTypeOK
  <1>2. CASE UNCHANGED hubVars
    BY <1>1, <1>2, StutterTyped
  <1>3. ASSUME NEW u \in Users, BanStep(u)
        PROVE  HubTypeOK'
    <2>1. CASE Broadcast(Users) \/ BroadcastPanics(Users)
      <3>1. ServerStep
        BY <2>1 DEF ServerStep
      <3> QED
        BY <1>1, <3>1, ServerTyped
    <2>2. CASE DisconnectUserClients(u)
      BY <1>1, <2>2, ServerTyped
    <2> QED
      BY <1>2, <1>3, <2>1, <2>2 DEF BanStep, OtherMisses, OtherReads,
         OtherFails, OtherStores, OtherCheck, CacheExpires, CreateBan,
         AnnounceBan, AnnounceBanPanics, Disconnect, BanReturns, UnbanUser
  <1>4. ASSUME NEW c \in Clients, CheckStep(c)
        PROVE  HubTypeOK'
    <2>1. CASE Connect(c)
      BY <1>1, <2>1, StreamTyped
    <2> QED
      BY <1>2, <1>4, <2>1 DEF CheckStep, CacheHit, CacheMiss, ReadBan,
         ReadBanFails, StoreVerdict
  <1>5. ASSUME NEW c \in Clients, StreamStep(c) \/ CloseDone(c)
        PROVE  HubTypeOK'
    <2>1. CASE StreamStep(c)
      BY <1>1, <2>1, StreamTyped
    <2>2. CASE CloseDone(c)
      BY <1>1, <2>2, ServerTyped DEF ServerStep
    <2> QED
      BY <1>5, <2>1, <2>2
  <1>6. CASE HubStep
    BY <1>1, <1>6, HubStepTyped
  <1> QED
    BY <1>2, <1>3, <1>4, <1>5, <1>6 DEF BanNext, HubWithHistory, vars

BanPartOK ==
  /\ banned \subseteq Users
  /\ banning \in [Users -> BanPoints]
  /\ banCache \in [Users -> Verdicts \cup {"none"}]
  /\ check \in [Clients -> CheckPoints]
  /\ other \in [Users -> CheckPoints]
  /\ bans \in [Users -> 0..MaxBans]
  /\ late \subseteq Clients
  /\ unchecked \subseteq Clients
  /\ fresh \subseteq Clients /\ freshCache \subseteq Users
  /\ freshOther \subseteq Users

LEMMA BanInitTyped ==
  ASSUME BanInit PROVE BanTypeOK
  <1>1. BanPartOK
    BY DEF BanInit, BanPartOK, BanPoints, Verdicts, CheckPoints
  <1> QED
    BY <1>1, TypeInit DEF BanInit, BanPartOK, BanTypeOK

LEMMA BanPartTyped ==
  ASSUME BanPartOK, HubTypeOK, HubTypeOK', [BanNext]_vars
  PROVE  BanPartOK'
  <1> USE DEF BanPartOK, BanPoints, Verdicts, CheckPoints, Mark, checkVars, history
  <1>1. CASE UNCHANGED banVars
    BY <1>1 DEF banVars
  <1>2. ASSUME NEW u \in Users, BanStep(u)
        PROVE  BanPartOK'
    <2>1. CASE OtherMisses(u) \/ OtherReads(u) \/ OtherFails(u)
                 \/ OtherStores(u)
      BY <2>1 DEF OtherMisses, OtherReads, OtherFails, OtherStores, OtherCheck,
         Verdict
    <2>2. CASE CacheExpires(u)
      BY <2>2 DEF CacheExpires
    <2>3. CASE CreateBan(u)
      <3>1. bans' \in [Users -> 0..MaxBans]
        BY <2>3 DEF CreateBan
      <3> QED
        BY <2>3, <3>1 DEF CreateBan
    <2>4. CASE AnnounceBan(u) \/ AnnounceBanPanics(u) \/ Disconnect(u)
                 \/ BanReturns(u)
      BY <2>4 DEF AnnounceBan, AnnounceBanPanics, Disconnect, BanReturns,
         BanPoint
    <2>5. CASE UnbanUser(u)
      BY <2>5 DEF UnbanUser
    <2> QED
      BY <1>2, <2>1, <2>2, <2>3, <2>4, <2>5 DEF BanStep
  <1>3. ASSUME NEW c \in Clients, CheckStep(c)
        PROVE  BanPartOK'
    <2>1. UserOf[c] \in Users
      OBVIOUS
    <2>2. CASE CacheHit(c)
      BY <1>1, <2>2 DEF CacheHit
    <2>3. CASE CacheMiss(c)
      BY <2>3 DEF CacheMiss
    <2>4. CASE ReadBan(c)
      BY <2>1, <2>4 DEF ReadBan, Verdict
    <2>5. CASE StoreVerdict(c)
      BY <2>1, <2>5 DEF StoreVerdict, Store
    <2>6. CASE ReadBanFails(c)
      BY <2>6 DEF ReadBanFails
    <2> QED
      BY <1>3, <2>2, <2>3, <2>4, <2>5, <2>6 DEF CheckStep
  <1>4. CASE HubWithHistory
    <2>1. late' \subseteq Clients
      BY <1>4 DEF HubWithHistory, HubTypeOK
    <2> QED
      BY <1>4, <2>1 DEF HubWithHistory
  <1> QED
    BY <1>1, <1>2, <1>3, <1>4 DEF BanNext, vars

\* The ban check, the cache and the BanUser requests keep their types, and the
\* hub behind them keeps its own.
THEOREM BanTypeCorrect == BanSpec => []BanTypeOK
  <1>1. BanInit => BanTypeOK
    BY BanInitTyped
  <1>2. ASSUME BanTypeOK, [BanNext]_vars PROVE BanTypeOK'
    BY <1>2, HubPartTyped, BanPartTyped DEF BanPartOK, BanTypeOK
  <1> QED
    BY <1>1, <1>2, PTL DEF BanSpec

-----------------------------------------------------------------------------
(* Which streams a ban reaches.                                             *)

\* A client that was in the registry when BanUser looked is about to be told
\* to end, or has been; when the request has returned, it has been.
Reached(c) ==
  /\ c \in registry \ late /\ banning[UserOf[c]] \in {"closing", "returned"}
       => c \in doomed \cup done
  /\ banning[UserOf[c]] = "returned" => c \notin doomed

LEMMA ReachedStep ==
  ASSUME BanTypeOK, BanTypeOK', [BanNext]_vars, NEW c \in Clients, Reached(c)
  PROVE  Reached(c)'
  <1> DEFINE u == UserOf[c]
  <1>1. u \in Users /\ u \in DOMAIN banning
    BY DEF BanTypeOK
  <1>2. CASE UNCHANGED <<registry, doomed, done, banning, late>>
    BY <1>2 DEF Reached
  <1>3. ASSUME NEW v \in Users, BanStep(v)
        PROVE  Reached(c)'
    <2>1. CASE \/ OtherMisses(v) \/ OtherReads(v) \/ OtherFails(v)
               \/ OtherStores(v) \/ CacheExpires(v) \/ UnbanUser(v)
      BY <1>2, <2>1 DEF OtherMisses, OtherReads, OtherFails, OtherStores,
         OtherCheck, CacheExpires, UnbanUser, hubVars
    <2>2. CASE CreateBan(v)
      <3>1. CASE v = u
        <4>1. banning'[u] = "created"
          BY <1>1, <2>2, <3>1 DEF CreateBan
        <4> QED
          BY <4>1 DEF Reached
      <3>2. CASE v # u
        <4>1. /\ banning'[u] = banning[u]
              /\ c \in late <=> c \in late'
              /\ UNCHANGED <<registry, doomed, done>>
          BY <2>2, <3>2 DEF CreateBan, hubVars, BanTypeOK
        <4> QED
          BY <4>1 DEF Reached
      <3> QED
        BY <3>1, <3>2
    <2>3. CASE AnnounceBan(v) \/ AnnounceBanPanics(v)
      <3>1. /\ v # u => banning'[u] = banning[u]
            /\ v = u => banning'[u] \in {"announced", "none"}
            /\ UNCHANGED <<registry, doomed, done, late>>
        BY <1>1, <2>3 DEF AnnounceBan, AnnounceBanPanics, BanPoint, Broadcast,
           BroadcastPanics, BanTypeOK
      <3> QED
        BY <3>1 DEF Reached
    <2>4. CASE Disconnect(v)
      <3>1. /\ banning' = [banning EXCEPT ![v] = "closing"]
            /\ doomed' = doomed \cup ClientsOf(v)
            /\ UNCHANGED <<registry, done, late>>
        BY <2>4 DEF Disconnect, BanPoint, DisconnectUserClients
      <3>2. CASE v = u
        <4>1. banning'[u] = "closing" /\ (c \in registry => c \in doomed')
          BY <1>1, <3>1, <3>2 DEF ClientsOf, BanTypeOK
        <4> QED
          BY <3>1, <4>1 DEF Reached
      <3>3. CASE v # u
        <4>1. banning'[u] = banning[u] /\ (c \in doomed' <=> c \in doomed)
          BY <1>1, <3>1, <3>3 DEF ClientsOf, BanTypeOK
        <4> QED
          BY <3>1, <4>1 DEF Reached
      <3> QED
        BY <3>2, <3>3
    <2>5. CASE BanReturns(v)
      <3>1. /\ banning' = [banning EXCEPT ![v] = "returned"]
            /\ banning[v] = "closing"
            /\ v = u => c \notin doomed
            /\ UNCHANGED <<registry, doomed, done, late>>
        BY <2>5 DEF BanReturns, BanPoint, hubVars
      <3>2. CASE v = u
        BY <1>1, <3>1, <3>2 DEF Reached
      <3>3. CASE v # u
        <4>1. banning'[u] = banning[u]
          BY <1>1, <3>1, <3>3
        <4> QED
          BY <3>1, <4>1 DEF Reached
      <3> QED
        BY <3>2, <3>3
    <2> QED
      BY <1>3, <2>1, <2>2, <2>3, <2>4, <2>5 DEF BanStep
  <1>4. ASSUME NEW d \in Clients, CheckStep(d)
        PROVE  Reached(c)'
    BY <1>2, <1>4 DEF CheckStep, CacheHit, CacheMiss, ReadBan, ReadBanFails,
       StoreVerdict, Store, Connect, banVars, hubVars
  <1>5. ASSUME NEW d \in Clients, StreamStep(d), UNCHANGED banVars
        PROVE  Reached(c)'
    BY <1>2, <1>5 DEF StreamStep, Register, SendInitialPresence, Receive,
       HangUp, LeaveOnDone, Leave, Unregister, banVars
  <1>6. ASSUME NEW d \in Clients, CloseDone(d), UNCHANGED banVars
        PROVE  Reached(c)'
    <2>1. /\ done' = done \cup {d} /\ doomed' = doomed \ {d}
          /\ UNCHANGED <<registry, banning, late>>
      BY <1>6 DEF CloseDone, banVars
    <2> QED
      BY <2>1 DEF Reached
  <1>7. CASE HubWithHistory
    <2>1. /\ UNCHANGED <<doomed, done, banning>>
          /\ late' = late \cup {d \in registry' \ registry :
                             banning[UserOf[d]] \in {"closing", "returned"}}
      BY <1>7 DEF HubWithHistory, HubStep, HubRegister, HubUnregister,
         HubAnnounce, HubPanics
    <2> QED
      BY <2>1 DEF Reached
  <1> QED
    BY <1>2, <1>3, <1>4, <1>5, <1>6, <1>7 DEF BanNext, vars, hubVars, banVars

(* The other half: nobody is clear by what was read since the ban in force. *)
LEMMA VerdictsStep ==
  ASSUME BanTypeOK, VerdictsAreOld, [BanNext]_vars
  PROVE  VerdictsAreOld'
  <1>1. CASE UNCHANGED <<handler, banned, checkVars>>
    BY <1>1 DEF VerdictsAreOld, StaleIfClear, ClearIsStale, checkVars, history
  <1>2. ASSUME NEW v \in Users, BanStep(v)
        PROVE  VerdictsAreOld'
    <2>1. CASE UNCHANGED <<handler, checkVars>> /\ banned' \subseteq banned
      BY <2>1 DEF VerdictsAreOld, StaleIfClear, ClearIsStale, checkVars, history
    <2>2. CASE CreateBan(v)
      BY <2>2 DEF CreateBan, hubVars, VerdictsAreOld, StaleIfClear,
         ClearIsStale
    <2>3. CASE OtherMisses(v) \/ OtherReads(v) \/ OtherFails(v)
                 \/ OtherStores(v)
      <3>1. /\ UNCHANGED <<handler, banned, check, fresh, unchecked>>
            /\ \A u \in Users : u # v =>
                 /\ other'[u] = other[u] /\ banCache'[u] = banCache[u]
                 /\ u \in freshOther' <=> u \in freshOther
                 /\ u \in freshCache' <=> u \in freshCache
        BY <2>3 DEF OtherMisses, OtherReads, OtherFails, OtherStores,
           OtherCheck, Mark, hubVars, BanTypeOK
      <3>2. ClearIsStale(v)'
        BY <2>3, <3>1 DEF OtherMisses, OtherReads, OtherFails, OtherStores,
           OtherCheck, Mark, Verdict, hubVars, BanTypeOK, VerdictsAreOld,
           ClearIsStale
      <3> QED
        BY <3>1, <3>2 DEF VerdictsAreOld, StaleIfClear, ClearIsStale
    <2>4. CASE CacheExpires(v)
      BY <2>4 DEF CacheExpires, hubVars, VerdictsAreOld, StaleIfClear,
         ClearIsStale, BanTypeOK
    <2>5. CASE AnnounceBan(v) \/ AnnounceBanPanics(v) \/ Disconnect(v)
                 \/ BanReturns(v) \/ UnbanUser(v)
      BY <2>1, <2>5 DEF AnnounceBan, AnnounceBanPanics, Disconnect, BanReturns,
         UnbanUser, BanPoint, Broadcast, BroadcastPanics,
         DisconnectUserClients, hubVars
    <2> QED
      BY <1>2, <2>2, <2>3, <2>4, <2>5 DEF BanStep
  <1>3. ASSUME NEW d \in Clients, CheckStep(d)
        PROVE  VerdictsAreOld'
    <2>1. UserOf[d] \in Users
      BY HubAssumption
    <2>2. /\ UNCHANGED <<banned, other, freshOther>>
          /\ \A c \in Clients : c # d =>
               /\ handler'[c] = handler[c] /\ check'[c] = check[c]
               /\ c \in fresh' <=> c \in fresh
               /\ c \in unchecked' <=> c \in unchecked
      BY <1>3 DEF CheckStep, CacheHit, CacheMiss, ReadBan, ReadBanFails,
         StoreVerdict, Store, Mark, Connect, hubVars, history, BanTypeOK,
         HubTypeOK
    <2>3. StaleIfClear(d)'
      <3>1. StaleIfClear(d) /\ ClearIsStale(UserOf[d])
        BY <2>1 DEF VerdictsAreOld
      <3>2. CASE CacheHit(d)
        BY <2>2, <3>1, <3>2 DEF CacheHit, Mark, StaleIfClear, ClearIsStale
      <3>3. CASE CacheMiss(d)
        BY <3>1, <3>3 DEF CacheMiss, hubVars, history, BanTypeOK, StaleIfClear
      <3>4. CASE ReadBan(d)
        BY <3>1, <3>4 DEF ReadBan, Verdict, hubVars, BanTypeOK, StaleIfClear
      <3>5. CASE ReadBanFails(d)
        BY <3>1, <3>5 DEF ReadBanFails, BanTypeOK, StaleIfClear
      <3>6. CASE StoreVerdict(d)
        <4>1. /\ check'[d] = "none" /\ handler[d] = "new"
              /\ UNCHANGED <<banned, fresh, unchecked>>
              /\ handler'[d] # "new" => check[d] = "clear"
          BY <3>6 DEF StoreVerdict, Store, hubVars, BanTypeOK
        <4> QED
          BY <3>1, <4>1 DEF StaleIfClear
      <3> QED
        BY <1>3, <3>2, <3>3, <3>4, <3>5, <3>6 DEF CheckStep
    <2>4. ASSUME NEW u \in Users
          PROVE  ClearIsStale(u)'
      <3>1. CASE StoreVerdict(d)
        <4>1. /\ banCache' = [banCache EXCEPT ![UserOf[d]] = check[d]]
              /\ freshCache' = Mark(freshCache, UserOf[d], d \in fresh)
          BY <3>1 DEF StoreVerdict, Store
        <4>2. CASE u = UserOf[d]
          <5>1. banCache'[u] = check[d] /\ (u \in freshCache' <=> d \in fresh)
            BY <4>1, <4>2 DEF Mark, BanTypeOK
          <5> QED
            BY <2>2, <4>2, <5>1 DEF VerdictsAreOld, StaleIfClear, ClearIsStale
        <4>3. CASE u # UserOf[d]
          <5>1. /\ banCache'[u] = banCache[u]
                /\ u \in freshCache' <=> u \in freshCache
            BY <2>1, <4>1, <4>3 DEF Mark, BanTypeOK
          <5> QED
            BY <2>2, <5>1 DEF VerdictsAreOld, ClearIsStale
        <4> QED
          BY <4>2, <4>3
      <3>2. CASE UNCHANGED <<banCache, freshCache>>
        BY <2>2, <3>2 DEF VerdictsAreOld, ClearIsStale
      <3> QED
        BY <1>3, <3>1, <3>2 DEF CheckStep, CacheHit, CacheMiss, ReadBan,
           ReadBanFails, history
    <2> QED
      BY <2>2, <2>3, <2>4 DEF VerdictsAreOld, StaleIfClear
  <1>4. ASSUME NEW d \in Clients, StreamStep(d) \/ CloseDone(d),
               UNCHANGED banVars
        PROVE  VerdictsAreOld'
    <2>1. \A c \in Clients : handler[c] = "new" => handler'[c] = "new"
      BY <1>4 DEF StreamStep, Register, SendInitialPresence, Receive, HangUp,
         LeaveOnDone, Leave, Unregister, CloseDone, BanTypeOK, HubTypeOK
    <2> QED
      BY <1>4, <2>1 DEF VerdictsAreOld, StaleIfClear, ClearIsStale, banVars,
         checkVars, history
  <1>5. CASE HubWithHistory
    BY <1>1, <1>5 DEF HubWithHistory, HubStep, HubRegister, HubUnregister,
       HubAnnounce, HubPanics
  <1> QED
    BY <1>1, <1>2, <1>3, <1>4, <1>5 DEF BanNext, vars, hubVars, banVars

\* Of the streams that BanUser can see in the registry, however many tabs come
\* and go, every one has been told to end when the request returns; and no
\* request passes the check of a ban on a verdict read after it.  A stream that
\* outlives the ban of its user is an exception to both, or the database failed.
THEOREM BansReachWhatTheySee == BanSpec => []OnlyLateStreamsEscape
  <1> DEFINE Inv == /\ BanTypeOK
                    /\ \A c \in Clients : Reached(c)
                    /\ VerdictsAreOld
  <1>1. BanInit => Inv
    <2>1. BanInit => BanTypeOK
      BY BanInitTyped
    <2>2. BanInit => \A c \in Clients : Reached(c)
      BY DEF BanInit, Init, Reached
    <2>3. BanInit => VerdictsAreOld
      BY DEF BanInit, VerdictsAreOld, StaleIfClear, ClearIsStale
    <2> QED
      BY <2>1, <2>2, <2>3
  <1>2. ASSUME Inv, [BanNext]_vars PROVE Inv'
    <2>1. BanTypeOK'
      BY <1>2, HubPartTyped, BanPartTyped DEF BanPartOK, BanTypeOK
    <2>2. \A c \in Clients : Reached(c)'
      BY <1>2, <2>1, ReachedStep
    <2>3. VerdictsAreOld'
      BY <1>2, VerdictsStep
    <2> QED
      BY <2>1, <2>2, <2>3
  <1>3. Inv => OnlyLateStreamsEscape
    BY DEF Reached, OnlyLateStreamsEscape, Escaped, VerdictsAreOld,
       StaleIfClear, BanTypeOK, HubTypeOK
  <1> QED
    BY <1>1, <1>2, <1>3, PTL DEF BanSpec

-----------------------------------------------------------------------------
(* MemberCache: the entry of one channel.                                   *)

LEMMA NobodyType == Nobody \in ChannelUsers
  BY DEF Nobody

-----------------------------------------------------------------------------
(* Every reachable state is well typed.                                     *)
LEMMA EntryTypeInit == MemberInit => TypeOK
  BY NobodyType DEF MemberInit, TypeOK, Points

LEMMA EntryTypeStep == TypeOK /\ [MemberNext]_memberVars => TypeOK'
  <1> SUFFICES ASSUME TypeOK, [MemberNext]_memberVars
               PROVE  TypeOK'
    OBVIOUS
  <1> USE DEF TypeOK, Points, Broadcasting
  <1>1. ASSUME NEW r \in Requests, MemberStep(r)
        PROVE  TypeOK'
    <2>1. CASE CacheAdd(r)
      BY <2>1 DEF CacheAdd, GoOn
    <2>2. CASE CacheRemove(r)
      BY <2>2 DEF CacheRemove, GoOn
    <2>3. CASE Lookup(r)
      BY <2>3 DEF Lookup, GoOn
    <2>4. CASE Query(r)
      BY <2>4 DEF Query, GoOn
    <2>5. CASE Fill(r)
      BY <2>5 DEF Fill, GoOn
    <2>6. CASE Deliver(r)
      BY <2>6 DEF Deliver, GoOn
    <2>7. CASE DeliverPanics(r)
      BY <2>7 DEF DeliverPanics, GoOn
    <2> QED
      BY <1>1, <2>1, <2>2, <2>3, <2>4, <2>5, <2>6, <2>7 DEF MemberStep
  <1>2. ASSUME NEW r \in Requests, Post(r)
        PROVE  TypeOK'
    BY <1>2, NobodyType DEF Post, Begin
  <1>3. ASSUME NEW r \in Requests, NEW u \in ChannelUsers, TableStep(r, u)
        PROVE  TypeOK'
    <2>1. CASE Join(r, u) \/ JoinFails(r, u)
      BY <2>1 DEF Join, JoinFails, Begin
    <2>2. CASE JoinUntold(r, u)
      BY <2>2 DEF JoinUntold
    <2>3. CASE LeaveChannel(r, u) \/ LeaveWorkspace(r, u)
      BY <2>3 DEF LeaveChannel, LeaveWorkspace, Begin
    <2> QED
      BY <1>3, <2>1, <2>2, <2>3 DEF TableStep
  <1>4. CASE Restart
    BY <1>4, NobodyType DEF Restart
  <1>5. CASE UNCHANGED memberVars
    BY <1>5 DEF memberVars
  <1> QED
    BY <1>1, <1>2, <1>3, <1>4, <1>5 DEF MemberNext

(* What a step of one request leaves pending: everything another request    *)
(* owes, and what this one owes before and after.                           *)
LEMMA PendingKept ==
  ASSUME NEW r \in Requests, NEW v, Pending(v),
         \A q \in Requests \ {r} :
            at'[q] = at[q] /\ user'[q] = user[q] /\ after'[q] = after[q],
         Owes(r, v) => Owes(r, v)'
  PROVE  Pending(v)'
  <1>1. PICK q \in Requests : Owes(q, v)
    BY DEF Pending
  <1>2. CASE q = r
    BY <1>1, <1>2 DEF Pending
  <1>3. CASE q # r
    BY <1>1, <1>3 DEF Pending, Owes
  <1> QED
    BY <1>2, <1>3

(* The part of the invariant that speaks about the entry.                   *)
Entry == NoEntryEmpty /\ CacheExactUnlessAstray /\ ReadsFresh

(* A handler that changes the user's row owes the cache an update of it.    *)
LEMMA TableStepEntry ==
  ASSUME IInv, NEW r \in Requests, NEW u \in ChannelUsers, TableStep(r, u),
         ~JoinUntold(r, u)
  PROVE  Entry'
  <1> USE DEF TableStep, Join, JoinFails, LeaveChannel, LeaveWorkspace, Begin,
              IInv, TypeOK
  <1>1. /\ at[r] = "idle"
        /\ \A q \in Requests \ {r} :
              at'[q] = at[q] /\ user'[q] = user[q] /\ after'[q] = after[q]
    OBVIOUS
  <1>2. Owes(r, u)' /\ Pending(u)'
    BY DEF Owes, Pending, Broadcasting
  <1>3. \A v \in ChannelUsers : Pending(v) => Pending(v)'
    BY <1>1, PendingKept DEF Owes, Broadcasting
  <1>4. /\ \A v \in ChannelUsers \ {u} : v \in members' <=> v \in members
        /\ UNCHANGED <<cached, cache, result, complete, astray>>
    OBVIOUS
  <1>5. \A q \in Requests : at'[q] = "fill" => at[q] = "fill"
    BY <1>1
  <1>6. NoEntryEmpty'
    BY <1>4 DEF NoEntryEmpty
  <1>7. CacheExactUnlessAstray'
    BY <1>2, <1>3, <1>4 DEF CacheExactUnlessAstray
  <1>8. ReadsFresh'
    BY <1>2, <1>3, <1>4, <1>5 DEF ReadsFresh
  <1> QED
    BY <1>6, <1>7, <1>8 DEF Entry

(* A join the cache is never told of does harm only where its rows are read *)
(* already, and there it goes astray.                                       *)
LEMMA UntoldEntry ==
  ASSUME IInv, NEW r \in Requests, NEW u \in ChannelUsers, JoinUntold(r, u)
  PROVE  Entry'
  BY DEF JoinUntold, IInv, Entry, NoEntryEmpty, CacheExactUnlessAstray, ReadsFresh

LEMMA PostEntry ==
  ASSUME IInv, NEW r \in Requests, Post(r)
  PROVE  Entry'
  <1> USE DEF Post, Begin, IInv, TypeOK
  <1>1. \A q \in Requests \ {r} :
           at'[q] = at[q] /\ user'[q] = user[q] /\ after'[q] = after[q]
    OBVIOUS
  <1>2. \A v \in ChannelUsers : Pending(v) => Pending(v)'
    BY <1>1, PendingKept DEF Owes, Broadcasting
  <1>3. \A q \in Requests : at'[q] = "fill" => at[q] = "fill"
    BY <1>1
  <1> QED
    BY <1>2, <1>3 DEF Entry, NoEntryEmpty, CacheExactUnlessAstray, ReadsFresh

(* The critical sections of the hub.  A request that updates the cache no   *)
(* longer owes it; it is right about its user unless it goes astray.        *)
LEMMA HubStepEntry ==
  ASSUME IInv, NEW r \in Requests, MemberStep(r)
  PROVE  Entry'
  <1> USE DEF IInv, TypeOK, GoOn
  <1> DEFINE u == user[r]
  <1>1. /\ \A q \in Requests \ {r} : at'[q] = at[q]
        /\ UNCHANGED <<user, after, members>>
    BY DEF MemberStep, CacheAdd, CacheRemove, Lookup, Query, Fill, Deliver,
           DeliverPanics
  <1>2. \A v \in ChannelUsers \ {u} : Pending(v) => Pending(v)'
    BY <1>1, PendingKept DEF Owes
  <1>3. CASE CacheAdd(r)
    <2>1. cached' /\ NoEntryEmpty' /\ ReadsFresh'
      BY <1>3 DEF CacheAdd, NoEntryEmpty, ReadsFresh
    <2>2. ASSUME ~astray', NEW v \in ChannelUsers, ~Pending(v)'
          PROVE  v \in cache' <=> v \in members'
      <3>1. ~astray /\ u \in members /\ cache' = cache \cup {u}
        BY <1>3, <2>2 DEF CacheAdd
      <3>2. CASE v = u
        BY <1>1, <3>1, <3>2
      <3>3. CASE v # u
        <4>1. ~Pending(v)
          BY <1>2, <2>2, <3>3
        <4>2. CASE cached
          BY <1>1, <3>1, <3>3, <4>1, <4>2 DEF CacheExactUnlessAstray
        <4>3. CASE ~cached
          BY <1>1, <1>3, <2>2, <3>1, <3>3, <4>1, <4>3 DEF CacheAdd, NoEntryEmpty
        <4> QED
          BY <4>2, <4>3
      <3> QED
        BY <3>2, <3>3
    <2> QED
      BY <2>1, <2>2 DEF Entry, CacheExactUnlessAstray
  <1>4. CASE CacheRemove(r)
    <2>1. /\ cache' = cache \ {u} /\ cached' = cached
          /\ UNCHANGED <<result, complete>>
          /\ ~astray' => ~astray /\ u \notin members
      BY <1>4 DEF CacheRemove
    <2>2. NoEntryEmpty'
      BY <2>1 DEF NoEntryEmpty
    <2>3. CacheExactUnlessAstray'
      BY <1>1, <1>2, <2>1 DEF CacheExactUnlessAstray
    <2>4. ASSUME ~cached', ~astray', NEW q \in Requests, NEW v \in ChannelUsers,
                 at'[q] = "fill", complete'[q], ~Pending(v)'
          PROVE  v \in result'[q] <=> v \in members'
      <3>1. at[q] = "fill"
        BY <1>1, <1>4, <2>4 DEF CacheRemove
      <3>2. CASE v = u
        <4>1. u \notin result[q]
          BY <1>4, <2>1, <2>4, <3>1 DEF CacheRemove
        <4> QED
          BY <1>1, <2>1, <2>4, <3>2, <4>1
      <3>3. CASE v # u
        BY <1>1, <1>2, <2>1, <2>4, <3>1, <3>3 DEF ReadsFresh
      <3> QED
        BY <3>2, <3>3
    <2> QED
      BY <2>2, <2>3, <2>4 DEF Entry, ReadsFresh
  <1>5. ASSUME at[r] \in Broadcasting,
               at'[r] \in Broadcasting \/ at'[r] = after[r]
        PROVE  \A v \in ChannelUsers : Pending(v) => Pending(v)'
    <2>1. \A v \in ChannelUsers : Owes(r, v) => Owes(r, v)'
      BY <1>1, <1>5 DEF Owes, Broadcasting
    <2> QED
      BY <1>1, <2>1, PendingKept
  <1>6. CASE Lookup(r)
    <2>1. \A v \in ChannelUsers : Pending(v) => Pending(v)'
      BY <1>5, <1>6 DEF Lookup, Broadcasting
    <2> QED
      BY <1>1, <1>6, <2>1
         DEF Lookup, Entry, NoEntryEmpty, CacheExactUnlessAstray, ReadsFresh
  <1>7. CASE Query(r)
    <2>1. \A v \in ChannelUsers : Pending(v) => Pending(v)'
      BY <1>5, <1>7 DEF Query, Broadcasting
    <2>2. complete'[r] => result'[r] = members
      BY <1>7 DEF Query
    <2>3. \A q \in Requests \ {r} :
             result'[q] = result[q] /\ complete'[q] = complete[q]
      BY <1>7 DEF Query
    <2>4. UNCHANGED <<cached, cache, astray>>
      BY <1>7 DEF Query
    <2>5. ReadsFresh'
      BY <1>1, <2>1, <2>2, <2>3, <2>4 DEF ReadsFresh
    <2> QED
      BY <1>1, <2>1, <2>4, <2>5 DEF Entry, NoEntryEmpty, CacheExactUnlessAstray
  <1>8. CASE Fill(r)
    <2>1. \A v \in ChannelUsers : Pending(v) => Pending(v)'
      BY <1>5, <1>8 DEF Fill, Broadcasting
    <2>2. cached' /\ NoEntryEmpty' /\ ReadsFresh'
      BY <1>8 DEF Fill, NoEntryEmpty, ReadsFresh
    <2>3. CacheExactUnlessAstray'
      <3>1. CASE cached
        BY <1>1, <1>8, <2>1, <3>1 DEF Fill, CacheExactUnlessAstray
      <3>2. CASE ~cached
        <4>1. at[r] = "fill" /\ cache' = result[r]
                /\ (~astray' => ~astray /\ complete[r])
          BY <1>8, <3>2 DEF Fill
        <4> QED
          BY <1>1, <2>1, <3>2, <4>1 DEF CacheExactUnlessAstray, ReadsFresh
      <3> QED
        BY <3>1, <3>2
    <2> QED
      BY <2>2, <2>3 DEF Entry
  <1>9. CASE Deliver(r)
    <2>1. \A v \in ChannelUsers : Pending(v) => Pending(v)'
      BY <1>5, <1>9 DEF Deliver, Broadcasting
    <2>2. at'[r] # "fill"
      BY <1>9 DEF Deliver
    <2> QED
      BY <1>1, <1>9, <2>1, <2>2
         DEF Deliver, Entry, NoEntryEmpty, CacheExactUnlessAstray, ReadsFresh
  <1>10. CASE DeliverPanics(r)
    <2>1. CASE after[r] = "removeLast"
      BY <1>10, <2>1
         DEF DeliverPanics, Entry, NoEntryEmpty, CacheExactUnlessAstray, ReadsFresh
    <2>2. CASE after[r] = "idle"
      <3>1. \A v \in ChannelUsers : Pending(v) => Pending(v)'
        BY <1>5, <1>10, <2>2 DEF DeliverPanics, Broadcasting
      <3>2. at'[r] # "fill"
        BY <1>10 DEF DeliverPanics
      <3> QED
        BY <1>1, <1>10, <3>1, <3>2
           DEF DeliverPanics, Entry, NoEntryEmpty, CacheExactUnlessAstray, ReadsFresh
    <2> QED
      BY <2>1, <2>2
  <1> QED
    BY <1>3, <1>4, <1>6, <1>7, <1>8, <1>9, <1>10 DEF MemberStep

-----------------------------------------------------------------------------
LEMMA InvInit == MemberInit => IInv
  BY EntryTypeInit DEF MemberInit, IInv, NoEntryEmpty, CacheExactUnlessAstray, ReadsFresh

LEMMA InvStep == IInv /\ [MemberNext]_memberVars => IInv'
  <1> SUFFICES ASSUME IInv, [MemberNext]_memberVars
               PROVE  IInv'
    OBVIOUS
  <1>1. TypeOK'
    BY EntryTypeStep DEF IInv
  <1>2. Entry'
    <2>1. ASSUME NEW r \in Requests, MemberStep(r)
          PROVE  Entry'
      BY <2>1, HubStepEntry
    <2>2. ASSUME NEW r \in Requests, Post(r)
          PROVE  Entry'
      BY <2>2, PostEntry
    <2>3. ASSUME NEW r \in Requests, NEW u \in ChannelUsers, TableStep(r, u)
          PROVE  Entry'
      BY <2>3, TableStepEntry, UntoldEntry
    <2>4. CASE Restart
      BY <2>4 DEF Restart, Entry, NoEntryEmpty, CacheExactUnlessAstray, ReadsFresh
    <2>5. CASE UNCHANGED memberVars
      BY <2>5 DEF memberVars, IInv, Entry, NoEntryEmpty, CacheExactUnlessAstray,
                  ReadsFresh, Pending, Owes
    <2> QED
      BY <2>1, <2>2, <2>3, <2>4, <2>5 DEF MemberNext
  <1> QED
    BY <1>1, <1>2 DEF IInv, Entry

(* Every reachable state of the member cache is well typed, for any set of  *)
(* users and of concurrent requests.                                        *)
THEOREM MemberTypeCorrect == MemberSpec => []TypeOK
  <1>1. MemberInit => TypeOK
    BY EntryTypeInit
  <1>2. TypeOK /\ [MemberNext]_memberVars => TypeOK'
    BY EntryTypeStep
  <1> QED
    BY <1>1, <1>2, PTL DEF MemberSpec

(* getChannelMembers, AddChannelMember and RemoveChannelMember keep a       *)
(* channel's entry equal to its rows, but for pending updates, as long as   *)
(* none of the races and failures that set astray has happened since the    *)
(* server started.                                                          *)
THEOREM CacheExact == MemberSpec => []CacheExactUnlessAstray
  <1>1. MemberInit => IInv
    BY InvInit
  <1>2. IInv /\ [MemberNext]_memberVars => IInv'
    BY InvStep
  <1>3. IInv => CacheExactUnlessAstray
    BY DEF IInv
  <1> QED
    BY <1>1, <1>2, <1>3, PTL DEF MemberSpec
=============================================================================
