------------------------- MODULE ClientStreamProofs -------------------------
(***************************************************************************)
(* Theorems about ClientStream, for any peers, replay limit and bounds:    *)
(* its types, that a client in force always has exactly one way back to    *)
(* its stream or was refused, and that the presence it shows differs from  *)
(* the server's only for the four causes the model names.                  *)
(***************************************************************************)
EXTENDS ClientStream, FiniteSetTheorems, SequenceTheorems,
        WellFoundedInduction, TLAPS

USE ClientStreamAssumption DEF ClientStreamAssumption

-----------------------------------------------------------------------------
(* What the log, the buffer and the wire carry. *)

Events == [kind : {"presence.changed"}, user : Peers, on : BOOLEAN]
          \cup {Banned, Unbanned, Lost}
Greetings == [kind : {"connected"}]
             \cup [kind : {"presence.initial"}, users : SUBSET Peers]
Items == [id : Nat, event : Events \cup Greetings]

LogOK(l) == l \in Seq(Events)
WireOK(w, l) == w \in Seq(Items) /\ \A i \in 1..Len(w) : w[i].id <= Len(l)

BufferOK(b, l) ==
    WireOK(b, l) /\ \A i \in 1..Len(b) : b[i].event \in Events

Typed == TypeOK /\ LogOK(log) /\ WireOK(wire, log) /\ BufferOK(buffer, log)

Causes == {"none", "unseen", "replay", "gap", "dropped"}

-----------------------------------------------------------------------------
(* The replay: a rank names an element, so that it consists of log entries. *)

\* A set of numbers has a least one.
LEMMA LeastOf ==
  ASSUME NEW T, T \subseteq Nat, T # {}
  PROVE  \E m \in T : \A n \in T : m <= n
  <1> DEFINE F == {0..m : m \in T}
  <1>1. F \subseteq FiniteSubsetsOf(Nat)
    <2>1. \A m \in T : 0..m \in FiniteSubsetsOf(Nat)
      BY FS_Interval DEF FiniteSubsetsOf
    <2> QED
      BY <2>1
  <1>2. F # {}
    OBVIOUS
  <1>3. PICK x \in F : \A y \in F : ~(<<y, x>> \in StrictSubsetOrdering(Nat))
    <2> HIDE DEF F
    <2> QED
      BY <1>1, <1>2, FS_StrictSubsetOrderingWellFounded, WFMin
  <1>4. PICK m \in T : x = 0..m
    OBVIOUS
  <1>5. ASSUME NEW n \in T, n < m PROVE FALSE
    <2>1. 0..n \in F /\ 0..n \in SUBSET Nat /\ 0..m \in SUBSET Nat
      OBVIOUS
    <2>2. 0..n \subseteq 0..m /\ m \in 0..m /\ m \notin 0..n
      BY <1>5
    <2>3. <<0..n, 0..m>> \in StrictSubsetOrdering(Nat)
      BY <2>1, <2>2 DEF StrictSubsetOrdering
    <2> QED
      BY <1>3, <1>4, <2>1, <2>3
  <1> QED
    BY <1>5

\* The members of a finite set of positive numbers, up to a growing bound.
UpTo(S, n) == {i \in S : i <= n}

LEMMA UpToNext ==
  ASSUME NEW b \in Nat, NEW S, \A i \in S : i \in 1..b, NEW m \in Nat
  PROVE  /\ IsFiniteSet(UpTo(S, m)) /\ Cardinality(UpTo(S, m)) \in Nat
         /\ m + 1 \in S => Cardinality(UpTo(S, m + 1)) = Cardinality(UpTo(S, m)) + 1
         /\ m + 1 \notin S => UpTo(S, m + 1) = UpTo(S, m)
  <1>1. IsFiniteSet(S)
    <2>1. S \in SUBSET (1..b) /\ IsFiniteSet(1..b)
      BY FS_Interval
    <2> QED
      BY <2>1, FS_Subset
  <1>2. IsFiniteSet(UpTo(S, m))
    BY <1>1, FS_Subset DEF UpTo
  <1>3. ASSUME m + 1 \in S
        PROVE  Cardinality(UpTo(S, m + 1)) = Cardinality(UpTo(S, m)) + 1
    <2>1. UpTo(S, m + 1) = UpTo(S, m) \cup {m + 1} /\ m + 1 \notin UpTo(S, m)
      BY <1>3 DEF UpTo
    <2> QED
      BY <1>2, <2>1, FS_AddElement, FS_CardinalityType
  <1>4. ASSUME m + 1 \notin S
        PROVE  UpTo(S, m + 1) = UpTo(S, m)
    BY <1>4 DEF UpTo
  <1> QED
    BY <1>2, <1>3, <1>4, FS_CardinalityType

\* Every rank from 1 to the size of such a set is some member's.
LEMMA NthIsMember ==
  ASSUME NEW b \in Nat, NEW S, \A i \in S : i \in 1..b, NEW k \in 1..Cardinality(S)
  PROVE  Nth(S, k) \in S /\ Cardinality(UpTo(S, Nth(S, k))) = k
  <1> DEFINE T == {n \in Nat : k <= Cardinality(UpTo(S, n))}
  <1>1. IsFiniteSet(S) /\ Cardinality(S) \in Nat
    <2>1. S \in SUBSET (1..b) /\ IsFiniteSet(1..b)
      BY FS_Interval
    <2> QED
      BY <2>1, FS_Subset, FS_CardinalityType
  <1>2. b \in T
    <2>1. UpTo(S, b) = S
      BY DEF UpTo
    <2> QED
      BY <1>1, <2>1
  <1>3. PICK m \in T : \A n \in T : m <= n
    <2>1. T \subseteq Nat /\ T # {}
      BY <1>2
    <2> HIDE DEF T
    <2> QED
      BY <2>1, LeastOf
  <1>4. m \in Nat /\ k <= Cardinality(UpTo(S, m))
    OBVIOUS
  <1>5. m # 0
    <2>1. UpTo(S, 0) = {}
      BY DEF UpTo
    <2>2. Cardinality(UpTo(S, 0)) = 0
      BY <2>1, FS_EmptySet
    <2> QED
      BY <1>4, <2>2
  <1>6. PICK n \in Nat : m = n + 1
    BY <1>4, <1>5
  <1>7. n \notin T
    <2> HIDE DEF T
    <2> QED
      BY <1>3, <1>6
  <1>8. Cardinality(UpTo(S, n)) \in Nat /\ Cardinality(UpTo(S, n)) < k
    BY <1>7, UpToNext
  <1>9. m \in S /\ Cardinality(UpTo(S, m)) = Cardinality(UpTo(S, n)) + 1
    <2>1. CASE n + 1 \in S
      BY <1>6, <2>1, UpToNext
    <2>2. CASE n + 1 \notin S
      <3>1. UpTo(S, m) = UpTo(S, n)
        BY <1>6, <2>2, UpToNext
      <3> QED
        BY <1>4, <1>8, <3>1
    <2> QED
      BY <2>1, <2>2
  <1>10. m \in S /\ Cardinality(UpTo(S, m)) = k
    <2> HIDE DEF T
    <2> QED
      BY <1>4, <1>8, <1>9
  <1> QED
    BY <1>10 DEF Nth, UpTo

\* A replay is a sequence of entries of the log, and empty for a web client.
LEMMA ReplayTyped ==
  ASSUME Typed
  PROVE  /\ Replay \in Seq(Items)
         /\ \A i \in 1..Len(Replay) : /\ Replay[i].id <= Len(log)
                                      /\ Replay[i].event \in Events
         /\ platform = "web" => Len(Replay) = 0
  <1> DEFINE after == {j \in (since + 1)..kept : log[j] # Lost}
             found == Cardinality(after)
             sent == IF found < ReplayLimit THEN found ELSE ReplayLimit
  <1>1. /\ kept \in Nat /\ since \in Nat /\ kept <= Len(log) /\ Len(log) \in Nat
        /\ log \in Seq(Events)
    BY DEF Typed, TypeOK, LogOK
  <1>2. \A j \in after : j \in 1..kept
    BY <1>1
  <1>3. found \in Nat
    <2> HIDE DEF after
    <2>1. IsFiniteSet(1..kept) /\ after \in SUBSET (1..kept)
      BY <1>1, <1>2, FS_Interval
    <2>2. IsFiniteSet(after)
      BY <1>2, <2>1, FS_Subset
    <2> QED
      BY <2>2, FS_CardinalityType
  <1>4. sent \in Nat /\ sent <= found
    BY <1>3
  <1>5. \A k \in 1..sent : Nth(after, k) \in 1..Len(log)
    <2> TAKE k \in 1..sent
    <2>1. k \in 1..Cardinality(after)
      BY <1>3, <1>4
    <2> HIDE DEF after, sent
    <2>2. Nth(after, k) \in after
      BY <1>1, <1>2, <2>1, NthIsMember
    <2> QED
      BY <1>1, <1>2, <2>2
  <1>6. CASE platform = "web" \/ since = 0
    BY <1>6 DEF Replay
  <1>7. CASE ~(platform = "web" \/ since = 0)
    <2>1. Replay = [k \in 1..sent |-> Numbered(Nth(after, k))]
      BY <1>7 DEF Replay, EventsSince
    <2> HIDE DEF sent, after
    <2>2. \A k \in 1..sent : /\ Numbered(Nth(after, k)) \in Items
                             /\ Numbered(Nth(after, k)).id <= Len(log)
                             /\ Numbered(Nth(after, k)).event \in Events
      BY <1>1, <1>5 DEF Numbered, Items
    <2>3. Replay \in [1..sent -> Items]
      BY <2>1, <2>2
    <2>4. Replay \in Seq(Items) /\ Len(Replay) = sent
      BY <1>4, <2>3
    <2> QED
      BY <1>7, <2>1, <2>2, <2>4
  <1> QED
    BY <1>6, <1>7

-----------------------------------------------------------------------------
(* Types. *)

LEMMA EventsTyped ==
  ASSUME NEW u \in Peers, NEW b \in BOOLEAN
  PROVE  Presence(u, b) \in Events
  BY DEF Events, Presence

LEMMA BanEventsTyped == Banned \in Events /\ Unbanned \in Events /\ Lost \in Events
  BY DEF Events

\* What is no newer than the log is no newer than a longer one.
LEMMA WireOfLonger ==
  ASSUME NEW w, NEW l, NEW l2, WireOK(w, l), Len(l) \in Nat, Len(l2) \in Nat,
         Len(l) <= Len(l2)
  PROVE  WireOK(w, l2)
  <1>1. \A i \in 1..Len(w) : w[i] \in Items
    BY ElementOfSeq DEF WireOK
  <1> QED
    BY <1>1 DEF WireOK, Items

\* One event more in the log, whether or not this client gets it.
LEMMA LogGrows ==
  ASSUME Typed, NEW e \in Events, log' = Append(log, e)
  PROVE  /\ LogOK(log') /\ Len(log') = Len(log) + 1 /\ Len(log) \in Nat
         /\ WireOK(wire, log') /\ BufferOK(buffer, log')
  <1>1. log \in Seq(Events)
    BY DEF Typed, LogOK
  <1>2. log' \in Seq(Events) /\ Len(log') = Len(log) + 1 /\ Len(log) \in Nat
    BY <1>1, AppendProperties
  <1>3. WireOK(wire, log) /\ BufferOK(buffer, log)
    BY DEF Typed
  <1>4. Len(log') \in Nat /\ Len(log) <= Len(log') /\ WireOK(buffer, log)
    BY <1>2, <1>3 DEF BufferOK
  <1>5. WireOK(wire, log')
    BY <1>2, <1>3, <1>4, WireOfLonger
  <1>6. WireOK(buffer, log')
    BY <1>2, <1>4, WireOfLonger
  <1> QED
    BY <1>2, <1>3, <1>5, <1>6 DEF LogOK, BufferOK

\* One item more in a queue.
LEMMA AppendTyped ==
  ASSUME NEW w, NEW l, WireOK(w, l), NEW x \in Items, x.id <= Len(l)
  PROVE  /\ WireOK(Append(w, x), l)
         /\ BufferOK(w, l) /\ x.event \in Events => BufferOK(Append(w, x), l)
  <1> DEFINE w2 == Append(w, x)
  <1>1. w \in Seq(Items) /\ Len(w) \in Nat
    BY DEF WireOK
  <1>2. /\ w2 \in Seq(Items) /\ Len(w2) = Len(w) + 1
        /\ \A i \in 1..Len(w) : w2[i] = w[i]
        /\ w2[Len(w) + 1] = x
    BY <1>1, AppendProperties
  <1> HIDE DEF w2
  <1>3. \A i \in 1..Len(w2) : w2[i].id <= Len(l)
    BY <1>1, <1>2 DEF WireOK
  <1>4. BufferOK(w, l) /\ x.event \in Events
           => \A i \in 1..Len(w2) : w2[i].event \in Events
    BY <1>1, <1>2 DEF BufferOK
  <1>5. WireOK(w2, l)
    BY <1>2, <1>3 DEF WireOK
  <1>6. BufferOK(w, l) /\ x.event \in Events => BufferOK(w2, l)
    BY <1>4, <1>5 DEF BufferOK
  <1> QED
    BY <1>5, <1>6 DEF w2

LEMMA BroadcastTyped ==
  ASSUME Typed, NEW e \in Events, Broadcast(e)
  PROVE  /\ LogOK(log') /\ Len(log') = Len(log) + 1 /\ Len(log) \in Nat
         /\ WireOK(wire', log') /\ BufferOK(buffer', log')
         /\ UNCHANGED <<handler, attached, since>>
  <1>1. /\ LogOK(log') /\ Len(log') = Len(log) + 1 /\ Len(log) \in Nat
        /\ WireOK(wire, log') /\ BufferOK(buffer, log')
    BY LogGrows DEF Broadcast
  <1>2. UNCHANGED <<handler, attached, since, wire>>
    BY DEF Broadcast
  <1>3. CASE Reached
    <2> DEFINE item == [id |-> Len(log) + 1, event |-> e]
    <2>1. item \in Items /\ item.id = Len(log') /\ item.event = e
      BY <1>1 DEF Items
    <2>2. buffer' = Append(buffer, item)
      BY <1>3 DEF Broadcast
    <2> HIDE DEF item
    <2>3. BufferOK(buffer', log')
      BY <1>1, <2>1, <2>2, AppendTyped DEF BufferOK
    <2> QED
      BY <1>1, <1>2, <2>3
  <1>4. CASE ~Reached
    BY <1>1, <1>2, <1>4 DEF Broadcast
  <1> QED
    BY <1>3, <1>4

LEMMA EmptyWire ==
  ASSUME NEW l
  PROVE  WireOK(<<>>, l) /\ BufferOK(<<>>, l)
  BY DEF WireOK, BufferOK

LEMMA WireConsumed ==
  ASSUME NEW w, NEW l, WireOK(w, l), w # <<>>
  PROVE  /\ WireOK(Tail(w), l)
         /\ Head(w) \in Items /\ Head(w).id <= Len(l)
         /\ Len(Tail(w)) = Len(w) - 1 /\ Len(w) \in Nat \ {0}
         /\ Head(w) = w[1]
         /\ \A i \in 1..Len(Tail(w)) : Tail(w)[i] = w[i + 1]
         /\ BufferOK(w, l) => BufferOK(Tail(w), l) /\ Head(w).event \in Events
  <1>1. w \in Seq(Items) /\ \A i \in 1..Len(w) : w[i].id <= Len(l)
    BY DEF WireOK
  <1>2. /\ Tail(w) \in Seq(Items) /\ Len(Tail(w)) = Len(w) - 1
        /\ \A i \in 1..Len(Tail(w)) : Tail(w)[i] = w[i + 1]
        /\ Head(w) \in Items
    BY <1>1, HeadTailProperties
  <1>3. Len(w) \in Nat \ {0} /\ Head(w) = w[1]
    BY <1>1, EmptySeq
  <1>4. \A i \in 1..Len(Tail(w)) : Tail(w)[i].id <= Len(l)
    BY <1>1, <1>2, <1>3
  <1>5. WireOK(Tail(w), l)
    BY <1>2, <1>4 DEF WireOK
  <1>6. BufferOK(w, l) => BufferOK(Tail(w), l) /\ Head(w).event \in Events
    BY <1>2, <1>3, <1>5 DEF BufferOK
  <1> QED
    BY <1>1, <1>2, <1>3, <1>5, <1>6

\* One queue after another.
LEMMA ConcatTyped ==
  ASSUME NEW w, NEW r, NEW l, WireOK(w, l), WireOK(r, l)
  PROVE  /\ WireOK(w \o r, l)
         /\ BufferOK(w, l) /\ BufferOK(r, l) => BufferOK(w \o r, l)
  <1> DEFINE c == w \o r
             m == Len(w)
             n == Len(r)
  <1>1. w \in Seq(Items) /\ r \in Seq(Items) /\ m \in Nat /\ n \in Nat
    BY DEF WireOK
  <1>2. /\ c \in Seq(Items) /\ Len(c) = m + n
        /\ \A i \in 1..(m + n) : c[i] = IF i <= m THEN w[i] ELSE r[i - m]
    BY <1>1, ConcatProperties
  <1>3. /\ \A i \in 1..m : w[i].id <= Len(l)
        /\ \A i \in 1..n : r[i].id <= Len(l)
        /\ BufferOK(w, l) => \A i \in 1..m : w[i].event \in Events
        /\ BufferOK(r, l) => \A i \in 1..n : r[i].event \in Events
    BY DEF WireOK, BufferOK
  <1> HIDE DEF c, m, n
  <1>4. \A i \in 1..(m + n) : ~(i <= m) => i - m \in 1..n
    BY <1>1
  <1>5. \A i \in 1..Len(c) : c[i].id <= Len(l)
    BY <1>1, <1>2, <1>3, <1>4
  <1>6. ASSUME BufferOK(w, l), BufferOK(r, l), NEW i \in 1..Len(c)
        PROVE  c[i].event \in Events
    <2>1. CASE i <= m
      BY <1>1, <1>2, <1>3, <1>6, <2>1
    <2>2. CASE ~(i <= m)
      BY <1>2, <1>3, <1>4, <1>6, <2>2
    <2> QED
      BY <2>1, <2>2
  <1>7. WireOK(c, l)
    BY <1>2, <1>5 DEF WireOK
  <1>8. BufferOK(w, l) /\ BufferOK(r, l) => BufferOK(c, l)
    BY <1>6, <1>7 DEF BufferOK
  <1> QED
    BY <1>7, <1>8 DEF c

LEMMA InitTyped == ASSUME Init PROVE Typed
  <1> USE DEF Init
  <1>1. LogOK(log) /\ WireOK(wire, log) /\ BufferOK(buffer, log)
    <2>1. log \in Seq(Events)
      BY DEF Events
    <2> QED
      BY <2>1, EmptyWire DEF LogOK
  <1>2. Len(log) = 1 /\ view \in [Peers -> {"unknown", "online", "offline"}]
        /\ blame \in [Peers -> Causes]
    BY DEF Causes
  <1>3. /\ {allowed, session, attached, ended, active, timer} \subseteq BOOLEAN
        /\ {hasBeen, conn, token, banShown, refused} \subseteq BOOLEAN
        /\ {wanted, isActive} \subseteq BOOLEAN
    OBVIOUS
  <1>4. online \subseteq Peers /\ faults \in 0..MaxFaults /\ mounts \in 0..MaxMounts
    OBVIOUS
  <1> QED
    BY <1>1, <1>2, <1>3, <1>4 DEF Typed, TypeOK, Causes

\* The server's own steps.
LEMMA ServerTyped ==
  ASSUME Typed, ServerNext
  PROVE  Typed'
  <1> USE DEF Typed, Causes
  <1>1. ASSUME NEW u \in Peers, PeerComes(u) PROVE Typed'
    <2>1. /\ LogOK(log') /\ Len(log') = Len(log) + 1 /\ Len(log) \in Nat
          /\ WireOK(wire', log') /\ BufferOK(buffer', log')
          /\ UNCHANGED <<handler, attached, since>>
      BY <1>1, BroadcastTyped, EventsTyped DEF PeerComes
    <2>2. blame' \in [Peers -> Causes]
      BY <1>1 DEF PeerComes, TypeOK
    <2> QED
      BY <1>1, <2>1, <2>2 DEF PeerComes, TypeOK, hook, auth, setting, bounds
  <1>2. ASSUME NEW u \in Peers, PeerGoes(u) PROVE Typed'
    <2>1. /\ LogOK(log') /\ Len(log') = Len(log) + 1 /\ Len(log) \in Nat
          /\ WireOK(wire', log') /\ BufferOK(buffer', log')
          /\ UNCHANGED <<handler, attached, since>>
      BY <1>2, BroadcastTyped, EventsTyped DEF PeerGoes
    <2>2. blame' \in [Peers -> Causes]
      BY <1>2 DEF PeerGoes, TypeOK
    <2> QED
      BY <1>2, <2>1, <2>2 DEF PeerGoes, TypeOK, hook, auth, setting, bounds
  <1>3. ASSUME BanUser PROVE Typed'
    <2>1. /\ LogOK(log') /\ Len(log') = Len(log) + 1 /\ Len(log) \in Nat
          /\ WireOK(wire', log') /\ BufferOK(buffer', log')
          /\ UNCHANGED <<handler, attached, since>>
      BY <1>3, BroadcastTyped, BanEventsTyped DEF BanUser
    <2>2. /\ allowed' = FALSE /\ ended' = attached
          /\ UNCHANGED <<session, online, kept, source, timer, lastId, hook, view,
                         auth, setting, bounds, refused, blame>>
      BY <1>3 DEF BanUser
    <2>3. {allowed, session, attached, ended, active, timer}' \subseteq BOOLEAN
      BY <2>1, <2>2 DEF TypeOK, hook
    <2> QED
      BY <2>1, <2>2, <2>3 DEF TypeOK, hook, auth, setting, bounds
  <1>4. ASSUME UnbanUser PROVE Typed'
    <2>1. /\ LogOK(log') /\ Len(log') = Len(log) + 1 /\ Len(log) \in Nat
          /\ WireOK(wire', log') /\ BufferOK(buffer', log')
          /\ UNCHANGED <<handler, attached, since>>
      BY <1>4, BroadcastTyped, BanEventsTyped DEF UnbanUser
    <2> QED
      BY <1>4, <2>1 DEF UnbanUser, TypeOK, hook, auth, setting, bounds
  <1>5. ASSUME SessionEnds PROVE Typed'
    BY <1>5 DEF SessionEnds, TypeOK, stream, serving, hook, auth, setting, bounds
  <1>6. ASSUME StoreEvent PROVE Typed'
    <2>1. kept' \in 0..Len(log)
      BY <1>6 DEF StoreEvent, TypeOK, LogOK
    <2> QED
      BY <1>6, <2>1 DEF StoreEvent, TypeOK, stream, serving, hook, auth, setting, bounds
  <1>7. ASSUME ServerRestarts PROVE Typed'
    <2>1. LogOK(log') /\ Len(log') = Len(log) /\ Len(log) \in Nat
      <3>1. /\ Len(log) \in Nat /\ DOMAIN log = 1..Len(log)
            /\ \A i \in 1..Len(log) : log[i] \in Events
        BY ElementOfSeq, LenProperties DEF LogOK
      <3>2. log' = [i \in 1..Len(log) |-> IF i <= kept THEN log[i] ELSE Lost]
        BY <1>7, <3>1 DEF ServerRestarts
      <3>3. log' \in [1..Len(log) -> Events]
        BY <3>1, <3>2, BanEventsTyped
      <3> QED
        BY <3>1, <3>3 DEF LogOK
    <2>2. WireOK(wire', log') /\ BufferOK(buffer', log')
      BY <1>7, <2>1, EmptyWire DEF ServerRestarts, HandlerGone, WireOK
    <2>3. blame' \in [Peers -> Causes]
      BY <1>7 DEF ServerRestarts, Unseen, TypeOK
    <2>4. kept' \in 0..Len(log') /\ {lastId, since}' \subseteq 0..Len(log')
      BY <1>7, <2>1 DEF ServerRestarts, HandlerGone, TypeOK
    <2>5. faults' \in 0..MaxFaults
      BY <1>7 DEF ServerRestarts, TypeOK
    <2> QED
      BY <1>7, <2>1, <2>2, <2>3, <2>4, <2>5
      DEF ServerRestarts, HandlerGone, TypeOK, hook, auth, setting
  <1> QED
    BY <1>1, <1>2, <1>3, <1>4, <1>5, <1>6, <1>7 DEF ServerNext

\* The steps of the stream's handler, and the hub's.
LEMMA HandlerTyped ==
  ASSUME Typed, HandlerNext
  PROVE  Typed'
  <1> USE DEF Typed, Causes
  <1>1. Len(log) \in Nat /\ wire \in Seq(Items)
    BY DEF LogOK, WireOK
  <1>2. CASE Accept
    <2> DEFINE x == Local([kind |-> "connected"])
    <2>1. x \in Items /\ x.id = Len(log) /\ wire' = <<x>>
      BY <1>1, <1>2 DEF Accept, Local, Items, Greetings
    <2> HIDE DEF x
    <2>2. WireOK(wire', log)
      BY <1>1, <2>1 DEF WireOK
    <2>3. since' \in 0..Len(log)
      BY <1>2 DEF Accept, TypeOK
    <2> QED
      BY <1>2, <2>2, <2>3 DEF Accept, TypeOK, server, hook, auth, setting, bounds
  <1>3. CASE HubAdds
    <2>1. {allowed, session, attached, ended, active, timer}' \subseteq BOOLEAN
      BY <1>3 DEF HubAdds, TypeOK, server, hook
    <2> QED
      BY <1>3, <2>1 DEF HubAdds, TypeOK, server, hook, auth, setting, bounds
  <1>4. CASE Greet
    <2> DEFINE x == Local([kind |-> "presence.initial", users |-> online])
    <2>1. x \in Items /\ x.id = Len(log) /\ wire' = Append(wire, x)
      BY <1>1, <1>4 DEF Greet, Local, Items, Greetings, TypeOK
    <2> HIDE DEF x
    <2>2. WireOK(wire', log)
      BY <1>1, <2>1, AppendTyped
    <2>3. blame' \in [Peers -> Causes]
      BY <1>4 DEF Greet, TypeOK
    <2> QED
      BY <1>4, <2>2, <2>3 DEF Greet, TypeOK, server, hook, auth, setting, bounds
  <1>5. CASE ReplayMissed
    <2>1. PICK sent \in {Replay, <<>>} : wire' = wire \o sent
      BY <1>5 DEF ReplayMissed
    <2>2. WireOK(sent, log)
      BY ReplayTyped, EmptyWire DEF WireOK
    <2>3. WireOK(wire', log)
      BY <2>1, <2>2, ConcatTyped
    <2>4. blame' \in [Peers -> Causes]
      BY <1>5 DEF ReplayMissed, TypeOK
    <2> QED
      BY <1>5, <2>3, <2>4
      DEF ReplayMissed, TypeOK, server, hook, auth, setting, bounds
  <1>6. CASE WriteNext
    <2>1. /\ Head(buffer) \in Items /\ Head(buffer).id <= Len(log)
          /\ BufferOK(Tail(buffer), log)
      BY <1>6, WireConsumed DEF WriteNext, BufferOK
    <2>2. WireOK(wire', log) /\ BufferOK(buffer', log)
      BY <1>6, <2>1, AppendTyped DEF WriteNext
    <2> QED
      BY <1>6, <2>2 DEF WriteNext, TypeOK, server, hook, auth, setting, bounds
  <1>7. CASE HandlerReturns
    <2>1. blame' \in [Peers -> Causes]
      BY <1>7 DEF HandlerReturns, Unseen, TypeOK
    <2>2. BufferOK(buffer', log) /\ 0 \in 0..Len(log)
      BY <1>1, <1>7, EmptyWire DEF HandlerReturns, HandlerGone
    <2> QED
      BY <1>7, <2>1, <2>2
      DEF HandlerReturns, HandlerGone, TypeOK, server, hook, auth, setting, bounds
  <1> QED
    BY <1>2, <1>3, <1>4, <1>5, <1>6, <1>7 DEF HandlerNext

\* The connection object's steps, and the fetch of /auth/me.
LEMMA DisconnectTyped ==
  ASSUME Typed, Disconnect, UNCHANGED log
  PROVE  /\ source' = "none" /\ WireOK(wire', log') /\ BufferOK(buffer', log')
         /\ handler' = "none" /\ attached' = FALSE /\ ended' = FALSE
         /\ since' = 0 /\ 0 \in 0..Len(log)
         /\ blame' \in [Peers -> Causes]
  <1>1. WireOK(wire', log') /\ BufferOK(buffer', log')
    BY EmptyWire DEF Disconnect, HandlerGone
  <1>2. blame' \in [Peers -> Causes]
    BY DEF Typed, TypeOK, Disconnect, Unseen, Causes
  <1>3. 0 \in 0..Len(log)
    BY DEF Typed, LogOK
  <1> QED
    BY <1>1, <1>2, <1>3 DEF Disconnect, HandlerGone

LEMMA ConnectionTyped ==
  ASSUME Typed,
         \/ Opened \/ Forbidden \/ Unauthorized
         \/ StreamBreaks \/ StreamEnds \/ ReconnectTimerFires
  PROVE  Typed'
  <1> USE DEF Typed, Causes
  <1>2. CASE Opened
    BY <1>2 DEF Opened, TypeOK, server, serving, hook, auth, setting, bounds
  <1>3. CASE Forbidden
    <2>1. /\ source' = "none" /\ WireOK(wire', log') /\ BufferOK(buffer', log')
          /\ handler' = "none" /\ attached' = FALSE /\ ended' = FALSE
          /\ since' = 0 /\ 0 \in 0..Len(log)
          /\ blame' \in [Peers -> Causes]
      BY <1>3, DisconnectTyped DEF Forbidden, server
    <2> QED
      BY <1>3, <2>1 DEF Forbidden, InvalidateMe, TypeOK, server, setting, bounds
  <1>4. ASSUME OnError, UNCHANGED mounts, faults' \in 0..MaxFaults PROVE Typed'
    <2>1. /\ source' = "none" /\ WireOK(wire', log') /\ BufferOK(buffer', log')
          /\ handler' = "none" /\ attached' = FALSE /\ ended' = FALSE
          /\ since' = 0 /\ 0 \in 0..Len(log)
          /\ blame' \in [Peers -> Causes]
      BY <1>4, DisconnectTyped DEF OnError, server
    <2> QED
      BY <1>4, <2>1 DEF OnError, ScheduleReconnect, TypeOK, server, setting, auth
  <1>5. CASE Unauthorized \/ StreamEnds
    BY <1>4, <1>5 DEF Unauthorized, StreamEnds, OnError, TypeOK
  <1>6. CASE StreamBreaks
    <2>1. OnError /\ UNCHANGED mounts /\ faults' \in 0..MaxFaults
      BY <1>6 DEF StreamBreaks, OnError, TypeOK
    <2> QED
      BY <1>4, <2>1
  <1>7. CASE ReconnectTimerFires
    <2>1. source' \in {"none", "opening", "open"} /\ refused' \in BOOLEAN
          /\ me' \in {"idle", "asked", "unauthorized", "clear", "banned"}
      BY <1>7 DEF ReconnectTimerFires, Connect, InvalidateMe, TypeOK
    <2> QED
      BY <1>7, <2>1
      DEF ReconnectTimerFires, TypeOK, server, serving, setting, bounds, hook
  <1> QED
    BY <1>2, <1>3, <1>5, <1>6, <1>7

LEMMA HandlersTyped ==
  ASSUME Typed, Receive \/ ReceiveHeartbeat \/ MeServed \/ MeAnswered
  PROVE  Typed'
  <1> USE DEF Typed, Causes
  <1>1. CASE Receive
    <2>1. WireOK(wire', log) /\ Head(wire) \in Items /\ Head(wire).id <= Len(log)
      BY <1>1, WireConsumed DEF Receive
    <2>2. lastId' \in 0..Len(log)
      BY <1>1, <2>1 DEF Receive, TypeOK, Items
    <2>3. /\ {hasBeen, conn}' \subseteq BOOLEAN
          /\ me' \in {"idle", "asked", "unauthorized", "clear", "banned"}
      BY <1>1 DEF Receive, Handle, InvalidateMe, TypeOK
    <2>4. view' \in [Peers -> {"unknown", "online", "offline"}]
      BY <1>1 DEF Receive, Handle, SetMultiple, SetUserPresence, TypeOK
    <2> QED
      BY <1>1, <2>1, <2>2, <2>3, <2>4
      DEF Receive, TypeOK, server, serving, setting, bounds
  <1>2. CASE ReceiveHeartbeat
    BY <1>2 DEF ReceiveHeartbeat, TypeOK, LogOK, server, serving, hook, auth, setting, bounds
  <1>3. CASE MeServed
    BY <1>3 DEF MeServed, TypeOK, server, serving, stream, hook, setting, bounds
  <1>4. CASE MeAnswered
    <2>1. token' \in BOOLEAN /\ banShown' \in BOOLEAN
      BY <1>4 DEF MeAnswered, TypeOK
    <2> QED
      BY <1>4, <2>1 DEF MeAnswered, TypeOK, server, serving, stream, hook, setting, bounds
  <1> QED
    BY <1>1, <1>2, <1>3, <1>4

LEMMA RunEffectTyped ==
  ASSUME Typed, RunEffect, wanted' \in BOOLEAN, isActive' \in BOOLEAN,
         app' \in {"active", "inactive", "background"}
  PROVE  Typed'
  <1> USE DEF Typed, Causes
  <1>1. source' \in {"none", "opening", "open"} /\ refused' \in BOOLEAN
        /\ me' \in {"idle", "asked", "unauthorized", "clear", "banned"}
    BY DEF RunEffect, InvalidateMe, TypeOK
  <1>2. mounts' \in 0..MaxMounts /\ lastId' \in 0..Len(log)
    BY DEF RunEffect, TypeOK, LogOK
  <1> QED
    BY <1>1, <1>2 DEF RunEffect, TypeOK, server, serving

LEMMA CleanUpTyped ==
  ASSUME Typed, CleanUp, wanted' \in BOOLEAN, isActive' \in BOOLEAN,
         app' \in {"active", "inactive", "background"}
  PROVE  Typed'
  <1> USE DEF Typed, Causes
  <1>1. /\ source' = "none" /\ WireOK(wire', log') /\ BufferOK(buffer', log')
        /\ handler' = "none" /\ attached' = FALSE /\ ended' = FALSE
        /\ since' = 0 /\ 0 \in 0..Len(log)
        /\ blame' \in [Peers -> Causes]
    BY DisconnectTyped DEF CleanUp, server
  <1>2. view' \in [Peers -> {"unknown", "online", "offline"}]
    BY DEF CleanUp, TypeOK
  <1> QED
    BY <1>1, <1>2 DEF CleanUp, TypeOK, server, serving, auth, bounds

LEMMA UntouchedTyped ==
  ASSUME Typed, Untouched, wanted' \in BOOLEAN, isActive' \in BOOLEAN,
         app' \in {"active", "inactive", "background"}
  PROVE  Typed'
  BY DEF Typed, Causes, Untouched, TypeOK, server, serving, stream, hook, auth, bounds

LEMMA UserTyped ==
  ASSUME Typed, UserNext
  PROVE  Typed'
  <1>1. wanted \in BOOLEAN /\ isActive \in BOOLEAN
        /\ app \in {"active", "inactive", "background"}
    BY DEF Typed, TypeOK
  <1>2. CASE EnterWorkspace
    BY <1>1, <1>2, RunEffectTyped DEF EnterWorkspace
  <1>3. CASE LeaveWorkspace
    BY <1>1, <1>3, CleanUpTyped, UntouchedTyped DEF LeaveWorkspace
  <1>4. ASSUME NEW next \in {"active", "inactive", "background"},
               AppStateChanges(next)
        PROVE  Typed'
    <2>1. wanted' \in BOOLEAN /\ isActive' \in BOOLEAN
          /\ app' \in {"active", "inactive", "background"}
      BY <1>1, <1>4 DEF AppStateChanges
    <2>2. RunEffect \/ CleanUp \/ Untouched
      BY <1>4 DEF AppStateChanges
    <2> QED
      BY <2>1, <2>2, RunEffectTyped, CleanUpTyped, UntouchedTyped
  <1> QED
    BY <1>2, <1>3, <1>4 DEF UserNext

\* The types of ClientStream hold throughout, the wire and the buffer carry only
\* events and greetings, and none of them is newer than the server's log.
THEOREM StreamTypes == Spec => []Typed
  <1>1. Init => Typed
    BY InitTyped
  <1>2. Typed /\ [Next]_vars => Typed'
    <2> SUFFICES ASSUME Typed, [Next]_vars PROVE Typed'
      OBVIOUS
    <2>1. CASE Next
      BY <2>1, ServerTyped, HandlerTyped, ConnectionTyped, HandlersTyped, UserTyped
      DEF Next, ClientNext
    <2>2. CASE UNCHANGED vars
      BY <2>2 DEF vars, server, serving, stream, hook, setting, auth, bounds, Typed, TypeOK
    <2> QED
      BY <2>1, <2>2
  <1> QED
    BY <1>1, <1>2, PTL DEF Spec

-----------------------------------------------------------------------------
(* One way back to the stream. *)

\* The lifecycle hook's copy of the app's state is never stale; with it
\* OneWayBack is inductive.
WayInv == OneWayBack /\ isActive = (app = "active")

\* What the steps that are neither the connection's nor the user's leave alone.
LEMMA WayKept ==
  ASSUME WayInv, UNCHANGED <<active, source, timer, wanted, app, isActive>>,
         refused => refused', conn' => conn \/ source = "open"
  PROVE  WayInv'
  BY DEF WayInv, OneWayBack

\* After an error the timer is the way back.
LEMMA WayAfterError ==
  ASSUME Typed, WayInv, OnError, source # "none"
  PROVE  WayInv'
  <1>1. active
    BY DEF WayInv, OneWayBack, Typed, TypeOK
  <1>2. /\ source' = "none" /\ timer' = TRUE /\ conn' = FALSE
        /\ UNCHANGED <<active, platform, wanted, app, isActive>>
    BY DEF OnError, Disconnect, ScheduleReconnect, setting
  <1> QED
    BY <1>1, <1>2 DEF WayInv, OneWayBack

LEMMA ConnectionKeepsWay ==
  ASSUME Typed, WayInv,
         \/ Opened \/ Forbidden \/ Unauthorized
         \/ StreamBreaks \/ StreamEnds \/ ReconnectTimerFires
  PROVE  WayInv'
  <1>2. CASE Opened
    <2>1. source = "opening" /\ source' = "open" /\ UNCHANGED <<timer, hook, setting, refused>>
      BY <1>2 DEF Opened
    <2>2. active /\ ~timer /\ ~conn
      BY <2>1 DEF WayInv, OneWayBack, Typed, TypeOK
    <2> QED
      BY <2>1, <2>2 DEF WayInv, OneWayBack, hook, setting
  <1>3. CASE Forbidden
    <2>1. /\ source = "opening" /\ source' = "none" /\ conn' = FALSE
          /\ timer' = FALSE /\ refused' = TRUE
          /\ UNCHANGED <<active, setting>>
      BY <1>3 DEF Forbidden, Disconnect
    <2> QED
      BY <2>1 DEF WayInv, OneWayBack, setting
  <1>4. CASE Unauthorized \/ StreamBreaks \/ StreamEnds
    BY <1>4, WayAfterError DEF Unauthorized, StreamBreaks, StreamEnds
  <1>5. CASE ReconnectTimerFires
    <2>1. timer /\ timer' = FALSE /\ UNCHANGED <<hook, setting>> /\ Connect
      BY <1>5 DEF ReconnectTimerFires
    <2>2. active /\ source = "none" /\ ~conn
      BY <2>1 DEF WayInv, OneWayBack, Typed, TypeOK
    <2>3. source' = "opening" \/ (source' = "none" /\ refused')
      BY <2>1, <2>2 DEF Connect
    <2> QED
      BY <2>1, <2>2, <2>3 DEF WayInv, OneWayBack, hook, setting
  <1> QED
    BY <1>2, <1>3, <1>4, <1>5

LEMMA HandlersKeepWay ==
  ASSUME WayInv, \/ ServerNext \/ HandlerNext \/ Receive \/ ReceiveHeartbeat
                 \/ MeServed \/ MeAnswered
  PROVE  WayInv'
  <1>1. /\ UNCHANGED <<active, source, timer, wanted, app, isActive, refused>>
        /\ UNCHANGED conn \/ source = "open"
    <2>1. CASE ServerNext
      BY <2>1 DEF ServerNext, PeerComes, PeerGoes, BanUser, UnbanUser, SessionEnds,
                  StoreEvent, ServerRestarts, hook, setting, stream
    <2>5. CASE HandlerNext
      BY <2>5 DEF HandlerNext, Accept, HubAdds, Greet, ReplayMissed, WriteNext,
                  HandlerReturns, hook, setting
    <2>2. CASE Receive
      BY <2>2 DEF Receive, setting
    <2>3. CASE ReceiveHeartbeat
      BY <2>3 DEF ReceiveHeartbeat, hook, setting
    <2>4. CASE MeServed \/ MeAnswered
      BY <2>4 DEF MeServed, MeAnswered, stream, hook, setting
    <2> QED
      BY <2>1, <2>2, <2>3, <2>4, <2>5
  <1> QED
    BY <1>1, WayKept

\* The effect runs where there was none, and starts with one way.
LEMMA EffectGivesWay ==
  ASSUME Typed, ~active, WayInv, RunEffect,
         wanted' = TRUE, app' = "active", isActive' = TRUE
  PROVE  WayInv'
  <1>1. source = "none" /\ timer = FALSE /\ conn = FALSE
    BY DEF WayInv, OneWayBack, Typed, TypeOK
  <1>2. /\ active' = TRUE /\ UNCHANGED <<timer, conn>>
        /\ source' = "opening" \/ (source' = source /\ refused' = TRUE)
    BY DEF RunEffect
  <1> QED
    BY <1>1, <1>2 DEF WayInv, OneWayBack

\* The clean-up leaves nothing behind.
LEMMA CleanUpLeavesNothing ==
  ASSUME CleanUp, ~(wanted' /\ app' = "active"), isActive' = (app' = "active")
  PROVE  WayInv'
  <1>1. active' = FALSE /\ source' = "none" /\ timer' = FALSE /\ conn' = FALSE
    BY DEF CleanUp, Disconnect
  <1> QED
    BY <1>1 DEF WayInv, OneWayBack

LEMMA UserKeepsWay ==
  ASSUME Typed, WayInv, UserNext
  PROVE  WayInv'
  <1>1. /\ wanted \in BOOLEAN /\ isActive \in BOOLEAN /\ active \in BOOLEAN
        /\ active = (wanted /\ app = "active") /\ isActive = (app = "active")
    BY DEF Typed, TypeOK, WayInv, OneWayBack
  <1>2. ASSUME Untouched, (wanted' /\ app' = "active") = (wanted /\ app = "active"),
               isActive' = (app' = "active")
        PROVE  WayInv'
    <2>1. UNCHANGED <<active, source, timer, conn, refused>>
      BY <1>2 DEF Untouched, stream, hook
    <2> QED
      BY <1>1, <1>2, <2>1 DEF WayInv, OneWayBack
  <1>3. CASE EnterWorkspace
    <2>1. ~active /\ app = "active"
      BY <1>1, <1>3 DEF EnterWorkspace
    <2> QED
      BY <1>3, <2>1, EffectGivesWay DEF EnterWorkspace, WayInv
  <1>4. CASE LeaveWorkspace
    <2>1. wanted /\ wanted' = FALSE /\ UNCHANGED <<app, isActive>>
      BY <1>4 DEF LeaveWorkspace
    <2>2. CASE active
      BY <1>1, <1>4, <2>1, <2>2, CleanUpLeavesNothing DEF LeaveWorkspace
    <2>3. CASE ~active
      BY <1>1, <1>2, <1>4, <2>1, <2>3 DEF LeaveWorkspace
    <2> QED
      BY <2>2, <2>3
  <1>5. ASSUME NEW next, AppStateChanges(next) PROVE WayInv'
    <2>1. app' = next /\ UNCHANGED wanted
      BY <1>5 DEF AppStateChanges
    <2>2. CASE app # "active" /\ next = "active"
      <3>1. isActive' = TRUE /\ ~active
        BY <1>1, <1>5, <2>2 DEF AppStateChanges
      <3>2. CASE wanted
        <4>1. RunEffect
          BY <1>5, <2>2, <3>2 DEF AppStateChanges
        <4> QED
          BY <1>1, <2>1, <2>2, <3>1, <3>2, <4>1, EffectGivesWay
      <3>3. CASE ~wanted
        <4>1. Untouched
          BY <1>5, <2>2, <3>3 DEF AppStateChanges
        <4> QED
          BY <1>1, <1>2, <2>1, <2>2, <3>1, <3>3, <4>1
      <3> QED
        BY <3>2, <3>3
    <2>3. CASE app = "active" /\ next # "active"
      <3>1. isActive' = FALSE
        BY <1>5, <2>3 DEF AppStateChanges
      <3>2. CASE wanted
        <4>1. CleanUp
          BY <1>5, <2>3, <3>2 DEF AppStateChanges
        <4> QED
          BY <2>1, <2>3, <3>1, <4>1, CleanUpLeavesNothing
      <3>3. CASE ~wanted
        <4>1. Untouched
          BY <1>5, <2>3, <3>3 DEF AppStateChanges
        <4> QED
          BY <1>1, <1>2, <2>1, <2>3, <3>1, <3>3, <4>1
      <3> QED
        BY <3>2, <3>3
    <2>4. CASE (app = "active") = (next = "active")
      <3>1. app # "active" /\ Untouched /\ UNCHANGED isActive
        BY <1>5, <2>4 DEF AppStateChanges
      <3> QED
        BY <1>1, <1>2, <2>1, <2>4, <3>1
    <2> QED
      BY <2>2, <2>3, <2>4
  <1> QED
    BY <1>3, <1>4, <1>5 DEF UserNext

\* Whatever the server, the network, the user and the phone do, a hook in force
\* has exactly one way back to its stream, the source or the timer, or it was
\* refused; one not in force has left nothing behind (lib/sse.ts, useSSE.ts).
THEOREM StreamHasOneWayBack == Spec => []OneWayBack
  <1>1. Init => WayInv
    BY DEF Init, WayInv, OneWayBack
  <1>2. Typed /\ WayInv /\ [Next]_vars => WayInv'
    <2> SUFFICES ASSUME Typed, WayInv, [Next]_vars PROVE WayInv'
      OBVIOUS
    <2>1. CASE Next
      BY <2>1, ConnectionKeepsWay, HandlersKeepWay, UserKeepsWay
      DEF Next, ClientNext
    <2>2. CASE UNCHANGED vars
      BY <2>2 DEF vars, stream, hook, setting, WayInv, OneWayBack
    <2> QED
      BY <2>1, <2>2
  <1>3. WayInv => OneWayBack
    BY DEF WayInv
  <1> QED
    BY <1>1, <1>2, <1>3, StreamTypes, PTL DEF Spec

-----------------------------------------------------------------------------
(* Presence: what a client will show of a peer once it has read all that is *)
(* written or buffered for it.                                              *)

IsAbout(e, u) == e.kind = "presence.changed" /\ e.user = u
IsGreeting(e) == e.kind = "presence.initial"

Greets(w, u) ==
    \E i \in DOMAIN w : IsGreeting(w[i].event) /\ u \in w[i].event.users

Shows(w, v, u) ==
    IF About(w, u) = {} THEN Greets(w, u) \/ v[u] = "online"
    ELSE ~Says(w, u, FALSE)

\* Nothing but the mark of the connection is ahead of a greeting.
GreetingFirst(w) ==
    \A i, j \in DOMAIN w :
        IsGreeting(w[i].event) /\ j < i => w[j].event.kind = "connected"

\* The causes for which a peer may be shown wrongly.
Excused(u) == \/ blame[u] = "unseen" /\ u \notin online
              \/ blame[u] \in {"gap", "dropped"} /\ u \in online
              \/ blame[u] = "replay" /\ platform = "mobile"

\* What the hub has buffered about a peer ends with how it is now, unless excused.
BufferTrue(u) ==
    About(buffer, u) # {} =>
        (Says(buffer, u, FALSE) <=> u \notin online) \/ Excused(u)

\* A peer who is away will not be shown online, and one who is there will be
\* once the presence is sent, unless excused.
PeerInv(u) ==
    /\ Shows(Coming, view, u) /\ u \notin online => Excused(u)
    /\ Greeted /\ u \in online => Shows(Coming, view, u) \/ Excused(u)
    /\ BufferTrue(u)

HandlerInv ==
    /\ handler = "none" => ~attached
    /\ ~attached => buffer = <<>>
    /\ handler = "accepted" => \A i \in DOMAIN wire : wire[i].event.kind = "connected"

PresenceInv == GreetingFirst(wire) /\ HandlerInv /\ \A u \in Peers : PeerInv(u)

LEMMA ItemKinds ==
  ASSUME NEW x \in Items
  PROVE  /\ x.event.kind = "presence.changed" => x.event.on \in BOOLEAN
         /\ x.event \in Events => ~IsGreeting(x.event)
  BY DEF Items, Events, Greetings, IsGreeting, Banned, Unbanned, Lost

LEMMA AboutIs ==
  ASSUME NEW w \in Seq(Items), NEW u
  PROVE  /\ Len(w) \in Nat /\ DOMAIN w = 1..Len(w)
         /\ About(w, u) = {i \in 1..Len(w) : IsAbout(w[i].event, u)}
  BY DEF About, IsAbout

\* An event more on the wire.
LEMMA WireAppended ==
  ASSUME NEW w \in Seq(Items), NEW x \in Items, NEW w2, w2 = Append(w, x),
         x.event \in Events, NEW v, NEW u
  PROVE  /\ GreetingFirst(w) => GreetingFirst(w2)
         /\ ~IsAbout(x.event, u) => (Shows(w2, v, u) <=> Shows(w, v, u))
         /\ IsAbout(x.event, u) => (Shows(w2, v, u) <=> x.event.on = TRUE)
  <1>1. /\ w2 \in Seq(Items) /\ Len(w2) = Len(w) + 1 /\ Len(w) \in Nat
        /\ \A i \in 1..Len(w) : w2[i] = w[i]
        /\ w2[Len(w) + 1] = x
    BY AppendProperties, LenProperties
  <1>2. /\ DOMAIN w = 1..Len(w) /\ DOMAIN w2 = 1..(Len(w) + 1)
        /\ About(w, u) = {i \in 1..Len(w) : IsAbout(w[i].event, u)}
        /\ About(w2, u) = {i \in 1..(Len(w) + 1) : IsAbout(w2[i].event, u)}
    BY <1>1, AboutIs
  <1>3. ~IsGreeting(x.event)
    BY ItemKinds
  <1>4. GreetingFirst(w) => GreetingFirst(w2)
    BY <1>1, <1>2, <1>3 DEF GreetingFirst
  <1>5. Greets(w2, u) = Greets(w, u)
    BY <1>1, <1>2, <1>3 DEF Greets
  <1>6. ASSUME ~IsAbout(x.event, u) PROVE Shows(w2, v, u) <=> Shows(w, v, u)
    <2>1. About(w2, u) = About(w, u)
      BY <1>1, <1>2, <1>6
    <2>2. Says(w2, u, FALSE) = Says(w, u, FALSE)
      BY <1>1, <1>2, <2>1 DEF Says
    <2> QED
      BY <1>5, <2>1, <2>2 DEF Shows
  <1>7. ASSUME IsAbout(x.event, u) PROVE Shows(w2, v, u) <=> x.event.on = TRUE
    <2>1. Len(w) + 1 \in About(w2, u) /\ \A j \in About(w2, u) : j <= Len(w) + 1
      BY <1>1, <1>2, <1>7
    <2>2. x.event.on \in BOOLEAN
      BY <1>7, ItemKinds DEF IsAbout
    <2>3. Says(w2, u, FALSE) <=> x.event.on = FALSE
      <3>1. \A i \in About(w2, u) :
              (\A j \in About(w2, u) : j <= i) => i = Len(w) + 1
        BY <1>1, <1>2, <2>1
      <3> QED
        BY <1>1, <2>1, <3>1 DEF Says
    <2> QED
      BY <2>1, <2>2, <2>3 DEF Shows
  <1> QED
    BY <1>4, <1>6, <1>7

\* What a queue says last changes only for the peer of an event appended to it.
LEMMA SaysAppended ==
  ASSUME NEW w \in Seq(Items), NEW x \in Items, NEW w2, w2 = Append(w, x),
         x.event \in Events, NEW u
  PROVE  /\ ~IsAbout(x.event, u) => /\ About(w2, u) = {} <=> About(w, u) = {}
                                    /\ Says(w2, u, FALSE) <=> Says(w, u, FALSE)
         /\ IsAbout(x.event, u) => /\ About(w2, u) # {}
                                   /\ Says(w2, u, FALSE) <=> x.event.on # TRUE
  <1>1. /\ w2 \in Seq(Items) /\ Len(w2) = Len(w) + 1 /\ Len(w) \in Nat
        /\ \A i \in 1..Len(w) : w2[i] = w[i]
        /\ w2[Len(w) + 1] = x
    BY AppendProperties, LenProperties
  <1>2. /\ About(w, u) = {i \in 1..Len(w) : IsAbout(w[i].event, u)}
        /\ About(w2, u) = {i \in 1..(Len(w) + 1) : IsAbout(w2[i].event, u)}
    BY <1>1, AboutIs
  <1>3. ASSUME ~IsAbout(x.event, u)
        PROVE  /\ About(w2, u) = About(w, u)
               /\ Says(w2, u, FALSE) <=> Says(w, u, FALSE)
    <2>1. About(w2, u) = About(w, u)
      BY <1>1, <1>2, <1>3
    <2> QED
      BY <1>1, <1>2, <2>1 DEF Says
  <1>4. ASSUME IsAbout(x.event, u)
        PROVE  About(w2, u) # {} /\ (Says(w2, u, FALSE) <=> x.event.on # TRUE)
    <2>1. About(w2, u) # {}
      BY <1>1, <1>2, <1>4
    <2>2. Shows(w2, [p \in {} |-> {}], u) <=> x.event.on = TRUE
      BY <1>4, WireAppended
    <2> QED
      BY <2>1, <2>2 DEF Shows
  <1> QED
    BY <1>3, <1>4

\* The first item is read.
LEMMA GreetingRead ==
  ASSUME NEW w \in Seq(Items), w # <<>>, GreetingFirst(w)
  PROVE  GreetingFirst(Tail(w))
  <1> DEFINE t == Tail(w)
             n == Len(w) - 1
  <1>1. /\ t \in Seq(Items) /\ Len(t) = n /\ n \in Nat
        /\ \A i \in 1..n : t[i] = w[i + 1]
    BY HeadTailProperties, EmptySeq
  <1>2. DOMAIN w = 1..(n + 1) /\ DOMAIN t = 1..n
    BY <1>1
  <1> HIDE DEF n, t
  <1> SUFFICES ASSUME NEW i \in 1..n, NEW j \in 1..n, IsGreeting(t[i].event), j < i
               PROVE  t[j].event.kind = "connected"
    BY <1>2 DEF GreetingFirst, t
  <1>3. i + 1 \in DOMAIN w /\ j + 1 \in DOMAIN w /\ j + 1 < i + 1
    BY <1>1, <1>2
  <1> QED
    BY <1>1, <1>3 DEF GreetingFirst

LEMMA WireRead ==
  ASSUME NEW w \in Seq(Items), w # <<>>, GreetingFirst(w), NEW v, NEW v2, NEW u,
         IsAbout(w[1].event, u)
            => v2[u] = (IF w[1].event.on THEN "online" ELSE "offline"),
         ~IsAbout(w[1].event, u)
            => v2[u] = (IF IsGreeting(w[1].event) /\ u \in w[1].event.users
                        THEN "online" ELSE v[u])
  PROVE  Shows(Tail(w), v2, u) <=> Shows(w, v, u)
  <1> DEFINE t == Tail(w)
             h == w[1].event
  <1>1. /\ t \in Seq(Items) /\ Len(t) = Len(w) - 1 /\ Len(w) \in Nat \ {0}
        /\ \A i \in 1..Len(t) : t[i] = w[i + 1]
    BY HeadTailProperties, EmptySeq
  <1> DEFINE n == Len(w) - 1
  <1>2. /\ n \in Nat /\ DOMAIN w = 1..(n + 1) /\ DOMAIN t = 1..n
        /\ About(w, u) = {i \in 1..(n + 1) : IsAbout(w[i].event, u)}
        /\ About(t, u) = {i \in 1..n : IsAbout(w[i + 1].event, u)}
        /\ \A i \in 1..n : t[i] = w[i + 1]
    <2>1. /\ DOMAIN w = 1..Len(w) /\ DOMAIN t = 1..Len(t)
          /\ About(w, u) = {i \in 1..Len(w) : IsAbout(w[i].event, u)}
          /\ About(t, u) = {i \in 1..Len(t) : IsAbout(t[i].event, u)}
      BY <1>1, AboutIs
    <2> QED
      BY <1>1, <2>1
  <1>3. /\ IsAbout(h, u) => v2[u] = (IF h.on THEN "online" ELSE "offline")
        /\ ~IsAbout(h, u) => v2[u] = (IF IsGreeting(h) /\ u \in h.users
                                      THEN "online" ELSE v[u])
        /\ h = w[1].event
    OBVIOUS
  <1> HIDE DEF n, t, h
  <1>4. \A i \in 1..n : i + 1 \in About(w, u) <=> i \in About(t, u)
    BY <1>2
  <1>5. \A i \in About(w, u) : i = 1 \/ (i - 1 \in 1..n /\ (i - 1) + 1 = i)
    BY <1>2
  <1>6. 1 \in About(w, u) <=> IsAbout(h, u)
    BY <1>2, <1>3
  <1>7. ASSUME About(t, u) # {} PROVE Shows(t, v2, u) <=> Shows(w, v, u)
    <2>1. About(w, u) # {}
      BY <1>2, <1>4, <1>7
    <2>2. Says(t, u, FALSE) => Says(w, u, FALSE)
      <3> SUFFICES ASSUME NEW i \in About(t, u),
                          \A j \in About(t, u) : j <= i,
                          t[i].event.on = FALSE
                   PROVE  Says(w, u, FALSE)
        BY DEF Says
      <3>1. i + 1 \in About(w, u) /\ w[i + 1].event.on = FALSE
        BY <1>2, <1>4
      <3>2. ASSUME NEW j \in About(w, u) PROVE j <= i + 1
        <4>1. CASE j = 1
          BY <1>2, <4>1
        <4>2. CASE j # 1
          <5>1. j - 1 \in About(t, u)
            BY <1>4, <1>5, <4>2
          <5> QED
            BY <1>2, <5>1
        <4> QED
          BY <4>1, <4>2
      <3> QED
        BY <3>1, <3>2 DEF Says
    <2>3. Says(w, u, FALSE) => Says(t, u, FALSE)
      <3> SUFFICES ASSUME NEW i \in About(w, u),
                          \A j \in About(w, u) : j <= i,
                          w[i].event.on = FALSE
                   PROVE  Says(t, u, FALSE)
        BY DEF Says
      <3>1. PICK k \in 1..n : k \in About(t, u)
        BY <1>2, <1>7
      <3>2. k + 1 <= i
        BY <1>4, <3>1
      <3>3. i - 1 \in 1..n /\ (i - 1) + 1 = i
        BY <1>2, <1>5, <3>1, <3>2
      <3>4. i - 1 \in About(t, u) /\ t[i - 1].event.on = FALSE
        BY <1>2, <1>4, <3>3
      <3>5. ASSUME NEW j \in About(t, u) PROVE j <= i - 1
        <4>1. j \in 1..n /\ j + 1 \in About(w, u)
          BY <1>2, <1>4
        <4>2. j + 1 <= i
          BY <4>1
        <4> QED
          BY <1>2, <3>3, <4>1, <4>2
      <3> QED
        BY <3>4, <3>5 DEF Says
    <2> QED
      BY <1>7, <2>1, <2>2, <2>3 DEF Shows
  <1>8. ASSUME About(t, u) = {}, IsAbout(h, u)
        PROVE  Shows(t, v2, u) <=> Shows(w, v, u)
    <2>1. About(w, u) = {1}
      BY <1>4, <1>5, <1>6, <1>8
    <2>2. h.on \in BOOLEAN
      <3>1. w[1] \in Items
        BY <1>1
      <3> QED
        BY <1>3, <1>8, <3>1, ItemKinds DEF IsAbout
    <2>3. Says(w, u, FALSE) <=> h.on = FALSE
      BY <1>3, <2>1 DEF Says
    <2>4. ~Greets(t, u)
      <3> SUFFICES ASSUME NEW i \in 1..n, IsGreeting(t[i].event) PROVE FALSE
        BY <1>2 DEF Greets
      <3>1. i + 1 \in DOMAIN w /\ 1 \in DOMAIN w /\ 1 < i + 1
        BY <1>2
      <3>2. h.kind = "connected"
        BY <1>2, <1>3, <3>1 DEF GreetingFirst
      <3> QED
        BY <1>8, <3>2 DEF IsAbout
    <2> QED
      BY <1>3, <1>8, <2>1, <2>2, <2>3, <2>4 DEF Shows
  <1>9. ASSUME About(t, u) = {}, ~IsAbout(h, u)
        PROVE  Shows(t, v2, u) <=> Shows(w, v, u)
    <2>1. About(w, u) = {}
      BY <1>4, <1>5, <1>6, <1>9
    <2>2. Greets(w, u) <=> Greets(t, u) \/ (IsGreeting(h) /\ u \in h.users)
      <3>1. ASSUME NEW i \in 1..(n + 1), IsGreeting(w[i].event), u \in w[i].event.users
            PROVE  Greets(t, u) \/ (IsGreeting(h) /\ u \in h.users)
        <4>1. CASE i = 1
          BY <1>3, <3>1, <4>1
        <4>2. CASE i # 1
          <5>1. i - 1 \in 1..n /\ t[i - 1] = w[i]
            BY <1>2, <4>2
          <5> QED
            BY <1>2, <3>1, <5>1 DEF Greets
        <4> QED
          BY <4>1, <4>2
      <3>2. ASSUME NEW i \in 1..n, IsGreeting(t[i].event), u \in t[i].event.users
            PROVE  Greets(w, u)
        <4>1. i + 1 \in 1..(n + 1) /\ t[i] = w[i + 1]
          BY <1>2
        <4> QED
          BY <1>2, <3>2, <4>1 DEF Greets
      <3>3. IsGreeting(h) /\ u \in h.users => Greets(w, u)
        BY <1>2, <1>3 DEF Greets
      <3> QED
        BY <1>2, <3>1, <3>2, <3>3 DEF Greets
    <2> QED
      BY <1>3, <1>9, <2>1, <2>2 DEF Shows
  <1> QED
    BY <1>7, <1>8, <1>9 DEF t

\* What a buffer says last of a peer is said by the rest of it, if that is about
\* the peer at all.
LEMMA BufferRead ==
  ASSUME NEW w \in Seq(Items), w # <<>>, \A i \in 1..Len(w) : w[i].event \in Events,
         NEW u
  PROVE  About(Tail(w), u) # {} =>
            About(w, u) # {} /\ (Says(Tail(w), u, FALSE) <=> Says(w, u, FALSE))
  <1> DEFINE h == w[1].event
             v == [p \in {u} |-> "offline"]
             v2 == [p \in {u} |-> IF IsAbout(h, u) /\ h.on THEN "online" ELSE "offline"]
  <1>1. /\ Tail(w) \in Seq(Items) /\ Len(Tail(w)) = Len(w) - 1 /\ Len(w) \in Nat \ {0}
        /\ \A i \in 1..Len(Tail(w)) : Tail(w)[i] = w[i + 1]
        /\ DOMAIN w = 1..Len(w)
    BY HeadTailProperties, EmptySeq
  <1>2. \A i \in 1..Len(w) : ~IsGreeting(w[i].event)
    <2> TAKE i \in 1..Len(w)
    <2>1. w[i] \in Items
      BY ElementOfSeq
    <2> QED
      BY <2>1, ItemKinds
  <1>3. GreetingFirst(w)
    BY <1>1, <1>2 DEF GreetingFirst
  <1>4. /\ IsAbout(h, u) => v2[u] = (IF h.on THEN "online" ELSE "offline")
        /\ ~IsAbout(h, u) => v2[u] = (IF IsGreeting(h) /\ u \in h.users
                                      THEN "online" ELSE v[u])
    <2>1. ~IsGreeting(h)
      BY <1>1, <1>2
    <2> QED
      BY <2>1
  <1>5. Shows(Tail(w), v2, u) <=> Shows(w, v, u)
    <2> HIDE DEF v, v2
    <2> QED
      BY <1>3, <1>4, WireRead
  <1>6. About(Tail(w), u) # {} => About(w, u) # {}
    <2>1. /\ About(w, u) = {i \in 1..Len(w) : IsAbout(w[i].event, u)}
          /\ About(Tail(w), u) = {i \in 1..Len(Tail(w)) : IsAbout(Tail(w)[i].event, u)}
      BY <1>1, AboutIs
    <2>2. \A i \in About(Tail(w), u) : i + 1 \in About(w, u)
      BY <1>1, <2>1
    <2> QED
      BY <2>2
  <1> QED
    BY <1>5, <1>6 DEF Shows

\* Only one thing is said last.
LEMMA SaysOne ==
  ASSUME NEW w \in Seq(Items), NEW u, NEW b \in BOOLEAN, NEW c \in BOOLEAN,
         Says(w, u, b), Says(w, u, c)
  PROVE  b = c
  <1>1. About(w, u) \subseteq 1..Len(w) /\ Len(w) \in Nat
    BY AboutIs
  <1>2. PICK i \in About(w, u) : /\ \A j \in About(w, u) : j <= i
                                 /\ w[i].event.on = b
    BY DEF Says
  <1>3. PICK k \in About(w, u) : /\ \A j \in About(w, u) : j <= k
                                 /\ w[k].event.on = c
    BY DEF Says
  <1>4. i = k
    BY <1>1, <1>2, <1>3
  <1> QED
    BY <1>2, <1>3, <1>4

\* Events that come after a queue decide about the peers they are about.
LEMMA ConcatShown ==
  ASSUME NEW w \in Seq(Items), NEW r \in Seq(Items),
         \A i \in 1..Len(r) : r[i].event \in Events,
         NEW v, NEW u
  PROVE  /\ GreetingFirst(w) => GreetingFirst(w \o r)
         /\ About(r, u) = {} => (Shows(w \o r, v, u) <=> Shows(w, v, u))
         /\ About(r, u) # {} => (Shows(w \o r, v, u) <=> ~Says(r, u, FALSE))
         /\ About(r, u) # {} => About(w \o r, u) # {}
  <1> DEFINE c == w \o r
             m == Len(w)
             n == Len(r)
  <1>1. m \in Nat /\ n \in Nat
    OBVIOUS
  <1>2. /\ c \in Seq(Items) /\ Len(c) = m + n
        /\ \A i \in 1..(m + n) : c[i] = IF i <= m THEN w[i] ELSE r[i - m]
    BY ConcatProperties
  <1>3. /\ DOMAIN w = 1..m /\ DOMAIN r = 1..n /\ DOMAIN c = 1..(m + n)
        /\ About(w, u) = {i \in 1..m : IsAbout(w[i].event, u)}
        /\ About(r, u) = {i \in 1..n : IsAbout(r[i].event, u)}
        /\ About(c, u) = {i \in 1..(m + n) : IsAbout(c[i].event, u)}
    BY <1>2, AboutIs
  <1>4. \A i \in 1..n : ~IsGreeting(r[i].event)
    <2> TAKE i \in 1..n
    <2>1. r[i] \in Items
      BY ElementOfSeq
    <2> QED
      BY <2>1, ItemKinds
  <1> HIDE DEF c, m, n
  <1>5. /\ \A i \in 1..m : i \in 1..(m + n) /\ c[i] = w[i]
        /\ \A i \in 1..n : m + i \in 1..(m + n) /\ c[m + i] = r[i]
        /\ \A i \in 1..(m + n) : i \in 1..m \/ \E k \in 1..n : i = m + k
    <2>1. \A i \in 1..m : i \in 1..(m + n) /\ c[i] = w[i]
      BY <1>1, <1>2
    <2>2. ASSUME NEW i \in 1..n PROVE m + i \in 1..(m + n) /\ c[m + i] = r[i]
      <3>1. m + i \in 1..(m + n) /\ ~(m + i <= m) /\ (m + i) - m = i
        BY <1>1
      <3> QED
        BY <1>2, <3>1
    <2>3. ASSUME NEW i \in 1..(m + n), i \notin 1..m PROVE \E k \in 1..n : i = m + k
      <3>1. i - m \in 1..n /\ i = m + (i - m)
        BY <1>1, <2>3
      <3> QED
        BY <3>1
    <2> QED
      BY <2>1, <2>2, <2>3
  <1>6. GreetingFirst(w) => GreetingFirst(c)
    <2> SUFFICES ASSUME GreetingFirst(w), NEW i \in 1..(m + n), NEW j \in 1..(m + n),
                        IsGreeting(c[i].event), j < i
                 PROVE  c[j].event.kind = "connected"
      BY <1>3 DEF GreetingFirst
    <2>1. i \in 1..m
      BY <1>4, <1>5
    <2>2. j \in 1..m
      BY <1>1, <2>1
    <2> QED
      BY <1>3, <1>5, <2>1, <2>2 DEF GreetingFirst
  <1>7. Greets(c, u) <=> Greets(w, u)
    <2>1. Greets(w, u) => Greets(c, u)
      BY <1>3, <1>5 DEF Greets
    <2>2. Greets(c, u) => Greets(w, u)
      BY <1>3, <1>4, <1>5 DEF Greets
    <2> QED
      BY <2>1, <2>2
  <1>8. ASSUME About(r, u) = {} PROVE Shows(c, v, u) <=> Shows(w, v, u)
    <2>1. About(c, u) = About(w, u)
      BY <1>3, <1>5, <1>8
    <2>2. \A i \in About(w, u) : c[i] = w[i]
      BY <1>3, <1>5
    <2>3. Says(c, u, FALSE) <=> Says(w, u, FALSE)
      BY <2>1, <2>2 DEF Says
    <2> QED
      BY <1>7, <2>1, <2>3 DEF Shows
  <1>9. ASSUME About(r, u) # {}
        PROVE  About(c, u) # {} /\ (Says(c, u, FALSE) <=> Says(r, u, FALSE))
    <2>1. \A i \in 1..n : m + i \in About(c, u) <=> i \in About(r, u)
      BY <1>3, <1>5
    <2>2. PICK a \in 1..n : a \in About(r, u)
      BY <1>3, <1>9
    <2>3. ASSUME NEW i \in About(r, u), \A j \in About(r, u) : j <= i
          PROVE  \A j \in About(c, u) : j <= m + i
      <3> TAKE j \in About(c, u)
      <3>1. j \in 1..(m + n) /\ i \in 1..n
        BY <1>3
      <3>2. CASE j \in 1..m
        BY <1>1, <3>1, <3>2
      <3>3. CASE j \notin 1..m
        <4>1. PICK k \in 1..n : j = m + k
          BY <1>5, <3>1, <3>3
        <4>2. k <= i
          BY <2>1, <2>3, <4>1
        <4> QED
          BY <1>1, <3>1, <4>1, <4>2
      <3> QED
        BY <3>2, <3>3
    <2>4. Says(r, u, FALSE) => Says(c, u, FALSE)
      <3> SUFFICES ASSUME NEW i \in About(r, u), \A j \in About(r, u) : j <= i,
                          r[i].event.on = FALSE
                   PROVE  Says(c, u, FALSE)
        BY DEF Says
      <3>1. m + i \in About(c, u) /\ c[m + i].event.on = FALSE
        BY <1>3, <1>5, <2>1
      <3> QED
        BY <2>3, <3>1 DEF Says
    <2>5. Says(c, u, FALSE) => Says(r, u, FALSE)
      <3> SUFFICES ASSUME NEW i \in About(c, u), \A j \in About(c, u) : j <= i,
                          c[i].event.on = FALSE
                   PROVE  Says(r, u, FALSE)
        BY DEF Says
      <3>1. i \in 1..(m + n) /\ m + a <= i
        BY <1>3, <2>1, <2>2
      <3>2. PICK k \in 1..n : i = m + k
        <4>1. i \notin 1..m
          BY <1>1, <2>2, <3>1
        <4> QED
          BY <1>5, <3>1, <4>1
      <3>3. k \in About(r, u) /\ r[k].event.on = FALSE
        BY <1>5, <2>1, <3>2
      <3>4. ASSUME NEW j \in About(r, u) PROVE j <= k
        <4>1. j \in 1..n /\ m + j <= i
          BY <1>3, <2>1
        <4> QED
          BY <1>1, <3>2, <4>1
      <3> QED
        BY <3>3, <3>4 DEF Says
    <2> QED
      BY <2>1, <2>2, <2>4, <2>5
  <1>10. About(r, u) # {} => (Shows(c, v, u) <=> ~Says(r, u, FALSE))
    BY <1>9 DEF Shows
  <1> QED
    BY <1>6, <1>8, <1>9, <1>10 DEF c

\* The same of the wire and the buffer.
LEMMA ComingShown ==
  ASSUME Typed, NEW u
  PROVE  /\ wire \in Seq(Items) /\ buffer \in Seq(Items) /\ Coming \in Seq(Items)
         /\ \A i \in 1..Len(buffer) : buffer[i].event \in Events
         /\ GreetingFirst(wire) => GreetingFirst(Coming)
         /\ About(buffer, u) = {} => (Shows(Coming, view, u) <=> Shows(wire, view, u))
         /\ About(buffer, u) # {} => (Shows(Coming, view, u) <=> ~Says(buffer, u, FALSE))
         /\ Says(buffer, u, FALSE) => About(buffer, u) # {} /\ Says(Coming, u, FALSE)
  <1>1. /\ wire \in Seq(Items) /\ buffer \in Seq(Items)
        /\ \A i \in 1..Len(buffer) : buffer[i].event \in Events
    BY DEF Typed, WireOK, BufferOK
  <1>2. Coming \in Seq(Items)
    BY <1>1, ConcatProperties DEF Coming
  <1>3. Says(buffer, u, FALSE) => About(buffer, u) # {}
    BY DEF Says
  <1>4. /\ GreetingFirst(wire) => GreetingFirst(Coming)
        /\ About(buffer, u) = {} => (Shows(Coming, view, u) <=> Shows(wire, view, u))
        /\ About(buffer, u) # {} => (Shows(Coming, view, u) <=> ~Says(buffer, u, FALSE))
        /\ About(buffer, u) # {} => About(Coming, u) # {}
    BY <1>1, ConcatShown DEF Coming
  <1> QED
    BY <1>1, <1>2, <1>3, <1>4 DEF Shows

LEMMA PresenceKept ==
  ASSUME PresenceInv,
         UNCHANGED <<wire, buffer, handler, attached, view, online, blame, platform>>
  PROVE  PresenceInv'
  BY DEF PresenceInv, PeerInv, HandlerInv, BufferTrue, Excused, Greeted, Coming

\* A broadcast changes what will be shown of the peer it is about, if the
\* client is reached, and of nobody else.
LEMMA BroadcastShown ==
  ASSUME Typed, NEW e \in Events, Broadcast(e), NEW u
  PROVE  /\ ~(Reached /\ IsAbout(e, u))
               => /\ Shows(Coming', view, u) <=> Shows(Coming, view, u)
                  /\ About(buffer', u) = {} <=> About(buffer, u) = {}
                  /\ Says(buffer', u, FALSE) <=> Says(buffer, u, FALSE)
         /\ Reached /\ IsAbout(e, u)
               => /\ Shows(Coming', view, u) <=> e.on = TRUE
                  /\ Says(buffer', u, FALSE) <=> e.on # TRUE
  <1>1. /\ wire \in Seq(Items) /\ buffer \in Seq(Items) /\ Coming \in Seq(Items)
        /\ UNCHANGED wire
    BY ComingShown DEF Broadcast
  <1>2. CASE Reached
    <2> DEFINE x == [id |-> Len(log) + 1, event |-> e]
    <2>1. x \in Items /\ x.event = e
      BY DEF Typed, LogOK, Items
    <2>2. buffer' = Append(buffer, x)
      BY <1>2 DEF Broadcast
    <2> HIDE DEF x
    <2>3. Coming' = Append(Coming, x)
      <3>1. Append(buffer, x) = buffer \o <<x>> /\ Append(Coming, x) = Coming \o <<x>>
        BY <1>1, <2>1, AppendIsConcat
      <3>2. <<x>> \in Seq(Items)
        BY <2>1
      <3>3. (wire \o buffer) \o <<x>> = wire \o (buffer \o <<x>>)
        BY <1>1, <3>2, ConcatAssociative
      <3> QED
        BY <1>1, <2>2, <3>1, <3>3 DEF Coming
    <2>4. /\ ~IsAbout(e, u) => (Shows(Coming', view, u) <=> Shows(Coming, view, u))
          /\ IsAbout(e, u) => (Shows(Coming', view, u) <=> e.on = TRUE)
      BY <1>1, <2>1, <2>3, WireAppended
    <2>5. /\ ~IsAbout(e, u) => /\ About(buffer', u) = {} <=> About(buffer, u) = {}
                               /\ Says(buffer', u, FALSE) <=> Says(buffer, u, FALSE)
          /\ IsAbout(e, u) => (Says(buffer', u, FALSE) <=> e.on # TRUE)
      BY <1>1, <2>1, <2>2, SaysAppended
    <2> QED
      BY <1>2, <2>4, <2>5
  <1>3. CASE ~Reached
    BY <1>1, <1>3 DEF Broadcast, Coming
  <1> QED
    BY <1>2, <1>3

LEMMA PeersKeepPresence ==
  ASSUME Typed, PresenceInv, NEW p \in Peers, PeerComes(p) \/ PeerGoes(p)
  PROVE  PresenceInv'
  <1> DEFINE b == p \notin online
             e == Presence(p, b)
  <1>1. /\ Broadcast(e) /\ e \in Events
        /\ UNCHANGED <<handler, attached, wire, view, platform>>
        /\ online' = (IF b THEN online \cup {p} ELSE online \ {p})
        /\ blame' = [blame EXCEPT ![p] =
                       IF Reached THEN "none"
                       ELSE IF ~b THEN "unseen"
                       ELSE IF attached THEN "dropped"
                       ELSE IF Greeted THEN "gap" ELSE "none"]
    BY EventsTyped DEF PeerComes, PeerGoes, Broadcast, Reached, setting
  <1>2. \A u : IsAbout(e, u) <=> u = p
    BY DEF IsAbout, Presence
  <1>3. e.on = TRUE <=> b
    BY DEF Presence
  <1>4. b <=> p \in online'
    BY <1>1
  <1> HIDE DEF b, e
  <1>5. GreetingFirst(wire') /\ HandlerInv'
    BY <1>1 DEF PresenceInv, HandlerInv, Broadcast, Reached
  <1>6. ASSUME NEW u \in Peers PROVE PeerInv(u)'
    <2>1. PeerInv(u) /\ blame \in [Peers -> Causes] /\ (Greeted' <=> Greeted)
      BY <1>1 DEF PresenceInv, Typed, TypeOK, Causes, Greeted
    <2>2. CASE u # p
      <3>1. /\ Shows(Coming', view', u) <=> Shows(Coming, view, u)
            /\ About(buffer', u) = {} <=> About(buffer, u) = {}
            /\ Says(buffer', u, FALSE) <=> Says(buffer, u, FALSE)
        BY <1>1, <1>2, <2>2, BroadcastShown
      <3>2. (u \in online' <=> u \in online) /\ blame'[u] = blame[u]
        BY <1>1, <2>1, <2>2
      <3> QED
        BY <1>1, <2>1, <3>1, <3>2 DEF PeerInv, BufferTrue, Excused
    <2>3. CASE u = p /\ Reached
      <3>1. /\ Shows(Coming', view', u) <=> b
            /\ Says(buffer', u, FALSE) <=> ~b
        BY <1>1, <1>2, <1>3, <2>3, BroadcastShown
      <3> QED
        BY <1>4, <2>3, <3>1 DEF PeerInv, BufferTrue
    <2>4. CASE u = p /\ ~Reached
      <3>1. blame'[u] = (IF ~b THEN "unseen" ELSE IF attached THEN "dropped"
                         ELSE IF Greeted THEN "gap" ELSE "none")
        BY <1>1, <2>1, <2>4
      <3>2. CASE attached \/ ~b \/ Greeted
        <4>1. Excused(u)'
          BY <1>4, <2>4, <3>1, <3>2 DEF Excused
        <4> QED
          BY <4>1 DEF PeerInv, BufferTrue
      <3>3. CASE ~attached /\ b /\ ~Greeted
        <4>1. buffer' = <<>>
          BY <1>1, <3>3 DEF PresenceInv, HandlerInv, Broadcast, Reached
        <4>2. BufferTrue(u)'
          BY <4>1 DEF BufferTrue, About
        <4> QED
          BY <1>4, <2>1, <2>4, <3>3, <4>2 DEF PeerInv
      <3> QED
        BY <3>2, <3>3
    <2> QED
      BY <2>2, <2>3, <2>4
  <1> QED
    BY <1>5, <1>6 DEF PresenceInv

\* The handler's end takes the buffer with it: a departure there goes unseen.
LEMMA HandlerGoneShown ==
  ASSUME Typed, PresenceInv, HandlerGone, UNCHANGED <<wire, view, platform>>,
         online' \subseteq online,
         \A u \in Peers :
            /\ u \in online => u \in online' \/ blame'[u] = "unseen"
            /\ u \notin online
                  => blame'[u] = IF Says(buffer, u, FALSE) THEN "unseen" ELSE blame[u]
            /\ u \in online' /\ ~Says(buffer, u, FALSE) => blame'[u] = blame[u]
  PROVE  PresenceInv'
  <1>1. handler' = "none" /\ attached' = FALSE /\ buffer' = <<>>
    BY DEF HandlerGone
  <1>2. Coming' = wire
    <2>1. wire \in Seq(Items)
      BY ComingShown
    <2> QED
      BY <1>1, <2>1, ConcatEmptySeq DEF Coming
  <1>3. GreetingFirst(wire') /\ HandlerInv'
    BY <1>1 DEF PresenceInv, HandlerInv
  <1>4. ASSUME NEW u \in Peers PROVE PeerInv(u)'
    <2>1. BufferTrue(u)' /\ ~Greeted'
      BY <1>1 DEF BufferTrue, About, Greeted
    <2>2. CASE u \in online
      BY <1>2, <2>1, <2>2 DEF PeerInv, Excused
    <2>3. CASE u \notin online
      <3>1. PeerInv(u) /\ u \notin online'
        BY <2>3 DEF PresenceInv
      <3>2. CASE Says(buffer, u, FALSE)
        BY <2>1, <2>3, <3>1, <3>2 DEF PeerInv, Excused
      <3>3. CASE ~Says(buffer, u, FALSE)
        <4>1. blame'[u] = blame[u]
          BY <2>3, <3>3
        <4>2. CASE Excused(u)
          BY <2>1, <2>3, <3>1, <4>1, <4>2 DEF PeerInv, Excused
        <4>3. CASE About(buffer, u) = {}
          <5>1. Shows(Coming', view', u) <=> Shows(Coming, view, u)
            BY <1>2, <4>3, ComingShown
          <5> QED
            BY <2>1, <2>3, <3>1, <4>1, <5>1 DEF PeerInv, Excused
        <4> QED
          BY <2>3, <3>1, <3>3, <4>2, <4>3 DEF PeerInv, BufferTrue
      <3> QED
        BY <3>2, <3>3
    <2> QED
      BY <2>2, <2>3
  <1> QED
    BY <1>3, <1>4 DEF PresenceInv

LEMMA ServerKeepsPresence ==
  ASSUME Typed, PresenceInv, ServerNext
  PROVE  PresenceInv'
  <1>1. ASSUME NEW e \in {Banned, Unbanned}, Broadcast(e),
               UNCHANGED <<view, online, blame, platform>>
        PROVE  PresenceInv'
    <2>1. e \in Events /\ \A u : ~IsAbout(e, u)
      BY BanEventsTyped DEF IsAbout, Banned, Unbanned
    <2>2. UNCHANGED <<wire, handler, attached>> /\ (~attached => UNCHANGED buffer)
      BY <1>1 DEF Broadcast, Reached
    <2>3. \A u : /\ Shows(Coming', view, u) <=> Shows(Coming, view, u)
                 /\ About(buffer', u) = {} <=> About(buffer, u) = {}
                 /\ Says(buffer', u, FALSE) <=> Says(buffer, u, FALSE)
      BY <1>1, <2>1, BroadcastShown
    <2>4. GreetingFirst(wire') /\ HandlerInv'
      BY <2>2 DEF PresenceInv, HandlerInv
    <2>5. ASSUME NEW u \in Peers PROVE PeerInv(u)'
      BY <1>1, <2>2, <2>3 DEF PresenceInv, PeerInv, BufferTrue, Excused, Greeted
    <2> QED
      BY <2>4, <2>5 DEF PresenceInv
  <1>2. CASE BanUser \/ UnbanUser
    BY <1>1, <1>2 DEF BanUser, UnbanUser, setting
  <1>3. CASE SessionEnds \/ StoreEvent
    BY <1>3, PresenceKept DEF SessionEnds, StoreEvent, stream, serving, setting
  <1>4. CASE ServerRestarts
    <2>1. /\ UNCHANGED <<wire, view, platform>> /\ HandlerGone /\ online' = {}
          /\ \A u \in Peers :
                blame'[u] = IF u \in online THEN "unseen"
                            ELSE IF Says(buffer, u, FALSE) THEN "unseen" ELSE blame[u]
      BY <1>4 DEF ServerRestarts, Unseen, setting
    <2> QED
      BY <2>1, HandlerGoneShown
  <1> QED
    BY <1>2, <1>3, <1>4, PeersKeepPresence DEF ServerNext

\* A stream that is closed takes its unread events with it: a departure among
\* them goes unseen.
LEMMA DisconnectKeepsPresence ==
  ASSUME Typed, PresenceInv, Disconnect, UNCHANGED <<online, platform>>,
         \A u \in Peers : view'[u] = "online" => view[u] = "online"
  PROVE  PresenceInv'
  <1>1. /\ wire' = <<>> /\ handler' = "none" /\ attached' = FALSE /\ buffer' = <<>>
        /\ blame' = [u \in Peers |-> IF Says(Coming, u, FALSE) THEN "unseen" ELSE blame[u]]
    BY DEF Disconnect, HandlerGone, Unseen
  <1>2. Coming' = <<>>
    BY <1>1 DEF Coming
  <1>3. ASSUME NEW u \in Peers PROVE PeerInv(u)'
    <2>1. /\ PeerInv(u)
          /\ blame'[u] = IF Says(Coming, u, FALSE) THEN "unseen" ELSE blame[u]
      BY <1>1 DEF PresenceInv
    <2>2. Shows(Coming', view', u) => view[u] = "online"
      BY <1>2 DEF Shows, About, Greets
    <2>3. view[u] = "online" /\ ~Says(Coming, u, FALSE) => Shows(Coming, view, u)
      BY DEF Shows
    <2>4. BufferTrue(u)' /\ ~Greeted'
      BY <1>1 DEF BufferTrue, About, Greeted
    <2> QED
      BY <2>1, <2>2, <2>3, <2>4 DEF PeerInv, Excused
  <1>4. GreetingFirst(wire') /\ HandlerInv'
    BY <1>1 DEF GreetingFirst, HandlerInv
  <1> QED
    BY <1>3, <1>4 DEF PresenceInv

\* A new stream, whose request nobody is told of yet.
LEMMA AcceptKeepsPresence ==
  ASSUME Typed, PresenceInv, Accept
  PROVE  PresenceInv'
  <1> DEFINE x == Local([kind |-> "connected"])
  <1>1. /\ wire = <<>> /\ buffer = <<>> /\ wire' = <<x>> /\ handler' = "accepted"
        /\ UNCHANGED <<attached, buffer, view, online, blame, platform>>
    BY DEF Accept, server, setting, PresenceInv, HandlerInv
  <1>2. x.event.kind = "connected"
    BY DEF Local
  <1> HIDE DEF x
  <1>3. /\ Coming = <<>> /\ Coming' = <<x>> /\ ~Greeted'
    BY <1>1 DEF Coming, Greeted
  <1>4. GreetingFirst(wire') /\ HandlerInv'
    BY <1>1, <1>2 DEF GreetingFirst, IsGreeting, HandlerInv, PresenceInv
  <1>5. ASSUME NEW u \in Peers PROVE PeerInv(u)'
    <2>1. DOMAIN Coming' = {1} /\ Coming'[1] = x
      BY <1>3
    <2>2. About(Coming', u) = {} /\ ~Greets(Coming', u)
      BY <1>2, <2>1 DEF About, Greets, IsGreeting
    <2>3. Shows(Coming', view', u) => Shows(Coming, view, u)
      BY <1>1, <1>3, <2>2 DEF Shows, About
    <2> QED
      BY <1>1, <1>3, <2>3 DEF PresenceInv, PeerInv, BufferTrue, Excused
  <1> QED
    BY <1>4, <1>5 DEF PresenceInv

\* The presence is written, and what the hub has buffered comes after it.
LEMMA GreetKeepsPresence ==
  ASSUME Typed, PresenceInv, Greet
  PROVE  PresenceInv'
  <1> DEFINE x == Local([kind |-> "presence.initial", users |-> online])
             n == Len(wire)
  <1>1. /\ wire' = Append(wire, x) /\ handler' = "greeted"
        /\ UNCHANGED <<attached, buffer, view, online, platform>>
        /\ blame' = [u \in Peers |->
                       IF u \in online /\ ~Says(buffer, u, FALSE) THEN "none"
                       ELSE blame[u]]
    BY DEF Greet, server, setting
  <1>2. /\ x \in Items /\ IsGreeting(x.event) /\ x.event.users = online
    BY DEF Typed, TypeOK, LogOK, Local, Items, Greetings, IsGreeting
  <1>3. /\ wire \in Seq(Items) /\ wire' \in Seq(Items)
        /\ n \in Nat /\ DOMAIN wire = 1..n /\ DOMAIN wire' = 1..(n + 1)
        /\ \A i \in 1..n : wire'[i] = wire[i] /\ wire[i].event.kind = "connected"
        /\ wire'[n + 1] = x
    <2>1. wire \in Seq(Items)
      BY ComingShown
    <2>2. \A i \in DOMAIN wire : wire[i].event.kind = "connected"
      BY DEF PresenceInv, HandlerInv, Greet
    <2> HIDE DEF x
    <2>3. /\ wire' \in Seq(Items) /\ Len(wire') = n + 1
          /\ \A i \in 1..n : wire'[i] = wire[i]
          /\ wire'[n + 1] = x
      BY <1>1, <1>2, <2>1, AppendProperties
    <2> QED
      BY <2>1, <2>2, <2>3, LenProperties
  <1> HIDE DEF x, n
  <1>4. GreetingFirst(wire')
    <2> SUFFICES ASSUME NEW i \in 1..(n + 1), NEW j \in 1..(n + 1), j < i
                 PROVE  wire'[j].event.kind = "connected"
      BY <1>3 DEF GreetingFirst
    <2>1. j \in 1..n
      BY <1>3
    <2> QED
      BY <1>3, <2>1
  <1>5. HandlerInv'
    BY <1>1 DEF HandlerInv, PresenceInv
  <1>6. ASSUME NEW u \in Peers PROVE PeerInv(u)'
    <2>1. \A i \in 1..(n + 1) : i \in 1..n \/ i = n + 1
      BY <1>3
    <2>2. About(wire, u) = {} /\ About(wire', u) = {}
      BY <1>2, <1>3, <2>1 DEF About, IsGreeting
    <2>3. ~Greets(wire, u) /\ (Greets(wire', u) <=> u \in online)
      <3>1. n + 1 \in 1..(n + 1)
        BY <1>3
      <3> QED
        BY <1>2, <1>3, <2>1, <3>1 DEF Greets, IsGreeting
    <2>4. /\ Shows(wire', view, u) <=> u \in online \/ view[u] = "online"
          /\ Shows(wire, view, u) <=> view[u] = "online"
      BY <2>2, <2>3 DEF Shows
    <2>5. /\ About(buffer, u) = {} => /\ Shows(Coming, view, u) <=> Shows(wire, view, u)
                                      /\ Shows(Coming', view, u) <=> Shows(wire', view, u)
          /\ About(buffer, u) # {} => /\ Shows(Coming, view, u) <=> ~Says(buffer, u, FALSE)
                                      /\ Shows(Coming', view, u) <=> ~Says(buffer, u, FALSE)
      <3>1. buffer \in Seq(Items) /\ \A i \in 1..Len(buffer) : buffer[i].event \in Events
        BY ComingShown
      <3>2. Coming' = wire' \o buffer
        BY <1>1 DEF Coming
      <3> QED
        BY <1>3, <3>1, <3>2, ComingShown, ConcatShown
    <2>6. PeerInv(u)
      BY DEF PresenceInv
    <2>7. CASE u \in online /\ ~Says(buffer, u, FALSE)
      <3>1. Shows(Coming', view, u)
        BY <2>4, <2>5, <2>7
      <3> QED
        BY <1>1, <2>7, <3>1 DEF PeerInv, BufferTrue
    <2>8. CASE u \in online /\ Says(buffer, u, FALSE)
      <3>1. blame'[u] = blame[u] /\ About(buffer, u) # {}
        BY <1>1, <2>8 DEF Says
      <3>2. Excused(u)'
        BY <1>1, <2>6, <2>8, <3>1 DEF PeerInv, BufferTrue, Excused
      <3> QED
        BY <3>2 DEF PeerInv, BufferTrue
    <2>9. CASE u \notin online
      <3>1. Shows(Coming', view, u) => Shows(Coming, view, u)
        BY <2>4, <2>5, <2>9
      <3>2. blame'[u] = blame[u]
        BY <1>1, <2>9
      <3> QED
        BY <1>1, <2>6, <2>9, <3>1, <3>2 DEF PeerInv, BufferTrue, Excused
    <2> QED
      BY <2>7, <2>8, <2>9
  <1> QED
    BY <1>4, <1>5, <1>6 DEF PresenceInv

\* The replay comes between the presence and the buffer.
LEMMA ReplayKeepsPresence ==
  ASSUME Typed, PresenceInv, ReplayMissed
  PROVE  PresenceInv'
  <1>1. PICK sent \in {Replay, <<>>} :
           /\ wire' = wire \o sent
           /\ blame' = [u \in Peers |->
                       IF Says(sent \o buffer, u, u \in online) THEN "none"
                       ELSE IF About(sent, u) # {} THEN "replay" ELSE blame[u]]
    BY DEF ReplayMissed
  <1>2. /\ handler' = "streaming"
        /\ UNCHANGED <<attached, buffer, view, online, platform>>
    BY DEF ReplayMissed, server, setting
  <1>3. /\ sent \in Seq(Items)
        /\ \A i \in 1..Len(sent) : sent[i].event \in Events
        /\ platform = "web" => Len(sent) = 0
    <2>1. CASE sent = Replay
      BY <2>1, ReplayTyped
    <2>2. CASE sent = <<>>
      BY <2>2
    <2> QED
      BY <2>1, <2>2
  <1>4. /\ wire \in Seq(Items) /\ buffer \in Seq(Items)
        /\ \A i \in 1..Len(buffer) : buffer[i].event \in Events
    BY ComingShown
  <1>5. /\ sent \o buffer \in Seq(Items)
        /\ \A i \in 1..Len(sent \o buffer) : (sent \o buffer)[i].event \in Events
    <2>1. BufferOK(sent, log) /\ BufferOK(buffer, log)
      BY <1>3, ReplayTyped, EmptyWire DEF Typed, BufferOK, WireOK
    <2> QED
      BY <2>1, ConcatTyped DEF BufferOK, WireOK
  <1>6. wire' \in Seq(Items) /\ Coming' = wire' \o buffer
        /\ Coming' = wire \o (sent \o buffer)
    BY <1>1, <1>2, <1>3, <1>4, ConcatProperties, ConcatAssociative DEF Coming
  <1>7. GreetingFirst(wire') /\ HandlerInv'
    <2>1. GreetingFirst(wire \o sent)
      BY <1>3, <1>4, ConcatShown DEF PresenceInv
    <2> QED
      BY <1>1, <1>2, <2>1 DEF HandlerInv, PresenceInv
  <1>8. ASSUME NEW u \in Peers PROVE PeerInv(u)'
    <2>1. PeerInv(u) /\ Greeted
      BY DEF PresenceInv, ReplayMissed, Greeted
    <2>3. CASE Says(sent \o buffer, u, u \in online)
      <3>1. About(sent \o buffer, u) # {}
        BY <2>3 DEF Says
      <3>2. Shows(wire \o (sent \o buffer), view, u) <=> ~Says(sent \o buffer, u, FALSE)
        BY <1>4, <1>5, <3>1, ConcatShown
      <3>3. Shows(Coming', view, u) <=> u \in online
        <4>1. CASE u \in online
          <5>1. Says(sent \o buffer, u, TRUE)
            <6>1. (u \in online) = TRUE
              BY <4>1
            <6> QED
              BY <2>3, <6>1, Zenon
          <5>2. ~Says(sent \o buffer, u, FALSE)
            BY <1>5, <5>1, SaysOne
          <5> QED
            BY <1>6, <3>2, <4>1, <5>2
        <4>2. CASE u \notin online
          <5>1. Says(sent \o buffer, u, FALSE)
            <6>1. (u \in online) = FALSE
              BY <4>2
            <6> QED
              BY <2>3, <6>1, Zenon
          <5> QED
            BY <1>6, <3>2, <4>2, <5>1
        <4> QED
          BY <4>1, <4>2
      <3>4. /\ Shows(sent \o buffer, view, u) <=> ~Says(sent \o buffer, u, FALSE)
            /\ About(buffer, u) # {} =>
                  (Shows(sent \o buffer, view, u) <=> ~Says(buffer, u, FALSE))
        <4>1. Shows(sent \o buffer, view, u) <=> ~Says(sent \o buffer, u, FALSE)
          BY <3>1 DEF Shows
        <4> QED
          BY <1>3, <1>4, <4>1, ConcatShown
      <3>5. BufferTrue(u)'
        BY <1>2, <1>6, <3>2, <3>3, <3>4 DEF BufferTrue
      <3> QED
        BY <1>2, <3>3, <3>5 DEF PeerInv
    <2>4. CASE ~Says(sent \o buffer, u, u \in online) /\ About(sent, u) # {}
      <3>1. blame'[u] = "replay"
        BY <1>1, <2>4
      <3>2. platform' = "mobile"
        <4>1. Len(sent) # 0
          <5>1. About(sent, u) \subseteq 1..Len(sent)
            BY <1>3, AboutIs
          <5> QED
            BY <2>4, <5>1
        <4> QED
          BY <1>2, <1>3, <4>1 DEF Typed, TypeOK
      <3> QED
        BY <3>1, <3>2 DEF PeerInv, BufferTrue, Excused
    <2>5. CASE ~Says(sent \o buffer, u, u \in online) /\ About(sent, u) = {}
      <3>1. blame'[u] = blame[u]
        BY <1>1, <2>5
      <3>2. Shows(wire', view, u) <=> Shows(wire, view, u)
        BY <1>1, <1>3, <1>4, <2>5, ConcatShown
      <3>3. /\ About(buffer, u) = {}
                  => (Shows(wire' \o buffer, view, u) <=> Shows(wire', view, u))
            /\ About(buffer, u) # {}
                  => (Shows(wire' \o buffer, view, u) <=> ~Says(buffer, u, FALSE))
        BY <1>4, <1>6, ConcatShown
      <3>4. Shows(Coming', view, u) <=> Shows(Coming, view, u)
        BY <1>6, <3>2, <3>3, ComingShown
      <3> QED
        BY <1>2, <2>1, <3>1, <3>4 DEF PeerInv, BufferTrue, Excused
    <2> QED
      BY <2>3, <2>4, <2>5
  <1> QED
    BY <1>7, <1>8 DEF PresenceInv

\* An event moves from the buffer to the wire.
LEMMA WriteKeepsPresence ==
  ASSUME Typed, PresenceInv, WriteNext
  PROVE  PresenceInv'
  <1>1. /\ wire' = Append(wire, Head(buffer)) /\ buffer' = Tail(buffer)
        /\ handler = "streaming" /\ buffer # <<>>
        /\ UNCHANGED <<handler, attached, view, online, blame, platform>>
    BY DEF WriteNext, server, setting
  <1>2. /\ wire \in Seq(Items) /\ buffer \in Seq(Items)
        /\ \A i \in 1..Len(buffer) : buffer[i].event \in Events
    BY ComingShown
  <1>3. /\ Head(buffer) \in Items /\ Head(buffer).event \in Events
        /\ Head(buffer) = buffer[1] /\ Tail(buffer) \in Seq(Items)
    BY <1>1, WireConsumed DEF Typed, BufferOK, WireOK
  <1>4. Coming' = Coming
    <2>1. <<Head(buffer)>> \in Seq(Items) /\ buffer = <<Head(buffer)>> \o Tail(buffer)
      BY <1>1, <1>2, <1>3
    <2>2. wire' = wire \o <<Head(buffer)>>
      BY <1>1, <1>2, <1>3, AppendIsConcat
    <2>3. (wire \o <<Head(buffer)>>) \o Tail(buffer)
             = wire \o (<<Head(buffer)>> \o Tail(buffer))
      BY <1>2, <1>3, <2>1, ConcatAssociative
    <2> QED
      BY <1>1, <2>1, <2>2, <2>3 DEF Coming
  <1>5. GreetingFirst(wire') /\ HandlerInv'
    <2>1. GreetingFirst(wire')
      BY <1>1, <1>2, <1>3, WireAppended DEF PresenceInv
    <2> QED
      BY <1>1, <2>1 DEF PresenceInv, HandlerInv
  <1>6. ASSUME NEW u \in Peers PROVE PeerInv(u)'
    <2>1. PeerInv(u)
      BY DEF PresenceInv
    <2>2. BufferTrue(u)'
      <3>1. About(Tail(buffer), u) # {} =>
              /\ About(buffer, u) # {}
              /\ Says(Tail(buffer), u, FALSE) <=> Says(buffer, u, FALSE)
        BY <1>1, <1>2, BufferRead
      <3> QED
        BY <1>1, <2>1, <3>1 DEF PeerInv, BufferTrue, Excused
    <2> QED
      BY <1>1, <1>4, <2>1, <2>2 DEF PeerInv, Excused, Greeted
  <1> QED
    BY <1>5, <1>6 DEF PresenceInv

LEMMA HandlerKeepsPresence ==
  ASSUME Typed, PresenceInv, HandlerNext
  PROVE  PresenceInv'
  <1>1. CASE HubAdds
    <2>1. /\ handler # "none" /\ attached' = TRUE
          /\ UNCHANGED <<wire, buffer, handler, view, online, blame, platform>>
      BY <1>1 DEF HubAdds, server, setting
    <2> QED
      BY <2>1 DEF PresenceInv, PeerInv, HandlerInv, BufferTrue, Excused, Greeted, Coming
  <1>2. CASE HandlerReturns
    <2>1. /\ HandlerGone /\ UNCHANGED <<wire, view, platform, online>>
          /\ \A u \in Peers :
                blame'[u] = IF Says(buffer, u, FALSE) THEN "unseen" ELSE blame[u]
      BY <1>2 DEF HandlerReturns, Unseen, server, setting
    <2> QED
      BY <2>1, HandlerGoneShown
  <1> QED
    BY <1>1, <1>2, AcceptKeepsPresence, GreetKeepsPresence, ReplayKeepsPresence,
       WriteKeepsPresence DEF HandlerNext

LEMMA ReceiveKeepsPresence ==
  ASSUME Typed, PresenceInv, Receive
  PROVE  PresenceInv'
  <1> DEFINE h == wire[1].event
  <1>1. /\ wire \in Seq(Items) /\ wire # <<>> /\ wire' = Tail(wire)
        /\ UNCHANGED <<online, handler, attached, buffer, blame, platform>>
        /\ Handle(h) /\ view \in [Peers -> {"unknown", "online", "offline"}]
    <2>1. /\ wire # <<>> /\ Handle(Head(wire).event)
          /\ wire' = Tail(wire)
          /\ UNCHANGED <<online, handler, attached, buffer, blame, platform>>
      BY DEF Receive, server, serving, setting
    <2>2. Head(wire) = wire[1]
      BY <2>1, WireConsumed DEF Typed
    <2>3. wire \in Seq(Items) /\ view \in [Peers -> {"unknown", "online", "offline"}]
      BY DEF Typed, TypeOK, WireOK
    <2> QED
      BY <2>1, <2>2, <2>3
  <1> HIDE DEF h
  <1>2. ASSUME NEW u \in Peers
        PROVE  /\ IsAbout(h, u) => view'[u] = (IF h.on THEN "online" ELSE "offline")
               /\ ~IsAbout(h, u) => view'[u] = (IF IsGreeting(h) /\ u \in h.users
                                                 THEN "online" ELSE view[u])
    <2>1. CASE h.kind = "connected" \/ h.kind \in {"member.banned", "member.unbanned"}
      BY <1>1, <2>1 DEF Handle, IsAbout, IsGreeting
    <2>2. CASE h.kind = "presence.initial"
      <3>1. SetMultiple(h.users)
        BY <1>1, <2>2 DEF Handle
      <3> QED
        BY <2>2, <3>1 DEF SetMultiple, IsAbout, IsGreeting
    <2>3. CASE h.kind = "presence.changed"
      <3>1. SetUserPresence(h.user, h.on)
        BY <1>1, <2>3 DEF Handle
      <3> QED
        BY <1>1, <2>3, <3>1 DEF SetUserPresence, IsAbout, IsGreeting
    <2> QED
      BY <1>1, <2>1, <2>2, <2>3 DEF Handle
  <1>3. /\ Coming \in Seq(Items) /\ Coming # <<>> /\ Coming' = Tail(Coming)
        /\ Coming[1].event = h
    <2>1. wire \in Seq(Items) /\ buffer \in Seq(Items) /\ Coming \in Seq(Items)
      BY ComingShown
    <2>2. Coming[1] = wire[1] /\ Coming # <<>>
      <3>1. Len(wire) \in Nat \ {0} /\ Len(buffer) \in Nat
        BY <1>1, <2>1, EmptySeq
      <3>2. /\ Len(Coming) = Len(wire) + Len(buffer)
            /\ 1 \in 1..(Len(wire) + Len(buffer)) /\ 1 <= Len(wire)
        BY <2>1, <3>1, ConcatProperties DEF Coming
      <3> QED
        BY <2>1, <3>1, <3>2, ConcatProperties DEF Coming
    <2>3. Tail(wire) \o buffer = Tail(wire \o buffer)
      BY <1>1, <2>1
    <2> QED
      BY <1>1, <2>1, <2>2, <2>3 DEF Coming, h
  <1>4. ASSUME NEW u \in Peers
        PROVE  Shows(Coming', view', u) <=> Shows(Coming, view, u)
    <2>1. GreetingFirst(Coming)
      BY ComingShown DEF PresenceInv
    <2> QED
      BY <1>2, <1>3, <2>1, WireRead
  <1>5. ASSUME NEW u \in Peers PROVE PeerInv(u)'
    BY <1>1, <1>4 DEF PresenceInv, PeerInv, BufferTrue, Excused, Greeted
  <1>6. GreetingFirst(wire') /\ HandlerInv'
    <2>1. GreetingFirst(Tail(wire))
      BY <1>1, GreetingRead DEF PresenceInv
    <2>2. ASSUME handler = "accepted"
          PROVE  \A i \in DOMAIN Tail(wire) : Tail(wire)[i].event.kind = "connected"
      <3>1. /\ Tail(wire) \in Seq(Items) /\ Len(Tail(wire)) = Len(wire) - 1
            /\ Len(wire) \in Nat
            /\ \A i \in 1..Len(Tail(wire)) : Tail(wire)[i] = wire[i + 1]
        BY <1>1, HeadTailProperties
      <3>2. \A i \in 1..Len(wire) : wire[i].event.kind = "connected"
        BY <1>1, <2>2 DEF PresenceInv, HandlerInv
      <3>3. DOMAIN Tail(wire) = 1..(Len(wire) - 1)
        BY <3>1
      <3>4. \A i \in 1..(Len(wire) - 1) : i + 1 \in 1..Len(wire)
        BY <3>1
      <3> QED
        BY <3>1, <3>2, <3>3, <3>4
    <2> QED
      BY <1>1, <2>1, <2>2 DEF PresenceInv, HandlerInv
  <1> QED
    BY <1>5, <1>6 DEF PresenceInv

LEMMA ClientKeepsPresence ==
  ASSUME Typed, PresenceInv, ClientNext
  PROVE  PresenceInv'
  <1>1. CASE Receive
    BY <1>1, ReceiveKeepsPresence
  <1>2. CASE Opened \/ ReconnectTimerFires \/ ReceiveHeartbeat \/ MeServed \/ MeAnswered
    <2>1. UNCHANGED <<wire, buffer, handler, attached, view, online, blame, platform>>
      BY <1>2 DEF Opened, ReconnectTimerFires, ReceiveHeartbeat, MeServed,
                  MeAnswered, server, stream, serving, setting
    <2> QED
      BY <2>1, PresenceKept
  <1>3. CASE Forbidden \/ OnError
    <2>1. Disconnect /\ UNCHANGED <<online, platform, view>>
      BY <1>3 DEF Forbidden, OnError, server, setting
    <2> QED
      BY <2>1, DisconnectKeepsPresence
  <1> QED
    BY <1>1, <1>2, <1>3
    DEF ClientNext, Unauthorized, StreamBreaks, StreamEnds

LEMMA UserKeepsPresence ==
  ASSUME Typed, PresenceInv, UserNext
  PROVE  PresenceInv'
  <1>1. RunEffect \/ CleanUp \/ Untouched
    BY DEF UserNext, EnterWorkspace, LeaveWorkspace, AppStateChanges
  <1>2. CASE RunEffect \/ Untouched
    <2>1. UNCHANGED <<wire, buffer, handler, attached, view, online, blame, platform>>
      BY <1>2 DEF RunEffect, Untouched, server, stream, serving
    <2> QED
      BY <2>1, PresenceKept
  <1>3. CASE CleanUp
    <2>1. /\ Disconnect /\ UNCHANGED <<online, platform>>
          /\ view' = IF platform = "mobile" THEN [u \in Peers |-> "unknown"] ELSE view
      BY <1>3 DEF CleanUp, server
    <2>2. \A u \in Peers : view'[u] = "online" => view[u] = "online"
      BY <2>1
    <2> QED
      BY <2>1, <2>2, DisconnectKeepsPresence
  <1> QED
    BY <1>1, <1>2, <1>3

\* Once a client whose stream is up has read all that is sent or buffered for it,
\* it shows each peer as the server has them, except one whose departure nobody
\* told it of, one who came between the presence and the hub's adding the stream
\* or when its buffer was full and, on mobile, one about whom an old event was replayed after the presence
\* (handler.go registers first and sends the replay last, hub.go adds a stream
\* later, presenceStore.ts drops nobody).
THEOREM StreamPresenceErrsForACause == Spec => []PresenceErrsForACause
  <1>1. Init => PresenceInv
    <2> SUFFICES ASSUME Init PROVE PresenceInv
      OBVIOUS
    <2>1. /\ wire = <<>> /\ buffer = <<>> /\ handler = "none" /\ ~attached
          /\ \A u \in Peers : view[u] # "online"
      BY DEF Init
    <2>2. Coming = <<>>
      BY <2>1 DEF Coming
    <2>3. \A u \in Peers : ~Shows(Coming, view, u) /\ BufferTrue(u)
      BY <2>1, <2>2 DEF Shows, About, Greets, BufferTrue
    <2>4. GreetingFirst(wire) /\ HandlerInv /\ ~Greeted
      BY <2>1 DEF GreetingFirst, HandlerInv, Greeted
    <2> QED
      BY <2>3, <2>4 DEF PresenceInv, PeerInv
  <1>2. Typed /\ PresenceInv /\ [Next]_vars => PresenceInv'
    <2> SUFFICES ASSUME Typed, PresenceInv, [Next]_vars PROVE PresenceInv'
      OBVIOUS
    <2>1. CASE Next
      BY <2>1, ServerKeepsPresence, HandlerKeepsPresence, ClientKeepsPresence,
         UserKeepsPresence DEF Next
    <2>2. CASE UNCHANGED vars
      BY <2>2, PresenceKept DEF vars, server, stream, serving, setting
    <2> QED
      BY <2>1, <2>2
  <1>3. PresenceInv => PresenceErrsForACause
    <2> SUFFICES ASSUME PresenceInv, handler = "streaming", Coming = <<>>,
                        NEW u \in Peers
                 PROVE  \/ (view[u] = "online") = (u \in online)
                        \/ blame[u] = "unseen" /\ u \notin online
                        \/ blame[u] \in {"gap", "dropped"} /\ u \in online
                        \/ blame[u] = "replay" /\ platform = "mobile"
      BY DEF PresenceErrsForACause
    <2>1. Shows(Coming, view, u) <=> view[u] = "online"
      BY DEF Shows, About, Greets
    <2> QED
      BY <2>1 DEF PresenceInv, PeerInv, Excused, Greeted
  <1> QED
    BY <1>1, <1>2, <1>3, StreamTypes, PTL DEF Spec
=============================================================================
