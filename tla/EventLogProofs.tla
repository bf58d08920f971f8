--------------------------- MODULE EventLogProofs ---------------------------
(***************************************************************************)
(* Theorems about EventLog: type correctness, and that no event is lost    *)
(* but for the recorded causes.                                            *)
(***************************************************************************)
EXTENDS EventLog, TLAPS

USE LogAssumption DEF LogAssumption

-----------------------------------------------------------------------------
(* Queues: what Append and Tail do to their elements.                       *)
LEMMA AppendFacts ==
  ASSUME NEW S, NEW q \in Seq(S), NEW e \in S
  PROVE  /\ Append(q, e) \in Seq(S)
         /\ Len(q) \in Nat
         /\ Len(Append(q, e)) = Len(q) + 1
         /\ Range(Append(q, e)) = Range(q) \cup {e}
  <1> DEFINE r == Append(q, e)
  <1>1. /\ r \in Seq(S) /\ Len(q) \in Nat /\ Len(r) = Len(q) + 1
        /\ DOMAIN q = 1..Len(q) /\ DOMAIN r = 1..(Len(q) + 1)
        /\ \A i \in 1..Len(q) : r[i] = q[i]
        /\ r[Len(q) + 1] = e
    OBVIOUS
  <1>2. ASSUME NEW x \in Range(r) PROVE x \in Range(q) \cup {e}
    <2>1. PICK i \in 1..(Len(q) + 1) : r[i] = x
      BY <1>1 DEF Range
    <2>2. i \in 1..Len(q) \/ i = Len(q) + 1
      BY <1>1
    <2> QED
      BY <1>1, <2>1, <2>2 DEF Range
  <1>3. ASSUME NEW x \in Range(q) PROVE x \in Range(r)
    <2>1. PICK i \in 1..Len(q) : q[i] = x
      BY <1>1 DEF Range
    <2>2. i \in 1..(Len(q) + 1) /\ r[i] = x
      BY <1>1, <2>1
    <2> QED
      BY <1>1, <2>2 DEF Range
  <1>4. e \in Range(r)
    <2>1. Len(q) + 1 \in 1..(Len(q) + 1)
      BY <1>1
    <2> QED
      BY <1>1, <2>1 DEF Range
  <1> QED
    BY <1>1, <1>2, <1>3, <1>4

LEMMA TailFacts ==
  ASSUME NEW S, NEW q \in Seq(S), q # <<>>
  PROVE  /\ Head(q) \in S
         /\ Tail(q) \in Seq(S)
         /\ Len(q) \in Nat
         /\ Len(Tail(q)) = Len(q) - 1
         /\ Range(q) = {Head(q)} \cup Range(Tail(q))
  <1> DEFINE r == Tail(q)
  <1>1. /\ Head(q) \in S /\ Head(q) = q[1] /\ r \in Seq(S)
        /\ Len(q) \in Nat \ {0} /\ Len(r) = Len(q) - 1
        /\ DOMAIN q = 1..Len(q) /\ DOMAIN r = 1..(Len(q) - 1)
        /\ \A i \in 1..(Len(q) - 1) : r[i] = q[i + 1]
    OBVIOUS
  <1>2. ASSUME NEW x \in Range(q) PROVE x = Head(q) \/ x \in Range(r)
    <2>1. PICK i \in 1..Len(q) : q[i] = x
      BY <1>1 DEF Range
    <2>2. CASE i = 1
      BY <1>1, <2>1, <2>2
    <2>3. CASE i # 1
      <3>1. i - 1 \in 1..(Len(q) - 1) /\ (i - 1) + 1 = i
        BY <1>1, <2>1, <2>3
      <3>2. r[i - 1] = x
        BY <1>1, <2>1, <3>1
      <3> QED
        BY <1>1, <3>1, <3>2 DEF Range
    <2> QED
      BY <2>2, <2>3
  <1>3. ASSUME NEW x \in Range(r) PROVE x \in Range(q)
    <2>1. PICK i \in 1..(Len(q) - 1) : r[i] = x
      BY <1>1 DEF Range
    <2>2. i + 1 \in 1..Len(q) /\ q[i + 1] = x
      BY <1>1, <2>1
    <2> QED
      BY <1>1, <2>2 DEF Range
  <1>4. Head(q) \in Range(q)
    <2>1. 1 \in 1..Len(q)
      BY <1>1
    <2> QED
      BY <1>1, <2>1 DEF Range
  <1> QED
    BY <1>1, <1>2, <1>3, <1>4

LEMMA NewIdFacts ==
  ASSUME TypeOK, NewId
  PROVE  /\ lastId \in Ids /\ lastId' \in Ids /\ lastId' = lastId + 1
         /\ lastId \in Nat /\ lastId' \in Nat
  BY DEF TypeOK, NewId, Ids

-----------------------------------------------------------------------------
(* The initial state.                                                       *)
LEMMA InitInv == Init => IInv
  <1> SUFFICES ASSUME Init PROVE IInv
    OBVIOUS
  <1>1. Queued = {} /\ Buffered = {} /\ UnderWay = {} /\ Done = {} /\ Passed = {}
    BY DEF Init, Queued, Buffered, UnderWay, Done, Passed, Range
  <1>2. TypeOK
    <2>1. lastId \in Ids /\ seen \in Ids /\ from \in 0..MaxId
      BY DEF Init, Ids
    <2>2. at \in [Broadcasters -> {"idle", "enqueue", "push"}]
      BY DEF Init
    <2>3. event \in [Broadcasters -> 0..MaxId]
      BY DEF Init
    <2>4. /\ storeQ \in Seq(Ids) /\ Len(storeQ) <= StoreCap
          /\ send \in Seq(Ids) /\ Len(send) <= BufferCap
      BY DEF Init
    <2>5. inHub \in BOOLEAN
      BY DEF Init
    <2>6. stream \in {"offline", "greeting", "query", "replay", "streaming"}
      BY DEF Init
    <2>7. /\ events \subseteq Ids /\ log \subseteq Ids /\ replay \subseteq Ids
          /\ received \subseteq Ids /\ excused \subseteq Ids
          /\ missed \subseteq Ids /\ owed \subseteq Ids
      BY DEF Init
    <2> QED
      BY <2>1, <2>2, <2>3, <2>4, <2>5, <2>6, <2>7 DEF TypeOK
  <1>3. IdsInOrder
    BY <1>1 DEF Init, IdsInOrder
  <1>4. Stored /\ Accounted
    BY <1>1 DEF Stored, Accounted
  <1>5. ResumesBefore
    BY DEF Init, ResumesBefore
  <1> QED
    BY <1>2, <1>3, <1>4, <1>5 DEF IInv

-----------------------------------------------------------------------------
(* The broadcasts.                                                          *)
LEMMA SerializeKeeps ==
  ASSUME IInv, NEW b \in Broadcasters, Serialize(b)
  PROVE  IInv'
  <1> DEFINE n == lastId'
  <1> USE DEF IInv
  <1>1. /\ lastId \in Nat /\ n = lastId + 1 /\ n \in Ids /\ n \in Nat
        /\ n \in 0..MaxId /\ lastId' = n
    BY NewIdFacts DEF Serialize, Ids
  <1>2. /\ at[b] = "idle"
        /\ at' = [at EXCEPT ![b] = "enqueue"]
        /\ event' = [event EXCEPT ![b] = n]
        /\ events' = events \cup {n}
        /\ missed' \subseteq missed \cup {n}
        /\ UNCHANGED <<storeQ, log, stream, inHub, send, from, replay, seen,
                       received, excused, owed>>
    BY DEF Serialize, streamVars, clientVars
  <1> HIDE DEF n
  <1>3. TypeOK'
    BY <1>1, <1>2 DEF TypeOK
  <1>4. /\ Queued' = Queued /\ Buffered' = Buffered
        /\ ResumesAfter' = ResumesAfter /\ ToReplay' = ToReplay
    BY <1>2 DEF Queued, Buffered, ResumesAfter, ToReplay
  <1>5. UnderWay' = UnderWay \cup {n}
    BY <1>2 DEF UnderWay, TypeOK
  <1>6. Done' \subseteq Done /\ Passed' \subseteq Passed
    <2>1. Done' \subseteq Done
      BY <1>2, <1>5 DEF Done
    <2>2. {event'[q] : q \in {p \in Broadcasters : at'[p] = "push"}}
            \subseteq {event[q] : q \in {p \in Broadcasters : at[p] = "push"}}
      BY <1>2 DEF TypeOK
    <2> QED
      BY <2>1, <2>2 DEF Passed
  <1>7. IdsInOrder'
    <2>1. \A e \in events' : e \in Nat /\ e <= n
      BY <1>1, <1>2 DEF IdsInOrder, TypeOK, Ids
    <2>2. seen \in Nat /\ from \in Nat
      BY DEF TypeOK, Ids
    <2>3. seen' <= n /\ from' <= n
      BY <1>1, <1>2, <2>2 DEF IdsInOrder
    <2> QED
      BY <1>1, <1>2, <1>4, <1>5, <2>1, <2>3 DEF IdsInOrder
  <1>8. Stored' /\ Accounted'
    BY <1>2, <1>4, <1>6 DEF Stored, Accounted
  <1>9. ResumesBefore'
    <2>1. seen \in Nat /\ from \in Nat
      BY DEF TypeOK, Ids
    <2>2. ResumesAfter \in Nat /\ n > ResumesAfter
      BY <1>1, <2>1 DEF ResumesAfter, IdsInOrder
    <2> QED
      BY <1>2, <1>4, <2>2 DEF ResumesBefore
  <1> QED
    BY <1>3, <1>7, <1>8, <1>9

LEMMA EnqueueKeeps ==
  ASSUME IInv, NEW b \in Broadcasters, Enqueue(b)
  PROVE  IInv'
  <1> DEFINE e == event[b]
  <1> USE DEF IInv
  <1>1. /\ at[b] = "enqueue" /\ at' = [at EXCEPT ![b] = "push"]
        /\ UNCHANGED <<lastId, events, event, log, stream, inHub, send, from,
                       replay, seen, received, missed, owed>>
    BY DEF Enqueue, streamVars, clientVars
  <1>2. e \in events /\ e \in Ids
    BY <1>1 DEF IdsInOrder, UnderWay, TypeOK
  <1>3. storeQ \in Seq(Ids)
    BY DEF TypeOK
  <1>4. /\ storeQ' \in Seq(Ids) /\ Len(storeQ') <= StoreCap
        /\ Queued \subseteq Queued' /\ Queued' \subseteq Queued \cup {e}
        /\ excused \subseteq excused' /\ excused' \subseteq excused \cup {e}
        /\ e \in Queued' \cup excused'
    <2>1. CASE Len(storeQ) < StoreCap
      <3>1. storeQ' = Append(storeQ, e) /\ excused' = excused
        BY <2>1 DEF Enqueue
      <3>2. /\ Append(storeQ, e) \in Seq(Ids) /\ Len(storeQ) \in Nat
            /\ Len(Append(storeQ, e)) = Len(storeQ) + 1
            /\ Range(Append(storeQ, e)) = Queued \cup {e}
        BY <1>2, <1>3, AppendFacts DEF Queued
      <3>3. Len(storeQ') <= StoreCap
        BY <2>1, <3>1, <3>2
      <3> QED
        BY <3>1, <3>2, <3>3 DEF Queued
    <2>2. CASE ~(Len(storeQ) < StoreCap)
      <3>1. storeQ' = storeQ /\ excused' = excused \cup {e}
        BY <2>2 DEF Enqueue
      <3> QED
        BY <3>1, <1>3 DEF Queued, TypeOK
    <2> QED
      BY <2>1, <2>2
  <1> HIDE DEF e
  <1>5. TypeOK'
    BY <1>1, <1>2, <1>4 DEF TypeOK
  <1>6. /\ Buffered' = Buffered /\ ResumesAfter' = ResumesAfter
        /\ ToReplay \subseteq ToReplay'
    BY <1>1, <1>4 DEF Buffered, ResumesAfter, ToReplay
  <1>7. UnderWay' = UnderWay /\ Done' = Done
    BY <1>1 DEF UnderWay, Done, TypeOK
  <1>8. Passed' \subseteq Passed \cup {e}
    <2>1. {event'[q] : q \in {p \in Broadcasters : at'[p] = "push"}}
            \subseteq {event[q] : q \in {p \in Broadcasters : at[p] = "push"}}
                        \cup {e}
      BY <1>1 DEF TypeOK, e
    <2> QED
      BY <1>7, <2>1 DEF Passed
  <1>9. IdsInOrder'
    BY <1>1, <1>2, <1>4, <1>6, <1>7 DEF IdsInOrder
  <1>10. Stored' /\ Accounted' /\ ResumesBefore'
    <2>1. Stored'
      BY <1>1, <1>4, <1>8 DEF Stored
    <2>2. Accounted'
      BY <1>1, <1>4, <1>6, <1>7 DEF Accounted
    <2>3. ResumesBefore'
      BY <1>1, <1>4, <1>6 DEF ResumesBefore
    <2> QED
      BY <2>1, <2>2, <2>3
  <1> QED
    BY <1>5, <1>9, <1>10

LEMMA PushKeeps ==
  ASSUME IInv, NEW b \in Broadcasters, Push(b)
  PROVE  IInv'
  <1> DEFINE e == event[b]
             reached == inHub /\ Len(send) < BufferCap
  <1> USE DEF IInv
  <1>1. /\ at[b] = "push" /\ at' = [at EXCEPT ![b] = "idle"]
        /\ UNCHANGED <<lastId, events, event, storeQ, log, stream, inHub, from,
                       replay, seen, received, missed, owed>>
    BY DEF Push, clientVars
  <1>2. e \in events /\ e \in Ids
    BY <1>1 DEF IdsInOrder, UnderWay, TypeOK
  <1>3. e \in Passed
    BY <1>1 DEF Passed
  <1>4. send \in Seq(Ids) /\ Len(send) <= BufferCap
    BY DEF TypeOK
  <1>5. /\ send' \in Seq(Ids) /\ Len(send') <= BufferCap
        /\ Buffered \subseteq Buffered' /\ Buffered' \subseteq Buffered \cup {e}
        /\ reached => e \in Buffered'
        /\ ~reached => send' = send
    <2>1. CASE reached
      <3>1. send' = Append(send, e)
        BY <2>1 DEF Push
      <3>2. /\ Append(send, e) \in Seq(Ids) /\ Len(send) \in Nat
            /\ Len(Append(send, e)) = Len(send) + 1
            /\ Range(Append(send, e)) = Buffered \cup {e}
        BY <1>2, <1>4, AppendFacts DEF Buffered
      <3>3. Len(send') <= BufferCap
        BY <2>1, <3>1, <3>2
      <3> QED
        BY <2>1, <3>1, <3>2, <3>3 DEF Buffered
    <2>2. CASE ~reached
      <3>1. send' = send
        BY <2>2 DEF Push
      <3> QED
        BY <1>4, <2>2, <3>1 DEF Buffered
    <2> QED
      BY <2>1, <2>2
  <1>6. /\ excused \subseteq excused' /\ excused' \subseteq excused \cup {e}
        /\ ~reached /\ (inHub \/ stream \in {"replay", "streaming"})
              => e \in excused'
    BY <1>5 DEF Push
  <1> HIDE DEF e, reached
  <1>7. TypeOK'
    BY <1>1, <1>2, <1>5, <1>6 DEF TypeOK
  <1>8. /\ Queued' = Queued /\ ResumesAfter' = ResumesAfter
        /\ ToReplay' = ToReplay
    BY <1>1 DEF Queued, ResumesAfter, ToReplay
  <1>9. UnderWay' \subseteq UnderWay
    BY <1>1 DEF UnderWay, TypeOK
  <1>10. Done' \subseteq Done \cup {e}
    <2>1. UnderWay \subseteq UnderWay' \cup {e}
      BY <1>1 DEF UnderWay, TypeOK, e
    <2> QED
      BY <1>1, <2>1 DEF Done
  <1>11. Passed' \subseteq Passed
    <2>1. {event'[q] : q \in {p \in Broadcasters : at'[p] = "push"}}
            \subseteq {event[q] : q \in {p \in Broadcasters : at[p] = "push"}}
      BY <1>1 DEF TypeOK
    <2> QED
      BY <1>3, <1>10, <2>1 DEF Passed
  <1>12. IdsInOrder'
    BY <1>1, <1>2, <1>5, <1>8, <1>9 DEF IdsInOrder
  <1>13. Stored' /\ ResumesBefore'
    BY <1>1, <1>6, <1>8, <1>11 DEF Stored, ResumesBefore
  <1>14. e \in received \cup excused' \cup Buffered' \cup ToReplay
    <2>1. CASE reached
      BY <2>1, <1>5
    <2>2. CASE ~reached /\ (inHub \/ stream \in {"replay", "streaming"})
      BY <2>2, <1>6
    <2>3. CASE stream \in {"offline", "greeting", "query"}
      <3>1. e > ResumesAfter \/ e \in received \cup excused
        BY <1>2, <2>3 DEF ResumesBefore
      <3>2. e \in log \cup Queued \cup excused
        BY <1>3 DEF Stored
      <3> QED
        BY <1>6, <2>3, <3>1, <3>2 DEF ToReplay
    <2> QED
      BY <2>1, <2>2, <2>3 DEF TypeOK
  <1>15. Accounted'
    BY <1>1, <1>5, <1>6, <1>8, <1>10, <1>14 DEF Accounted
  <1> QED
    BY <1>7, <1>12, <1>13, <1>15

-----------------------------------------------------------------------------
(* The table.                                                               *)
LEMMA StoreKeeps ==
  ASSUME IInv, Store
  PROVE  IInv'
  <1> DEFINE e == Head(storeQ)
  <1> USE DEF IInv
  <1>1. /\ storeQ # <<>> /\ storeQ' = Tail(storeQ)
        /\ UNCHANGED <<lastId, events, at, event, stream, inHub, send, from,
                       replay, seen, received, missed, owed>>
    BY DEF Store, streamVars, clientVars
  <1>2. /\ e \in Ids /\ storeQ' \in Seq(Ids) /\ Len(storeQ') <= StoreCap
        /\ Queued = {e} \cup Queued'
    <2>1. storeQ \in Seq(Ids) /\ Len(storeQ) <= StoreCap
      BY DEF TypeOK
    <2>2. /\ Head(storeQ) \in Ids /\ Tail(storeQ) \in Seq(Ids)
          /\ Len(storeQ) \in Nat /\ Len(Tail(storeQ)) = Len(storeQ) - 1
          /\ Range(storeQ) = {Head(storeQ)} \cup Range(Tail(storeQ))
      BY <1>1, <2>1, TailFacts
    <2> QED
      BY <1>1, <2>1, <2>2 DEF Queued
  <1>3. /\ log \subseteq log' /\ log' \subseteq log \cup {e}
        /\ excused \subseteq excused' /\ excused' \subseteq excused \cup {e}
        /\ e \in log' \cup excused'
    BY DEF Store
  <1> HIDE DEF e
  <1>4. TypeOK'
    BY <1>1, <1>2, <1>3 DEF TypeOK
  <1>5. /\ Buffered' = Buffered /\ ResumesAfter' = ResumesAfter
        /\ UnderWay' = UnderWay /\ Done' = Done /\ Passed' = Passed
    BY <1>1 DEF Buffered, ResumesAfter, UnderWay, Done, Passed
  <1>6. IdsInOrder'
    BY <1>1, <1>2, <1>3, <1>5 DEF IdsInOrder
  <1>7. ToReplay \subseteq ToReplay' \cup excused'
    BY <1>1, <1>2, <1>3, <1>5 DEF ToReplay
  <1>8. Stored' /\ ResumesBefore'
    BY <1>1, <1>2, <1>3, <1>5 DEF Stored, ResumesBefore
  <1>9. Accounted'
    BY <1>1, <1>3, <1>5, <1>7 DEF Accounted
  <1> QED
    BY <1>4, <1>6, <1>8, <1>9

LEMMA ExpireKeeps ==
  ASSUME IInv, NEW e \in log, Expire(e)
  PROVE  IInv'
  <1> USE DEF IInv
  <1>1. /\ log' = log \ {e} /\ excused' = excused \cup {e}
        /\ UNCHANGED <<lastId, events, at, event, storeQ, stream, inHub, send,
                       from, replay, seen, received, missed, owed>>
    BY DEF Expire, streamVars, clientVars
  <1>2. TypeOK'
    BY <1>1 DEF TypeOK
  <1>3. /\ Buffered' = Buffered /\ Queued' = Queued
        /\ ResumesAfter' = ResumesAfter
        /\ UnderWay' = UnderWay /\ Done' = Done /\ Passed' = Passed
    BY <1>1 DEF Buffered, Queued, ResumesAfter, UnderWay, Done, Passed
  <1>4. ToReplay \subseteq ToReplay' \cup excused'
    BY <1>1, <1>3 DEF ToReplay
  <1>5. IdsInOrder' /\ Stored' /\ ResumesBefore'
    BY <1>1, <1>3 DEF IdsInOrder, Stored, ResumesBefore
  <1>6. Accounted'
    BY <1>1, <1>3, <1>4 DEF Accounted
  <1> QED
    BY <1>2, <1>5, <1>6

-----------------------------------------------------------------------------
(* The connection.  None of its steps touches a broadcast or the queue.     *)
BroadcastsFrame == UNCHANGED <<events, at, event, storeQ, log>>

LEMMA BroadcastsUntouched ==
  ASSUME BroadcastsFrame
  PROVE  /\ Queued' = Queued /\ UnderWay' = UnderWay
         /\ Done' = Done /\ Passed' = Passed
  BY DEF BroadcastsFrame, Queued, UnderWay, Done, Passed

LEMMA ConnectKeeps ==
  ASSUME IInv, Connect
  PROVE  IInv'
  <1> USE DEF IInv
  <1>1. /\ stream = "offline" /\ stream' = "greeting" /\ from' = seen
        /\ owed' = owed \cup (missed \cap log)
        /\ UNCHANGED <<lastId, inHub, send, replay, seen, received, excused,
                       missed>>
        /\ BroadcastsFrame
    BY DEF Connect, serverVars, clientVars, BroadcastsFrame
  <1>2. TypeOK'
    BY <1>1 DEF TypeOK, BroadcastsFrame, Ids
  <1>3. Buffered' = Buffered /\ ResumesAfter' = ResumesAfter
    BY <1>1 DEF Buffered, ResumesAfter
  <1>4. ToReplay' = ToReplay
    BY <1>1, <1>3, BroadcastsUntouched DEF ToReplay, BroadcastsFrame
  <1>5. IdsInOrder' /\ Stored' /\ ResumesBefore' /\ Accounted'
    BY <1>1, <1>3, <1>4, BroadcastsUntouched DEF BroadcastsFrame, IdsInOrder,
       Stored, ResumesBefore, Accounted
  <1> QED
    BY <1>2, <1>5

LEMMA HubRegisterKeeps ==
  ASSUME IInv, HubRegister
  PROVE  IInv'
  <1> USE DEF IInv
  <1>1. /\ inHub' = TRUE
        /\ UNCHANGED <<lastId, stream, send, from, replay, seen, received,
                       excused, missed, owed>>
        /\ BroadcastsFrame
    BY DEF HubRegister, serverVars, clientVars, history, BroadcastsFrame
  <1>2. TypeOK'
    BY <1>1 DEF TypeOK, BroadcastsFrame
  <1>3. /\ Buffered' = Buffered /\ ResumesAfter' = ResumesAfter
        /\ ToReplay' = ToReplay
    BY <1>1, BroadcastsUntouched DEF Buffered, ResumesAfter, ToReplay,
       BroadcastsFrame
  <1>4. IdsInOrder' /\ Stored' /\ ResumesBefore' /\ Accounted'
    BY <1>1, <1>3, BroadcastsUntouched DEF BroadcastsFrame, IdsInOrder, Stored,
       ResumesBefore, Accounted
  <1> QED
    BY <1>2, <1>4

\* A frame with a new id: no event has a greater one.
LEMMA NewFrameKeepsOrder ==
  ASSUME TypeOK, IdsInOrder, NewId, Frame(lastId'),
         UNCHANGED <<send, from, replay, received>>, BroadcastsFrame,
         stream' # "replay", stream # "replay"
  PROVE  IdsInOrder' /\ seen' \in Ids /\ lastId' \in Ids
  <1>1. /\ lastId' = lastId + 1 /\ lastId \in Nat /\ lastId' \in Ids
        /\ seen' = lastId' /\ lastId' \in Nat
    BY NewIdFacts DEF Frame
  <1>2. seen \in Nat /\ from \in Nat /\ \A e \in events : e \in Nat
    BY DEF TypeOK, Ids
  <1>3. seen' <= lastId' /\ from' <= lastId' /\ \A e \in events' : e <= lastId'
    BY <1>1, <1>2 DEF IdsInOrder, BroadcastsFrame
  <1>4. Buffered' = Buffered
    BY DEF Buffered
  <1> QED
    BY <1>1, <1>3, <1>4, BroadcastsUntouched DEF IdsInOrder, BroadcastsFrame

LEMMA GreetKeeps ==
  ASSUME IInv, Greet
  PROVE  IInv'
  <1> USE DEF IInv
  <1>1. /\ stream = "greeting" /\ stream' = "query"
        /\ NewId /\ Frame(lastId')
        /\ UNCHANGED <<inHub, send, from, replay, received, excused, missed,
                       owed>>
        /\ BroadcastsFrame
    BY DEF Greet, serverVars, history, BroadcastsFrame
  <1>2. IdsInOrder' /\ seen' \in Ids /\ lastId' \in Ids
    BY <1>1, NewFrameKeepsOrder
  <1>3. TypeOK'
    BY <1>1, <1>2 DEF TypeOK, BroadcastsFrame
  <1>4. /\ Buffered' = Buffered /\ ResumesAfter' = ResumesAfter
        /\ ToReplay' = ToReplay
    BY <1>1, BroadcastsUntouched DEF Buffered, ResumesAfter, ToReplay,
       BroadcastsFrame
  <1>5. Stored' /\ ResumesBefore' /\ Accounted'
    BY <1>1, <1>4, BroadcastsUntouched DEF BroadcastsFrame, Stored,
       ResumesBefore, Accounted
  <1> QED
    BY <1>2, <1>3, <1>5

LEMMA HeartbeatKeeps ==
  ASSUME IInv, Heartbeat
  PROVE  IInv'
  <1> USE DEF IInv
  <1>1. /\ stream = "streaming" /\ stream' = "streaming"
        /\ NewId /\ Frame(lastId')
        /\ UNCHANGED <<inHub, send, from, replay, received, excused, missed,
                       owed>>
        /\ BroadcastsFrame
    BY DEF Heartbeat, serverVars, streamVars, history, BroadcastsFrame
  <1>2. IdsInOrder' /\ seen' \in Ids /\ lastId' \in Ids
    BY <1>1, NewFrameKeepsOrder
  <1>3. TypeOK'
    BY <1>1, <1>2 DEF TypeOK, BroadcastsFrame
  <1>4. /\ Buffered' = Buffered /\ ToReplay = {} /\ ToReplay' = {}
    BY <1>1 DEF Buffered, ToReplay
  <1>5. Stored' /\ ResumesBefore' /\ Accounted'
    BY <1>1, <1>4, BroadcastsUntouched DEF BroadcastsFrame, Stored,
       ResumesBefore, Accounted
  <1> QED
    BY <1>2, <1>3, <1>5

LEMMA ReadKeeps ==
  ASSUME IInv, NEW rows \in SUBSET log, NEW answer \in SUBSET rows,
         {e \in log : e > from} \subseteq rows, Read(rows, answer)
  PROVE  IInv'
  <1> DEFINE late == {e \in Done : e > from /\ e \notin log \cup Buffered}
  <1> USE DEF IInv
  <1>1. /\ stream = "query" /\ stream' = "replay" /\ replay' = answer
        /\ excused' = excused \cup (rows \ answer) \cup late
        /\ UNCHANGED <<lastId, inHub, send, from, seen, received, missed, owed>>
        /\ BroadcastsFrame
    BY DEF Read, serverVars, clientVars, BroadcastsFrame
  <1>2. late \subseteq Ids /\ rows \subseteq Ids
    BY DEF TypeOK, Done
  <1>3. TypeOK'
    BY <1>1, <1>2 DEF TypeOK, BroadcastsFrame
  <1>4. Buffered' = Buffered /\ replay = {}
    BY <1>1 DEF Buffered, IdsInOrder
  <1>5. IdsInOrder' /\ Stored' /\ ResumesBefore'
    BY <1>1, <1>4, BroadcastsUntouched DEF BroadcastsFrame, IdsInOrder, Stored,
       ResumesBefore
  <1>6. ASSUME NEW e \in Done
        PROVE  e \in received \cup excused' \cup Buffered \cup replay'
    <2>1. CASE e \in ToReplay
      <3>1. e > from
        BY <1>1, <2>1 DEF ToReplay, ResumesAfter
      <3>2. CASE e \in log
        BY <1>1, <3>1, <3>2
      <3>3. CASE e \notin log
        BY <1>1, <3>1, <3>3
      <3> QED
        BY <3>2, <3>3
    <2>2. CASE e \notin ToReplay
      BY <1>1, <1>4, <2>2 DEF Accounted
    <2> QED
      BY <2>1, <2>2
  <1>7. Accounted'
    BY <1>1, <1>4, <1>6, BroadcastsUntouched DEF Accounted
  <1> QED
    BY <1>3, <1>5, <1>7

LEMMA QueryKeeps ==
  ASSUME IInv, Query
  PROVE  IInv'
  <1> DEFINE rows == {e \in log : e > from}
  <1>1. FirstOf(rows) \in SUBSET rows /\ rows \in SUBSET log
    BY DEF FirstOf
  <1>2. Read(rows, FirstOf(rows)) \/ Read(rows, {})
    BY DEF Query
  <1> QED
    BY <1>1, <1>2, ReadKeeps

LEMMA ReplayKeeps ==
  ASSUME IInv, NEW e \in replay, Replay(e)
  PROVE  IInv'
  <1> USE DEF IInv
  <1>1. /\ stream = "replay" /\ stream' = "replay"
        /\ replay' = replay \ {e} /\ seen' = e
        /\ received' = received \cup {e}
        /\ UNCHANGED <<lastId, inHub, send, from, excused, missed, owed>>
        /\ BroadcastsFrame
    BY DEF Replay, Frame, serverVars, history, BroadcastsFrame
  <1>2. e \in events /\ e \in Ids
    BY DEF IdsInOrder, TypeOK
  <1>3. TypeOK'
    BY <1>1, <1>2 DEF TypeOK, BroadcastsFrame
  <1>4. Buffered' = Buffered /\ ToReplay = {} /\ ToReplay' = {}
    BY <1>1 DEF Buffered, ToReplay
  <1>5. IdsInOrder'
    BY <1>1, <1>2, <1>4, BroadcastsUntouched DEF IdsInOrder, BroadcastsFrame
  <1>6. Stored' /\ ResumesBefore' /\ Accounted'
    BY <1>1, <1>4, BroadcastsUntouched DEF BroadcastsFrame, Stored,
       ResumesBefore, Accounted
  <1> QED
    BY <1>3, <1>5, <1>6

LEMMA StartStreamingKeeps ==
  ASSUME IInv, StartStreaming
  PROVE  IInv'
  <1> USE DEF IInv
  <1>1. /\ stream = "replay" /\ stream' = "streaming" /\ replay = {}
        /\ UNCHANGED <<lastId, inHub, send, from, replay, seen, received,
                       excused, missed, owed>>
        /\ BroadcastsFrame
    BY DEF StartStreaming, serverVars, clientVars, history, BroadcastsFrame
  <1>2. TypeOK'
    BY <1>1 DEF TypeOK, BroadcastsFrame
  <1>3. Buffered' = Buffered /\ ToReplay = {} /\ ToReplay' = {}
    BY <1>1 DEF Buffered, ToReplay
  <1>4. IdsInOrder' /\ Stored' /\ ResumesBefore' /\ Accounted'
    BY <1>1, <1>3, BroadcastsUntouched DEF BroadcastsFrame, IdsInOrder, Stored,
       ResumesBefore, Accounted
  <1> QED
    BY <1>2, <1>4

LEMMA ReceiveKeeps ==
  ASSUME IInv, Receive
  PROVE  IInv'
  <1> DEFINE e == Head(send)
  <1> USE DEF IInv
  <1>1. /\ stream = "streaming" /\ stream' = "streaming" /\ send # <<>>
        /\ send' = Tail(send) /\ seen' = e
        /\ received' = received \cup {e}
        /\ UNCHANGED <<lastId, inHub, from, replay, excused, missed, owed>>
        /\ BroadcastsFrame
    BY DEF Receive, Frame, serverVars, history, BroadcastsFrame
  <1>2. /\ e \in Ids /\ send' \in Seq(Ids) /\ Len(send') <= BufferCap
        /\ Buffered = {e} \cup Buffered'
    <2>1. send \in Seq(Ids) /\ Len(send) <= BufferCap
      BY DEF TypeOK
    <2>2. /\ Head(send) \in Ids /\ Tail(send) \in Seq(Ids)
          /\ Len(send) \in Nat /\ Len(Tail(send)) = Len(send) - 1
          /\ Range(send) = {Head(send)} \cup Range(Tail(send))
      BY <1>1, <2>1, TailFacts
    <2> QED
      BY <1>1, <2>1, <2>2 DEF Buffered
  <1> HIDE DEF e
  <1>3. TypeOK'
    BY <1>1, <1>2 DEF TypeOK, BroadcastsFrame
  <1>4. ToReplay = {} /\ ToReplay' = {}
    BY <1>1 DEF ToReplay
  <1>5. IdsInOrder'
    <2>1. e \in events /\ e <= lastId
      BY <1>2 DEF IdsInOrder
    <2> QED
      BY <1>1, <1>2, <2>1, BroadcastsUntouched DEF IdsInOrder, BroadcastsFrame
  <1>6. Stored' /\ ResumesBefore' /\ Accounted'
    BY <1>1, <1>2, <1>4, BroadcastsUntouched DEF BroadcastsFrame, Stored,
       ResumesBefore, Accounted
  <1> QED
    BY <1>3, <1>5, <1>6

\* What a client that has just lost its connection will be replayed.
LEMMA OfflineAccounted ==
  ASSUME IInv, Overtaken \subseteq excused', excused \subseteq excused',
         stream' = "offline", UNCHANGED <<events, seen, received>>,
         NEW e \in events, e \in log' \cup Queued' \cup excused'
  PROVE  e \in received' \cup excused' \cup ToReplay'
  <1> USE DEF IInv
  <1>1. e \in Nat /\ seen \in Nat
    BY DEF TypeOK, Ids
  <1>2. CASE e <= seen
    BY <1>2 DEF Overtaken
  <1>3. CASE e > seen
    BY <1>3 DEF ToReplay, ResumesAfter
  <1> QED
    BY <1>1, <1>2, <1>3

LEMMA OfflineResumes ==
  ASSUME IInv, Overtaken \subseteq excused', stream' = "offline",
         UNCHANGED <<events, seen, received>>
  PROVE  ResumesBefore'
  <1> USE DEF IInv
  <1>1. ASSUME NEW e \in events PROVE e > seen \/ e \in received \cup excused'
    <2>1. e \in Nat /\ seen \in Nat
      BY DEF TypeOK, Ids
    <2> QED
      BY <2>1 DEF Overtaken
  <1> QED
    BY <1>1 DEF ResumesBefore, ResumesAfter

LEMMA DisconnectKeeps ==
  ASSUME IInv, Disconnect
  PROVE  IInv'
  <1> USE DEF IInv
  <1>1. /\ stream' = "offline" /\ inHub' = FALSE /\ send' = <<>>
        /\ replay' = {} /\ from' = 0
        /\ excused' = excused \cup Overtaken
        /\ UNCHANGED <<lastId, seen, received, missed, owed>>
        /\ BroadcastsFrame
    BY DEF Disconnect, serverVars, clientVars, BroadcastsFrame
  <1>2. Overtaken \subseteq Ids /\ Buffered' = {}
    BY <1>1 DEF Overtaken, TypeOK, Buffered, Range
  <1>3. TypeOK'
    <2>1. send' \in Seq(Ids) /\ Len(send') <= BufferCap
      BY <1>1
    <2>2. inHub' \in BOOLEAN
      BY <1>1
    <2>3. from' \in 0..MaxId /\ excused' \subseteq Ids
      BY <1>1, <1>2 DEF TypeOK
    <2>4. UNCHANGED <<lastId, seen, received, missed, owed, events, at, event,
                      storeQ, log>>
      BY <1>1 DEF BroadcastsFrame
    <2>5. stream' = "offline" /\ replay' = {}
      BY <1>1
    <2> QED
      BY <2>1, <2>2, <2>3, <2>4, <2>5 DEF TypeOK
  <1>4. IdsInOrder'
    <2>1. from' <= lastId'
      BY <1>1 DEF TypeOK, Ids
    <2> QED
      BY <1>1, <1>2, <2>1, BroadcastsUntouched DEF IdsInOrder, BroadcastsFrame
  <1>5. Stored'
    BY <1>1, BroadcastsUntouched DEF Stored, BroadcastsFrame
  <1>6. ResumesBefore'
    BY <1>1, OfflineResumes DEF BroadcastsFrame
  <1>7. ASSUME NEW e \in Done'
        PROVE  e \in received' \cup excused' \cup ToReplay'
    <2>1. e \in events /\ e \in log' \cup Queued' \cup excused'
      BY <1>5, BroadcastsUntouched, <1>1 DEF Stored, Passed, Done
    <2> QED
      BY <1>1, <2>1, OfflineAccounted DEF BroadcastsFrame
  <1>8. Accounted'
    BY <1>7 DEF Accounted
  <1> QED
    BY <1>3, <1>4, <1>5, <1>6, <1>8

LEMMA CrashKeeps ==
  ASSUME IInv, Crash
  PROVE  IInv'
  <1> DEFINE cut == {event[b] : b \in {q \in Broadcasters : at[q] = "enqueue"}}
  <1> USE DEF IInv
  <1>1. /\ at' = [b \in Broadcasters |-> "idle"]
        /\ storeQ' = <<>> /\ stream' = "offline" /\ inHub' = FALSE
        /\ send' = <<>> /\ replay' = {} /\ from' = 0
        /\ excused' = excused \cup Overtaken \cup Queued \cup cut
        /\ UNCHANGED <<lastId, events, event, log, seen, received, missed,
                       owed>>
    BY DEF Crash, clientVars
  <1>2. /\ Buffered' = {} /\ Queued' = {} /\ UnderWay' = {}
    BY <1>1 DEF Buffered, Queued, UnderWay, Range
  <1>3. Done' = events /\ Passed' = events
    BY <1>1, <1>2 DEF Done, Passed
  <1>4. UnderWay \subseteq Passed \cup cut
    BY DEF UnderWay, Passed, TypeOK
  <1>5. cut \subseteq events /\ Queued \subseteq events
    BY DEF IdsInOrder, UnderWay
  <1>6. TypeOK'
    <2>1. /\ send' \in Seq(Ids) /\ Len(send') <= BufferCap
          /\ storeQ' \in Seq(Ids) /\ Len(storeQ') <= StoreCap
      BY <1>1
    <2>2. excused' \subseteq Ids
      BY <1>1, <1>5 DEF TypeOK, Overtaken
    <2>3. /\ at' \in [Broadcasters -> {"idle", "enqueue", "push"}]
          /\ event' \in [Broadcasters -> 0..MaxId]
      BY <1>1 DEF TypeOK
    <2>4. inHub' \in BOOLEAN
      BY <1>1
    <2>5. from' \in 0..MaxId
      BY <1>1
    <2>6. /\ stream' = "offline" /\ replay' = {}
          /\ UNCHANGED <<lastId, events, log, seen, received, missed, owed>>
      BY <1>1
    <2> QED
      BY <2>1, <2>2, <2>3, <2>4, <2>5, <2>6 DEF TypeOK
  <1>7. IdsInOrder'
    <2>1. from' <= lastId'
      BY <1>1 DEF TypeOK, Ids
    <2> QED
      BY <1>1, <1>2, <2>1 DEF IdsInOrder
  <1> HIDE DEF cut
  <1>8. ASSUME NEW e \in events PROVE e \in log' \cup Queued' \cup excused'
    <2>1. e \in Passed \cup cut
      BY <1>4 DEF Passed, Done
    <2> QED
      BY <1>1, <2>1 DEF Stored
  <1>9. Stored'
    BY <1>3, <1>8 DEF Stored
  <1>10. ResumesBefore'
    BY <1>1, OfflineResumes
  <1>11. ASSUME NEW e \in events
         PROVE  e \in received' \cup excused' \cup ToReplay'
    BY <1>1, <1>8, OfflineAccounted
  <1>12. Accounted'
    BY <1>3, <1>11 DEF Accounted
  <1> QED
    BY <1>6, <1>7, <1>9, <1>10, <1>12

-----------------------------------------------------------------------------
LEMMA StutterKeeps ==
  ASSUME IInv, UNCHANGED vars
  PROVE  IInv'
  BY DEF IInv, vars, serverVars, streamVars, clientVars, history, TypeOK,
     IdsInOrder, Stored, ResumesBefore, Accounted, Passed, Done, UnderWay,
     Queued, Buffered, ToReplay, ResumesAfter

\* The strengthening holds in every reachable state.
THEOREM LogInvariant == Spec => []IInv
  <1>1. ASSUME IInv, [Next]_vars
        PROVE  IInv'
    <2>1. CASE Broadcast
      BY <1>1, <2>1, SerializeKeeps, EnqueueKeeps, PushKeeps DEF Broadcast
    <2>2. CASE Store \/ \E e \in log : Expire(e)
      BY <1>1, <2>2, StoreKeeps, ExpireKeeps
    <2>3. CASE Streaming
      BY <1>1, <2>3, ConnectKeeps, HubRegisterKeeps, GreetKeeps, QueryKeeps,
         ReplayKeeps, StartStreamingKeeps, ReceiveKeeps, HeartbeatKeeps,
         DisconnectKeeps DEF Streaming
    <2>4. CASE Crash
      BY <1>1, <2>4, CrashKeeps
    <2>5. CASE UNCHANGED vars
      BY <1>1, <2>5, StutterKeeps
    <2> QED
      BY <1>1, <2>1, <2>2, <2>3, <2>4, <2>5 DEF Next
  <1> QED
    BY InitInv, <1>1, PTL DEF Spec

\* The store queue and the client's buffer never exceed their capacities, and
\* every id is one that was handed out.
THEOREM LogTypeCorrect == Spec => []TypeOK
  <1>1. IInv => TypeOK
    BY DEF IInv
  <1> QED
    BY <1>1, LogInvariant, PTL

\* Whatever fails, fills up or breaks, an event that was broadcast has been
\* received, is coming, or was withheld by one of the recorded causes.
THEOREM NothingElseLost == Spec => []Accounted
  <1>1. IInv => Accounted
    BY DEF IInv
  <1> QED
    BY <1>1, LogInvariant, PTL
=============================================================================
