---------------------------- MODULE TypingProofs ----------------------------
(***************************************************************************)
(* Theorems about TypingIndicator, for any channels, delay and number of   *)
(* requests under way: its clocks keep their ranges, no indicator outlives *)
(* its expiry and one sweep, and one who types on is shown all along.      *)
(***************************************************************************)
EXTENDS TypingIndicator, TLAPS

USE TypingAssumption
    DEF TypingAssumption, TypingThrottle, TypingStopDelay, TypingTimeout,
        SweepInterval, Off, Longest

Requests == [kind : {"start", "stop"}, chan : Channels, left : 0..MaxDelay]

-----------------------------------------------------------------------------
(* Types, action by action. *)

LEMMA RequestTyped ==
  ASSUME NEW k \in {"start", "stop"}, NEW c \in Channels
  PROVE  Request(k, c) \in Requests
  BY DEF Request, Requests

LEMMA InitTyped == ASSUME Init PROVE TypeOK
  <1> USE DEF Init
  <1>1. expires \in [Channels -> Off..TypingTimeout]
    OBVIOUS
  <1>2. age \in [Channels -> 0..Longest]
    OBVIOUS
  <1>3. {typing, badge, prompt} \subseteq BOOLEAN /\ {chan, stopFor} \subseteq Channels
    OBVIOUS
  <1> QED
    BY <1>1, <1>2, <1>3 DEF TypeOK

LEMMA SenderTyped ==
  ASSUME TypeOK, NEW c \in Channels,
         OnTyping \/ StopTimerFires \/ OnStopTyping(c) \/ SwitchChannel(c)
  PROVE  TypeOK'
  <1> USE DEF TypeOK
  <1>1. CASE OnTyping
    <2>1. UNCHANGED <<chan, receiver, age, watched>> /\ stopIn' = 3
          /\ stopFor' = chan
      BY <1>1 DEF OnTyping
    <2>2. typing' \in BOOLEAN /\ prompt' \in BOOLEAN
      BY <1>1 DEF OnTyping
    <2>3. sentAge' \in 0..TypingThrottle + 1
      BY <1>1 DEF OnTyping
    <2>4. wire' \subseteq Requests
      BY <1>1, RequestTyped DEF OnTyping, Post, Requests
    <2> QED
      BY <2>1, <2>2, <2>3, <2>4 DEF receiver, Requests
  <1>2. CASE StopTimerFires
    <2>1. wire' \subseteq Requests
      BY <1>2, RequestTyped DEF StopTimerFires, StopIfTyping, Post, Requests
    <2>2. {typing, badge, prompt}' \subseteq BOOLEAN
      BY <1>2 DEF StopTimerFires, StopIfTyping, receiver
    <2>3. stopIn' \in Off..TypingStopDelay
      BY <1>2 DEF StopTimerFires
    <2> QED
      BY <1>2, <2>1, <2>2, <2>3 DEF StopTimerFires, receiver, Requests
  <1>3. CASE OnStopTyping(c)
    <2>1. wire' \subseteq Requests
      BY <1>3, RequestTyped DEF OnStopTyping, StopIfTyping, Post, Requests
    <2>2. {typing, badge, prompt}' \subseteq BOOLEAN
      BY <1>3 DEF OnStopTyping, StopIfTyping, receiver
    <2>3. stopIn' \in Off..TypingStopDelay
      BY <1>3 DEF OnStopTyping
    <2> QED
      BY <1>3, <2>1, <2>2, <2>3 DEF OnStopTyping, receiver, Requests
  <1>4. CASE SwitchChannel(c)
    BY <1>4 DEF SwitchChannel, receiver
  <1> QED
    BY <1>1, <1>2, <1>3, <1>4

LEMMA NetworkTyped ==
  ASSUME TypeOK, NEW m \in wire, Arrive(m) \/ Lose(m)
  PROVE  TypeOK'
  <1> USE DEF TypeOK
  <1>1. CASE Arrive(m)
    <2>1. m.chan \in Channels
      BY DEF Requests
    <2>2. expires' \in [Channels -> Off..TypingTimeout]
      BY <1>1, <2>1 DEF Arrive, Expiry
    <2>3. age' \in [Channels -> 0..Longest]
      BY <1>1, <2>1 DEF Arrive
    <2> QED
      BY <1>1, <2>2, <2>3 DEF Arrive, sender
  <1>2. CASE Lose(m)
    BY <1>2 DEF Lose, sender, receiver
  <1> QED
    BY <1>1, <1>2

LEMMA ScreenTyped ==
  ASSUME TypeOK, NEW c \in Channels \cup {Nowhere},
         SweepFires \/ ToggleBadge \/ ClearPresence \/ Watch(c)
  PROVE  TypeOK'
  <1> USE DEF TypeOK
  <1>1. CASE SweepFires
    <2>1. expires' \in [Channels -> Off..TypingTimeout]
      BY <1>1 DEF SweepFires, Swept
    <2> QED
      BY <1>1, <2>1 DEF SweepFires, sender
  <1>2. CASE ToggleBadge
    BY <1>2 DEF ToggleBadge, Subscribers, sender
  <1>3. CASE ClearPresence
    <2>1. expires' \in [Channels -> Off..TypingTimeout]
      BY <1>3 DEF ClearPresence
    <2> QED
      BY <1>3, <2>1 DEF ClearPresence, sender
  <1>4. CASE Watch(c)
    BY <1>4 DEF Watch, Subscribers, sender
  <1> QED
    BY <1>1, <1>2, <1>3, <1>4

LEMMA TickTyped == ASSUME TypeOK, Tick PROVE TypeOK'
  <1> USE DEF TypeOK
  <1>1. expires' \in [Channels -> Off..TypingTimeout]
    <2>1. \A t \in Off..TypingTimeout : Less(t) \in Off..TypingTimeout
      BY DEF Less
    <2> QED
      BY <2>1 DEF Tick
  <1>2. age' \in [Channels -> 0..Longest]
    <2>1. \A t \in 0..Longest : UpTo(Longest, t) \in 0..Longest
      BY DEF UpTo
    <2> QED
      BY <2>1 DEF Tick
  <1>3. wire' \subseteq Requests
    <2>1. ASSUME NEW m \in wire PROVE [m EXCEPT !.left = @ - 1] \in Requests
      <3>1. m \in Requests /\ m.left > 0
        BY <2>1 DEF Tick, Requests
      <3>2. m.left - 1 \in 0..MaxDelay
        BY <3>1 DEF Requests
      <3> QED
        BY <3>1, <3>2 DEF Requests
    <2> QED
      BY <2>1 DEF Tick
  <1>4. /\ sentAge' \in 0..TypingThrottle + 1
        /\ stopIn' \in Off..TypingStopDelay
        /\ sweepIn' \in Off..SweepInterval
        /\ watched' \in 0..SweepInterval + 1
    BY DEF Tick, Less, UpTo
  <1>5. prompt' \in BOOLEAN
    BY DEF Tick
  <1> QED
    BY <1>1, <1>2, <1>3, <1>4, <1>5 DEF Tick, Requests

LEMMA StepTyped == ASSUME TypeOK, [Next]_vars PROVE TypeOK'
  <1>1. CASE UNCHANGED vars
    BY <1>1 DEF TypeOK, vars, sender, receiver
  <1>2. CASE Next
    BY <1>2, SenderTyped, NetworkTyped, ScreenTyped, TickTyped DEF Next, TypeOK
  <1> QED
    BY <1>1, <1>2

-----------------------------------------------------------------------------
(* The receiver's clocks. *)

\* Only the network, the screen and the clock move what the receiver knows.
LEMMA SenderFrame ==
  ASSUME NEW c \in Channels,
         OnTyping \/ StopTimerFires \/ OnStopTyping(c) \/ SwitchChannel(c)
  PROVE  UNCHANGED <<receiver, age, watched>>
  BY DEF OnTyping, StopTimerFires, OnStopTyping, SwitchChannel

LEMMA ClocksStep ==
  ASSUME TypeOK, ClocksAgree, [Next]_vars
  PROVE  ClocksAgree'
  <1> USE DEF TypeOK, ClocksAgree
  <1>1. CASE UNCHANGED <<receiver, age, watched>>
    BY <1>1 DEF receiver
  <1>2. ASSUME NEW m \in wire, Arrive(m) PROVE ClocksAgree'
    <2>1. m.chan \in Channels
      OBVIOUS
    <2>2. ASSUME NEW d \in Channels, expires'[d] > 0
          PROVE  age'[d] + expires'[d] <= TypingTimeout
      <3>1. CASE d = m.chan /\ m.kind = "start"
        BY <1>2, <2>1, <3>1 DEF Arrive, Expiry
      <3>2. CASE d = m.chan /\ m.kind # "start"
        BY <1>2, <2>1, <2>2, <3>2 DEF Arrive
      <3>3. CASE d # m.chan
        <4>1. expires'[d] = expires[d] /\ age'[d] = age[d]
          BY <1>2, <2>1, <3>3 DEF Arrive
        <4> QED
          BY <2>2, <4>1
      <3> QED
        BY <3>1, <3>2, <3>3
    <2> QED
      BY <1>2, <2>2 DEF Arrive
  <1>3. CASE SweepFires
    BY <1>3 DEF SweepFires, Swept
  <1>4. CASE ToggleBadge
    BY <1>4 DEF ToggleBadge, Subscribers
  <1>5. CASE ClearPresence
    BY <1>5 DEF ClearPresence
  <1>6. ASSUME NEW c \in Channels \cup {Nowhere}, Watch(c) PROVE ClocksAgree'
    BY <1>6 DEF Watch, Subscribers
  <1>7. CASE Tick
    <2>1. ASSUME NEW d \in Channels, expires'[d] > 0
          PROVE  age'[d] + expires'[d] <= TypingTimeout
      <3>1. expires'[d] = Less(expires[d]) /\ age'[d] = UpTo(Longest, age[d])
        BY <1>7 DEF Tick
      <3>2. expires[d] \in Off..TypingTimeout /\ age[d] \in 0..Longest
        OBVIOUS
      <3>3. expires[d] > 0 => age[d] + expires[d] <= TypingTimeout
        OBVIOUS
      <3> QED
        BY <2>1, <3>1, <3>2, <3>3 DEF Less, UpTo
    <2>2. watching' # Nowhere => sweepIn' # Off
      BY <1>7 DEF Tick, Less
    <2> QED
      BY <2>1, <2>2
  <1>8. ASSUME NEW m \in wire, Lose(m) PROVE ClocksAgree'
    BY <1>1, <1>8 DEF Lose
  <1> QED
    BY <1>1, <1>2, <1>3, <1>4, <1>5, <1>6, <1>7, <1>8, SenderFrame DEF Next, vars

LEMMA SweepStep ==
  ASSUME TypeOK, ClocksAgree, SweepIsNear, [Next]_vars
  PROVE  SweepIsNear'
  <1> USE DEF TypeOK, SweepIsNear
  <1>1. CASE UNCHANGED <<receiver, age, watched>>
    BY <1>1 DEF receiver
  <1>2. ASSUME NEW m \in wire, Arrive(m) PROVE SweepIsNear'
    <2>1. m.chan \in Channels
      OBVIOUS
    <2>2. UNCHANGED <<watching, sweepIn, watched>>
      BY <1>2 DEF Arrive
    <2>3. \A d \in Channels : d # m.chan => expires'[d] = expires[d]
                                            /\ age'[d] = age[d]
      BY <1>2, <2>1 DEF Arrive
    <2>4. expires'[m.chan] # 0
      BY <1>2, <2>1 DEF Arrive, Expiry
    <2> QED
      BY <2>2, <2>3, <2>4
  <1>3. CASE SweepFires
    <2>1. \A d \in Channels : expires'[d] # 0
      BY <1>3 DEF SweepFires, Swept
    <2> QED
      BY <2>1
  <1>4. CASE ToggleBadge
    BY <1>4 DEF ToggleBadge, Subscribers, ClocksAgree
  <1>5. CASE ClearPresence
    BY <1>5 DEF ClearPresence
  <1>6. ASSUME NEW c \in Channels \cup {Nowhere}, Watch(c) PROVE SweepIsNear'
    BY <1>6 DEF Watch
  <1>7. CASE Tick
    <2> SUFFICES ASSUME NEW d \in Channels, watching' = d, expires'[d] = 0
                 PROVE  /\ sweepIn' = 0
                        /\ watched' <= SweepInterval \/ age'[d] <= TypingTimeout
      BY DEF SweepIsNear
    <2>1. sweepIn \in 0..SweepInterval /\ sweepIn # 0 /\ watching = d
      BY <1>7 DEF Tick, ClocksAgree
    <2>2. sweepIn' = 0
      BY <1>7, <2>1 DEF Tick, Less
    <2>3. expires[d] \in Off..TypingTimeout /\ age[d] \in 0..Longest
      OBVIOUS
    <2>4. expires'[d] = Less(expires[d]) /\ age'[d] = UpTo(Longest, age[d])
      BY <1>7 DEF Tick
    <2>5. expires[d] = 0 \/ expires[d] = 1
      BY <2>3, <2>4 DEF Less
    <2>6. CASE expires[d] = 0
      BY <1>7, <2>1, <2>6, <2>2 DEF Tick, UpTo
    <2>7. CASE expires[d] = 1
      <3>1. age[d] + 1 <= TypingTimeout
        BY <2>7 DEF ClocksAgree
      <3> QED
        BY <2>2, <2>3, <2>4, <3>1 DEF UpTo
    <2> QED
      BY <2>5, <2>6, <2>7
  <1>8. ASSUME NEW m \in wire, Lose(m) PROVE SweepIsNear'
    BY <1>1, <1>8 DEF Lose
  <1> QED
    BY <1>1, <1>2, <1>3, <1>4, <1>5, <1>6, <1>7, <1>8, SenderFrame DEF Next, vars

-----------------------------------------------------------------------------
(* A spell of typing. *)

LEMMA SpellSender ==
  ASSUME TypeOK, SpellIsCovered, NEW c \in Channels,
         OnTyping \/ StopTimerFires \/ OnStopTyping(c) \/ SwitchChannel(c)
  PROVE  SpellIsCovered'
  <1> USE DEF TypeOK, SpellIsCovered
  <1>1. CASE OnTyping
    <2>1. stopIn' = 3 /\ chan' = chan /\ stopIn # 0 /\ expires' = expires
      BY <1>1 DEF OnTyping, receiver
    <2>2. CASE StartIsDue /\ typing' = TRUE /\ sentAge' = 0
               /\ Post("start", chan)
               /\ prompt' = IF typing THEN prompt ELSE wire = {}
      <3>1. wire' = wire \cup {Request("start", chan)}
        BY <2>2 DEF Post
      <3>2. prompt' => wire = {}
        <4>1. CASE typing
          BY <2>2, <4>1 DEF StartIsDue
        <4>2. CASE ~typing
          BY <2>2, <4>2
        <4> QED
          BY <4>1, <4>2
      <3>3. SUFFICES ASSUME prompt' PROVE SpellIsCovered'
        OBVIOUS
      <3>4. wire' = {Request("start", chan)}
        BY <3>1, <3>2, <3>3
      <3>5. \A m \in wire' : m.kind = "start" /\ m.chan = chan
        BY <3>4 DEF Request
      <3> QED
        BY <2>1, <2>2, <3>4, <3>5
    <2>3. CASE ~StartIsDue /\ UNCHANGED <<typing, sentAge, wire, prompt>>
      <3>1. typing /\ sentAge \in 0..TypingThrottle
        BY <2>3 DEF StartIsDue
      <3>2. ASSUME prompt', wire' = {}
            PROVE  expires[chan] >= TypingTimeout - sentAge
        BY <2>3, <3>1, <3>2
      <3>3. expires[chan] \in Off..TypingTimeout
        OBVIOUS
      <3>4. ASSUME prompt', wire' = {}
            PROVE  expires[chan] >= 3
        BY <3>1, <3>2, <3>3, <3>4
      <3>5. prompt' => \A m \in wire' : m.kind = "start" /\ m.chan = chan' /\ sentAge' = 0
        BY <2>1, <2>3, <3>1
      <3>6. stopIn' # Off
        BY <2>1
      <3>7. sentAge' = sentAge
        BY <2>3
      <3> QED
        BY <2>1, <3>2, <3>4, <3>5, <3>6, <3>7
    <2> QED
      BY <1>1, <2>2, <2>3 DEF OnTyping
  <1>2. CASE StopTimerFires
    BY <1>2 DEF StopTimerFires, StopIfTyping
  <1>3. CASE OnStopTyping(c)
    BY <1>3 DEF OnStopTyping, StopIfTyping
  <1>4. CASE SwitchChannel(c)
    BY <1>4 DEF SwitchChannel
  <1> QED
    BY <1>1, <1>2, <1>3, <1>4

LEMMA SpellStep ==
  ASSUME TypeOK, SpellIsCovered, [Next]_vars
  PROVE  SpellIsCovered'
  <1> USE DEF TypeOK, SpellIsCovered
  <1>1. CASE UNCHANGED <<sender, wire, expires, prompt>>
    BY <1>1 DEF sender
  <1>2. ASSUME NEW m \in wire, Arrive(m) PROVE SpellIsCovered'
    <2> SUFFICES ASSUME typing, prompt PROVE SpellIsCovered'
      BY <1>2 DEF Arrive, sender
    <2>1. UNCHANGED <<chan, sentAge, stopIn>> /\ wire' \subseteq wire
      BY <1>2 DEF Arrive, sender
    <2>2. m.kind = "start" /\ m.chan = chan /\ sentAge = 0
      OBVIOUS
    <2>3. expires'[chan] = TypingTimeout
      BY <1>2, <2>2 DEF Arrive, Expiry
    <2>4. \A n \in wire' : n.kind = "start" /\ n.chan = chan' /\ sentAge' = 0
      BY <2>1
    <2>5. stopIn' # Off
      BY <2>1
    <2>6. sentAge' <= TypingThrottle => expires'[chan'] >= TypingTimeout - sentAge'
      BY <2>1, <2>2, <2>3
    <2>7. stopIn' > 0 => expires'[chan'] >= stopIn'
      BY <2>1, <2>3
    <2> QED
      BY <2>4, <2>5, <2>6, <2>7
  <1>3. CASE SweepFires
    <2> SUFFICES ASSUME typing, prompt PROVE SpellIsCovered'
      BY <1>3 DEF SweepFires, sender
    <2>1. UNCHANGED <<chan, sentAge, stopIn, wire>>
      BY <1>3 DEF SweepFires, sender
    <2>2. expires'[chan] = IF expires[chan] > 0 THEN expires[chan] ELSE Off
      BY <1>3 DEF SweepFires, Swept
    <2>3. expires[chan] \in Off..TypingTimeout
      OBVIOUS
    <2>4. ASSUME wire = {}, sentAge <= TypingThrottle
          PROVE  expires'[chan] >= TypingTimeout - sentAge
      BY <2>2, <2>3, <2>4
    <2>5. ASSUME wire = {}, stopIn > 0
          PROVE  expires'[chan] >= stopIn
      BY <2>2, <2>3, <2>5
    <2> QED
      BY <2>1, <2>4, <2>5
  <1>4. CASE ToggleBadge
    BY <1>1, <1>4 DEF ToggleBadge
  <1>5. CASE ClearPresence
    BY <1>5 DEF ClearPresence
  <1>6. ASSUME NEW c \in Channels \cup {Nowhere}, Watch(c) PROVE SpellIsCovered'
    BY <1>1, <1>6 DEF Watch
  <1>7. CASE Tick
    <2> SUFFICES ASSUME typing, prompt, wire = {} PROVE SpellIsCovered'
      BY <1>7 DEF Tick
    <2>1. chan' = chan /\ wire' = {} /\ stopIn # 0 /\ stopIn' = Less(stopIn)
          /\ sentAge' = UpTo(TypingThrottle + 1, sentAge)
      BY <1>7 DEF Tick
    <2>2. expires'[chan] = Less(expires[chan])
      BY <1>7 DEF Tick
    <2>3. expires[chan] \in Off..TypingTimeout
      OBVIOUS
    <2>4. stopIn \in 1..TypingStopDelay
      BY <2>1
    <2>5. stopIn' = stopIn - 1
      BY <2>1, <2>4 DEF Less
    <2>6. expires[chan] >= stopIn
      BY <2>4
    <2>7. expires'[chan] = expires[chan] - 1
      BY <2>2, <2>3, <2>4, <2>6 DEF Less
    <2>8. sentAge' <= TypingThrottle =>
            sentAge <= TypingThrottle /\ sentAge' = sentAge + 1
      BY <2>1 DEF UpTo
    <2>9. sentAge' <= TypingThrottle =>
            expires'[chan'] >= TypingTimeout - sentAge'
      BY <2>1, <2>3, <2>7, <2>8
    <2>10. stopIn' > 0 => expires'[chan'] >= stopIn'
      BY <2>1, <2>3, <2>4, <2>5, <2>6, <2>7
    <2>11. stopIn' # Off
      BY <2>4, <2>5
    <2> QED
      BY <2>1, <2>9, <2>10, <2>11
  <1>8. ASSUME NEW m \in wire, Lose(m) PROVE SpellIsCovered'
    BY <1>8 DEF Lose
  <1>9. chan \in Channels
    OBVIOUS
  <1> HIDE DEF TypeOK, SpellIsCovered
  <1>10. CASE UNCHANGED vars
    BY <1>1, <1>10 DEF vars, receiver
  <1>11. CASE OnTyping \/ StopTimerFires
    BY <1>9, <1>11, SpellSender
  <1>12. ASSUME NEW c \in Channels, OnStopTyping(c) \/ SwitchChannel(c)
         PROVE  SpellIsCovered'
    BY <1>12, SpellSender
  <1>13. CASE Next
    BY <1>2, <1>3, <1>4, <1>5, <1>6, <1>7, <1>8, <1>11, <1>12, <1>13 DEF Next
  <1> QED
    BY <1>10, <1>13

-----------------------------------------------------------------------------
(* The theorems. *)

LEMMA InitInductive == ASSUME Init PROVE IInv
  <1>1. TypeOK
    BY InitTyped
  <1> QED
    BY <1>1 DEF Init, IInv, ClocksAgree, SweepIsNear, SpellIsCovered

LEMMA StepInductive == ASSUME IInv, [Next]_vars PROVE IInv'
  BY StepTyped, ClocksStep, SweepStep, SpellStep DEF IInv

\* Every clock keeps its range, and what is under way is well formed.
THEOREM TypingTypeCorrect == Spec => []TypeOK
  <1>1. Init => TypeOK
    BY InitTyped
  <1>2. TypeOK /\ [Next]_vars => TypeOK'
    BY StepTyped
  <1> QED
    BY <1>1, <1>2, PTL DEF Spec

LEMMA TypingInvariant == Spec => []IInv
  <1>1. Init => IInv
    BY InitInductive
  <1>2. IInv /\ [Next]_vars => IInv'
    BY StepInductive
  <1> QED
    BY <1>1, <1>2, PTL DEF Spec

\* Lost and late requests, channel switches and a sweep that starts and stops
\* with its subscribers leave no indicator on the screen for longer than the
\* expiry and one sweep (presenceStore.ts).
THEOREM GhostsGo == Spec => []NoGhostTyper
  <1>1. IInv => NoGhostTyper
    <2> SUFFICES ASSUME IInv, NEW c \in Channels, watching = c,
                        expires[c] # Off, age[c] > TypingTimeout + SweepInterval
                 PROVE  watched <= SweepInterval
      BY DEF NoGhostTyper
    <2>1. expires[c] \in Off..TypingTimeout /\ age[c] \in 0..Longest
      BY DEF IInv, TypeOK
    <2>2. expires[c] = 0
      BY <2>1 DEF IInv, ClocksAgree
    <2>3. watched = 0 \/ watched <= SweepInterval \/ age[c] <= TypingTimeout
      BY <2>2 DEF IInv, SweepIsNear
    <2> QED
      BY <2>1, <2>3
  <1> QED
    BY <1>1, TypingInvariant, PTL

\* The sender's throttle and stop timer and the receiver's expiry fit together:
\* one who types on is shown (useTyping.ts, presenceStore.ts).
THEOREM TypistStaysShown == Spec => []TypistIsShown
  <1>1. IInv => TypistIsShown
    <2> SUFFICES ASSUME IInv, typing, stopIn # 0, prompt, wire = {}
                 PROVE  expires[chan] # Off
      BY DEF TypistIsShown
    <2>1. stopIn \in 1..TypingStopDelay
      BY DEF IInv, TypeOK, SpellIsCovered
    <2> QED
      BY <2>1 DEF IInv, SpellIsCovered
  <1> QED
    BY <1>1, TypingInvariant, PTL
=============================================================================
