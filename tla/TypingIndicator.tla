-------------------------- MODULE TypingIndicator --------------------------
(***************************************************************************)
(* The typing indicator from one user's keyboard to another's screen: the  *)
(* throttle and the stop timer of the sender (hooks/useTyping.ts), two     *)
(* kinds of requests that may be slow, lost or overtaken, and the          *)
(* receiver's store with its expiry and its lazy sweep                     *)
(* (stores/presenceStore.ts).                                              *)
(*                                                                         *)
(* Time is counted in seconds and every clock is kept as an age or as the  *)
(* time left, so that no bound on time is needed.  Timers are punctual.    *)
(* age, watched and prompt are history variables.                          *)
(***************************************************************************)
EXTENDS Integers, FiniteSets

CONSTANTS
    Channels,
    MaxDelay,  \* the longest a request and its event take, in seconds
    MaxWire    \* bound on the requests under way

Nowhere == "nowhere"

ASSUME TypingAssumption ==
    MaxDelay \in Nat /\ MaxWire \in Nat /\ Nowhere \notin Channels

TypingThrottle == 2
TypingStopDelay == 3
TypingTimeout == 5
SweepInterval == 1
Off == -1        \* a timer that is not armed, an entry that is not there

VARIABLES
    chan,     \* sender: the channel the composer is on
    typing,   \* sender: isTypingRef
    sentAge,  \* sender: the time since lastSentRef, up to past the throttle
    stopIn,   \* sender: the time left on stopTimeoutRef
    stopFor,  \* sender: the channel its callback was made for
    wire,     \* the requests under way, with the time they have left
    expires,  \* receiver: the time the channel's entry has left
    sweepIn,  \* receiver: the time left on cleanupTimer
    watching, \* receiver: the channel on the screen
    badge,    \* receiver: another component subscribes to the store
    age,      \* the time since a start last arrived for the channel
    watched,  \* the time the channel has been on the screen
    prompt    \* all that this spell of typing sent has arrived at once

sender == <<chan, typing, sentAge, stopIn, stopFor>>
receiver == <<expires, sweepIn, watching, badge>>
vars == <<sender, wire, receiver, age, watched, prompt>>

-----------------------------------------------------------------------------
(* The sender. *)

Request(kind, c) == [kind |-> kind, chan |-> c, left |-> MaxDelay]

\* Requests are a set: a second equal one under way changes nothing here.
Post(kind, c) == /\ Cardinality(wire) < MaxWire
                 /\ wire' = wire \cup {Request(kind, c)}

\* Mutant of StartIsDue: a spell of typing is announced only once.
StartIsDueOnce == ~typing

StartIsDue == ~typing \/ sentAge > TypingThrottle

\* onTyping: announce if it is due, and put off the stop.
OnTyping ==
    /\ stopIn # 0
    /\ stopIn' = TypingStopDelay /\ stopFor' = chan
    /\ \/ /\ StartIsDue
          /\ typing' = TRUE /\ sentAge' = 0
          /\ Post("start", chan)
          /\ prompt' = IF typing THEN prompt ELSE wire = {}
       \/ /\ ~StartIsDue
          /\ UNCHANGED <<typing, sentAge, wire, prompt>>
    /\ UNCHANGED <<chan, receiver, age, watched>>

StopIfTyping(c) ==
    /\ typing' = FALSE
    /\ IF typing THEN Post("stop", c) ELSE UNCHANGED wire

\* Three seconds without a key.
StopTimerFires ==
    /\ stopIn = 0
    /\ stopIn' = Off
    /\ StopIfTyping(stopFor)
    /\ UNCHANGED <<chan, sentAge, stopFor, receiver, age, watched, prompt>>

\* onStopTyping: a blur, or a send that has succeeded, perhaps on the channel
\* that was open when it was sent.
OnStopTyping(c) ==
    /\ stopIn' = Off
    /\ StopIfTyping(c)
    /\ UNCHANGED <<chan, sentAge, stopFor, receiver, age, watched, prompt>>

\* Another channel: the composer, its refs and its timer live on.
SwitchChannel(c) ==
    /\ c # chan
    /\ chan' = c
    /\ prompt' = FALSE
    /\ UNCHANGED <<typing, sentAge, stopIn, stopFor, wire, receiver, age, watched>>

-----------------------------------------------------------------------------
(* The network and the receiver's store. *)

\* Mutant of Expiry: a further start extends the entry instead of renewing it.
ExpiryExtended(left) == IF left = Off THEN TypingTimeout ELSE left + TypingTimeout

\* addTypingUser drops the user's older entry: the expiry starts over.
Expiry(left) == TypingTimeout

\* addTypingUser, or removeTypingUser.
Arrive(m) ==
    /\ m \in wire
    /\ wire' = wire \ {m}
    /\ expires' = [expires EXCEPT ![m.chan] =
                     IF m.kind = "start" THEN Expiry(@) ELSE Off]
    /\ age' = IF m.kind = "start" THEN [age EXCEPT ![m.chan] = 0] ELSE age
    /\ UNCHANGED <<sender, sweepIn, watching, badge, watched, prompt>>

\* The request failed, which the sender ignores, or the stream was down.
Lose(m) ==
    /\ m \in wire
    /\ wire' = wire \ {m}
    /\ prompt' = FALSE
    /\ UNCHANGED <<sender, receiver, age, watched>>

\* Mutant of Swept: the sweep keeps what has expired.
SweptNothing(left) == left

\* cleanupExpiredTyping keeps the entries that expire later than now.
Swept(left) == IF left > 0 THEN left ELSE Off

SweepFires ==
    /\ sweepIn = 0
    /\ sweepIn' = SweepInterval
    /\ expires' = [c \in Channels |-> Swept(expires[c])]
    /\ UNCHANGED <<sender, wire, watching, badge, age, watched, prompt>>

\* The sweep runs while anything subscribes, from the first subscription on.
Subscribers(listening) ==
    sweepIn' = IF ~listening THEN Off
               ELSE IF sweepIn = Off THEN SweepInterval ELSE sweepIn

Watch(c) ==
    /\ watching # c
    /\ watching' = c
    /\ watched' = 0
    /\ Subscribers(c # Nowhere \/ badge)
    /\ UNCHANGED <<sender, wire, expires, badge, age, prompt>>

ToggleBadge ==
    /\ badge' = ~badge
    /\ Subscribers(watching # Nowhere \/ badge')
    /\ UNCHANGED <<sender, wire, expires, watching, age, watched, prompt>>

\* clearPresence: the stream's clean-up on mobile.
ClearPresence ==
    /\ expires' = [c \in Channels |-> Off]
    /\ prompt' = FALSE
    /\ UNCHANGED <<sender, wire, sweepIn, watching, badge, age, watched>>

-----------------------------------------------------------------------------

Less(t) == IF t > 0 THEN t - 1 ELSE t
UpTo(limit, t) == IF t < limit THEN t + 1 ELSE t
Longest == TypingTimeout + SweepInterval + 1

\* A second passes: not past a timer that is due or a request at its limit.
Tick ==
    /\ stopIn # 0 /\ sweepIn # 0
    /\ \A m \in wire : m.left > 0
    /\ sentAge' = UpTo(TypingThrottle + 1, sentAge)
    /\ stopIn' = Less(stopIn)
    /\ sweepIn' = Less(sweepIn)
    /\ wire' = {[m EXCEPT !.left = @ - 1] : m \in wire}
    /\ expires' = [c \in Channels |-> Less(expires[c])]
    /\ age' = [c \in Channels |-> UpTo(Longest, age[c])]
    /\ watched' = UpTo(SweepInterval + 1, watched)
    /\ prompt' = (prompt /\ wire = {})
    /\ UNCHANGED <<chan, typing, stopFor, watching, badge>>

Init ==
    /\ chan \in Channels /\ typing = FALSE /\ sentAge = TypingThrottle + 1
    /\ stopIn = Off /\ stopFor = chan
    /\ wire = {}
    /\ expires = [c \in Channels |-> Off] /\ sweepIn = Off
    /\ watching = Nowhere /\ badge = FALSE
    /\ age = [c \in Channels |-> Longest] /\ watched = 0 /\ prompt = TRUE

Next ==
    \/ OnTyping \/ StopTimerFires
    \/ \E c \in Channels : OnStopTyping(c) \/ SwitchChannel(c)
    \/ \E m \in wire : Arrive(m) \/ Lose(m)
    \/ SweepFires \/ ToggleBadge \/ ClearPresence
    \/ \E c \in Channels \cup {Nowhere} : Watch(c)
    \/ Tick

Spec == Init /\ [][Next]_vars

-----------------------------------------------------------------------------

\* Types, and the ranges of the clocks.
TypeOK ==
    /\ {chan, stopFor} \subseteq Channels
    /\ {typing, badge, prompt} \subseteq BOOLEAN
    /\ sentAge \in 0..TypingThrottle + 1
    /\ stopIn \in Off..TypingStopDelay
    /\ wire \subseteq [kind : {"start", "stop"}, chan : Channels, left : 0..MaxDelay]
    /\ expires \in [Channels -> Off..TypingTimeout]
    /\ sweepIn \in Off..SweepInterval
    /\ watching \in Channels \cup {Nowhere}
    /\ age \in [Channels -> 0..Longest] /\ watched \in 0..SweepInterval + 1

\* Whatever was lost or came late, an indicator on the screen is no older than
\* its expiry and one sweep, unless the channel was opened within the last
\* sweep: with nobody subscribed, nothing sweeps the store.
NoGhostTyper ==
    \A c \in Channels :
        watching = c /\ expires[c] # Off /\ age[c] > TypingTimeout + SweepInterval
        => watched <= SweepInterval

\* A user who types without a gap of three seconds is shown all along, as long
\* as the requests arrive within the second and the composer stays on its
\* channel: the throttle is short enough for the expiry.
TypistIsShown ==
    typing /\ stopIn # 0 /\ prompt /\ wire = {} => expires[chan] # Off

-----------------------------------------------------------------------------
(* What makes the two inductive. *)

\* An entry that has not expired is as old as the time it has spent, and the
\* sweep runs while a channel is on the screen.
ClocksAgree ==
    /\ \A c \in Channels : expires[c] > 0 => age[c] + expires[c] <= TypingTimeout
    /\ watching # Nowhere => sweepIn # Off

\* No tick passes a sweep that is due: an expired entry on the screen waits for
\* its first one, or for the one of the second in which it expired.
SweepIsNear ==
    \A c \in Channels :
        watching = c /\ expires[c] = 0 =>
            \/ watched = 0
            \/ sweepIn = 0 /\ (watched <= SweepInterval \/ age[c] <= TypingTimeout)

\* In a prompt spell of typing nothing but its last start is under way; once it
\* has arrived the entry outlasts the throttle, and then the stop timer.
SpellIsCovered ==
    typing /\ prompt =>
        /\ stopIn # Off
        /\ \A m \in wire : m.kind = "start" /\ m.chan = chan /\ sentAge = 0
        /\ wire = {} =>
             /\ sentAge <= TypingThrottle => expires[chan] >= TypingTimeout - sentAge
             /\ stopIn > 0 => expires[chan] >= stopIn

IInv == TypeOK /\ ClocksAgree /\ SweepIsNear /\ SpellIsCovered
=============================================================================
