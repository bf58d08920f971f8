----------------------------- MODULE MemberCache -----------------------------
(***************************************************************************)
(* Who receives the events of a channel: the hub's cache of the channel's  *)
(* members against the channel_memberships table.  Sources:                *)
(* server/internal/sse/hub.go (AddChannelMember, RemoveChannelMember,      *)
(* getChannelMembers, BroadcastToChannel) and their callers in             *)
(* server/internal/handler/.                                               *)
(*                                                                         *)
(* One channel: the entries of different channels share nothing but the    *)
(* lock.  A SQL statement is a step, a critical section of Hub.mu is a     *)
(* step.  A delivery reads the entry itself, not a copy: getChannelMembers *)
(* returns the map that later updates write to.                            *)
(***************************************************************************)
EXTENDS Naturals

CONSTANTS
    ChannelUsers,
    Requests,   \* handler goroutines
    MayFail     \* whether statements may fail

ASSUME MemberAssumption == ChannelUsers # {} /\ MayFail \in BOOLEAN

VARIABLES
    members,   \* the rows of the channel in channel_memberships
    cached,    \* the hub has an entry for the channel
    cache,     \* that entry
    at,        \* control point of every request
    user,      \* whom a request adds or removes
    after,     \* where a request goes on after its broadcast
    result,    \* the members a request has read
    complete,  \* its query ran to the end
    astray     \* history: the entry was made, updated or left against the table

memberVars == <<members, cached, cache, at, user, after, result, complete, astray>>

\* A channel's leaver is removed from the cache before the broadcast, a
\* workspace's leaver after it ("removeLast").
Broadcasting == {"lookup", "query", "fill", "deliver"}
Points == {"idle", "add", "remove", "removeLast"} \cup Broadcasting

Nobody == CHOOSE u \in ChannelUsers : TRUE

MemberInit ==
    /\ members \in SUBSET ChannelUsers
    /\ cached = FALSE
    /\ cache = {}
    /\ at = [r \in Requests |-> "idle"]
    /\ user = [r \in Requests |-> Nobody]
    /\ after = [r \in Requests |-> "idle"]
    /\ result = [r \in Requests |-> {}]
    /\ complete = [r \in Requests |-> TRUE]
    /\ astray = FALSE

\* The request is still to update the cache for the user whose row it changed.
Owes(r, u) ==
    /\ user[r] = u
    /\ \/ at[r] \in {"add", "remove", "removeLast"}
       \/ at[r] \in Broadcasting /\ after[r] = "removeLast"

Pending(u) == \E r \in Requests : Owes(r, u)

Begin(r, u, point, next) ==
    /\ at[r] = "idle"
    /\ at' = [at EXCEPT ![r] = point]
    /\ user' = [user EXCEPT ![r] = u]
    /\ after' = [after EXCEPT ![r] = next]

GoOn(r, from, to) ==
    /\ at[r] = from
    /\ at' = [at EXCEPT ![r] = to]

-----------------------------------------------------------------------------
(* The handlers that change the table.                                     *)

\* CreateChannel, CreateDM, JoinChannel, AddChannelMember and the automatic
\* joins; of a user who is a member already only JoinChannel goes on.
Join(r, u) ==
    /\ Begin(r, u, "add", "idle")
    /\ members' = members \cup {u}
    /\ UNCHANGED <<cached, cache, result, complete, astray>>

\* SendMessage joins its sender to a public channel and ignores a failure.
JoinFails(r, u) ==
    /\ MayFail
    /\ u \notin members
    /\ Begin(r, u, "add", "idle")
    /\ UNCHANGED <<members, cached, cache, result, complete, astray>>

\* AddMemberToDM commits the row and reads the channel again; when the read
\* fails the handler returns and the cache is never told.  That goes astray if
\* the rows without the user are in the entry or on their way to it.
JoinUntold(r, u) ==
    /\ MayFail
    /\ at[r] = "idle"
    /\ u \notin members
    /\ members' = members \cup {u}
    /\ astray' = (\/ astray
                  \/ cached
                  \/ \E q \in Requests : at[q] = "fill")
    /\ UNCHANGED <<cached, cache, at, user, after, result, complete>>

LeaveChannel(r, u) ==
    /\ u \in members
    /\ Begin(r, u, "remove", "idle")
    /\ members' = members \ {u}
    /\ UNCHANGED <<cached, cache, result, complete, astray>>

LeaveWorkspace(r, u) ==
    /\ u \in members
    /\ Begin(r, u, "lookup", "removeLast")
    /\ members' = members \ {u}
    /\ UNCHANGED <<cached, cache, result, complete, astray>>

\* A message, a typing indicator: anything that is broadcast to the channel.
Post(r) ==
    /\ Begin(r, Nobody, "lookup", "idle")
    /\ UNCHANGED <<members, cached, cache, result, complete, astray>>

-----------------------------------------------------------------------------
(* The hub.                                                                *)

\* Hub.AddChannelMember.  With no entry it makes one of this user alone, which
\* goes astray if there are members whom nobody is about to add.
CacheAdd(r) ==
    LET u == user[r] IN
    /\ GoOn(r, "add", "lookup")
    /\ cached' = TRUE
    /\ cache' = cache \cup {u}
    /\ astray' = (\/ astray
                  \/ u \notin members
                  \/ ~cached /\ \E v \in members \ {u} : ~Pending(v))
    /\ UNCHANGED <<members, user, after, result, complete>>

\* Hub.RemoveChannelMember.  With no entry it does nothing, which goes astray
\* if somebody is about to make an entry that holds the user.
CacheRemove(r) ==
    LET u == user[r] IN
    /\ GoOn(r, "remove", "lookup") \/ GoOn(r, "removeLast", "idle")
    /\ cache' = cache \ {u}
    /\ astray' = (\/ astray
                  \/ u \in members
                  \/ ~cached /\ \E q \in Requests :
                                    at[q] = "fill" /\ u \in result[q])
    /\ UNCHANGED <<members, cached, user, after, result, complete>>

\* getChannelMembers: the fast path, else the query, without any lock, and
\* then the entry, unless there is one by now.
Lookup(r) ==
    /\ GoOn(r, "lookup", IF cached THEN "deliver" ELSE "query")
    /\ UNCHANGED <<members, cached, cache, user, after, result, complete, astray>>

\* An error of the query or of a row is not returned: what was read is used.
Query(r) ==
    /\ GoOn(r, "query", "fill")
    /\ \/ /\ result' = [result EXCEPT ![r] = members]
          /\ complete' = [complete EXCEPT ![r] = TRUE]
       \/ /\ MayFail
          /\ \E part \in SUBSET members : result' = [result EXCEPT ![r] = part]
          /\ complete' = [complete EXCEPT ![r] = FALSE]
    /\ UNCHANGED <<members, cached, cache, user, after, astray>>

\* Mutant of Fill: the entry that is there by now is replaced.
FillAnyway(r) ==
    /\ GoOn(r, "fill", "deliver")
    /\ cached' = TRUE
    /\ cache' = result[r]
    /\ astray' = (astray \/ ~complete[r])
    /\ UNCHANGED <<members, user, after, result, complete>>

Fill(r) ==
    /\ GoOn(r, "fill", "deliver")
    /\ cached' = TRUE
    /\ cache' = IF cached THEN cache ELSE result[r]
    /\ astray' = (astray \/ (~cached /\ ~complete[r]))
    /\ UNCHANGED <<members, user, after, result, complete>>

\* Mutant of Deliver: the request does not return to its handler.
DeliverAndStop(r) ==
    /\ GoOn(r, "deliver", "done")
    /\ result' = [result EXCEPT ![r] = {}]
    /\ UNCHANGED <<members, cached, cache, user, after, complete, astray>>

\* The event is sent to the connections of the users in the entry.
Deliver(r) ==
    /\ GoOn(r, "deliver", after[r])
    /\ result' = [result EXCEPT ![r] = {}]
    /\ UNCHANGED <<members, cached, cache, user, after, complete, astray>>

\* A broadcast panics at the closed channel of a client it has overtaken, and
\* the handler's request ends.  Of a workspace's leaver that skips the update
\* of this channel's entry, also when the broadcast was an earlier channel's.
DeliverPanics(r) ==
    /\ MayFail
    /\ \/ GoOn(r, "deliver", "idle")
       \/ after[r] = "removeLast" /\ GoOn(r, "lookup", "idle")
    /\ result' = [result EXCEPT ![r] = {}]
    /\ astray' = (astray \/ after[r] = "removeLast")
    /\ UNCHANGED <<members, cached, cache, user, after, complete>>

\* The server stops and starts: the table stays, the rest is gone.
Restart ==
    /\ cached' = FALSE
    /\ cache' = {}
    /\ at' = [r \in Requests |-> "idle"]
    /\ user' = [r \in Requests |-> Nobody]
    /\ after' = [r \in Requests |-> "idle"]
    /\ result' = [r \in Requests |-> {}]
    /\ complete' = [r \in Requests |-> TRUE]
    /\ astray' = FALSE
    /\ UNCHANGED members

-----------------------------------------------------------------------------
TableStep(r, u) ==
    \/ Join(r, u)
    \/ JoinFails(r, u)
    \/ JoinUntold(r, u)
    \/ LeaveChannel(r, u)
    \/ LeaveWorkspace(r, u)

MemberStep(r) ==
    \/ CacheAdd(r)
    \/ CacheRemove(r)
    \/ Lookup(r)
    \/ Query(r)
    \/ Fill(r)
    \/ Deliver(r)
    \/ DeliverPanics(r)

MemberNext ==
    \/ \E r \in Requests : MemberStep(r) \/ Post(r)
    \/ \E r \in Requests, u \in ChannelUsers : TableStep(r, u)
    \/ Restart

MemberSpec == MemberInit /\ [][MemberNext]_memberVars

-----------------------------------------------------------------------------
TypeOK ==
    /\ members \in SUBSET ChannelUsers
    /\ cached \in BOOLEAN
    /\ cache \in SUBSET ChannelUsers
    /\ at \in [Requests -> Points]
    /\ user \in [Requests -> ChannelUsers]
    /\ after \in [Requests -> {"idle", "removeLast"}]
    /\ result \in [Requests -> SUBSET ChannelUsers]
    /\ complete \in [Requests -> BOOLEAN]
    /\ astray \in BOOLEAN

(* The entry names exactly the members, but for users about whom a request  *)
(* is still to update it, unless an entry was made of a joiner alone, made  *)
(* from a query that failed or that a removal overtook, or updated against  *)
(* the table, or an update was left out because a handler gave up between   *)
(* the row and the entry.  Concurrent queries, joins and leaves do no other *)
(* harm.                                                                    *)
CacheExactUnlessAstray ==
    cached /\ ~astray =>
        \A u \in ChannelUsers : Pending(u) \/ (u \in cache <=> u \in members)

(* The strengthening: what a request has read and not yet entered differs   *)
(* from the table, for users with nothing pending, only where the entry     *)
(* that makes the read useless is already there.                            *)
NoEntryEmpty == ~cached => cache = {}
ReadsFresh ==
    ~cached /\ ~astray =>
        \A r \in Requests, u \in ChannelUsers :
            at[r] = "fill" /\ complete[r] =>
                Pending(u) \/ (u \in result[r] <=> u \in members)

IInv == TypeOK /\ NoEntryEmpty /\ CacheExactUnlessAstray /\ ReadsFresh

-----------------------------------------------------------------------------
(* hub.go:323: the entry that another goroutine has made "may be more       *)
(* up-to-date" than the query's answer.  With no request under way, every   *)
(* member is in it and receives the channel's events.  The code does not    *)
(* keep this (README, section 4).                                           *)
MembersReceive ==
    cached /\ (\A r \in Requests : at[r] = "idle") => members \subseteq cache
=============================================================================
