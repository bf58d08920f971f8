--------------------------- MODULE BanEnforcement ---------------------------
(***************************************************************************)
(* Bans and the event streams of the banned: the ban check every request   *)
(* passes, with its cache, in front of the handlers of SSEHub, and the     *)
(* BanUser handler, which disconnects the user through the hub.  Sources:  *)
(* server/internal/server/router.go (BanCheckMiddleware) and               *)
(* server/internal/handler/moderation.go.                                  *)
(***************************************************************************)
EXTENDS SSEHub

CONSTANT MaxBans  \* bound: bans of one user

ASSUME BanAssumption == MaxBans \in Nat

VARIABLES
    banned,    \* users with a row in workspace_bans
    banning,   \* how far the BanUser request about each user is
    banCache,  \* the cached verdict about each user
    check,     \* how far the ban check of each connection is
    other,     \* how far that of another request of each user is
    bans,      \* bans of each user so far
    late,      \* history: clients registered after their user's ban looked
    unchecked, \* history: clients let in because the check failed
    fresh,      \* history: clients whose verdict was read since their user's
    freshCache, \* last ban, users of whom the cached verdict was,
    freshOther  \* and users of whom the other request's was

history == <<unchecked, fresh, freshCache, freshOther>>
checkVars == <<banCache, check, other, history>>
banVars == <<banned, banning, bans, late, checkVars>>
vars == <<hubVars, banVars>>

BanPoints == {"none", "created", "announced", "closing", "returned"}
Verdicts == {"clear", "banned"}
CheckPoints == Verdicts \cup {"none", "asking"}

BanInit ==
    /\ Init
    /\ banned = {}
    /\ banning = [u \in Users |-> "none"]
    /\ banCache = [u \in Users |-> "none"]
    /\ check = [c \in Clients |-> "none"]
    /\ other = [u \in Users |-> "none"]
    /\ bans = [u \in Users |-> 0]
    /\ late = {}
    /\ unchecked = {}
    /\ fresh = {} /\ freshCache = {} /\ freshOther = {}

\* S with x if yes, without if not.
Mark(S, x, yes) == IF yes THEN S \cup {x} ELSE S \ {x}

Verdict(u) == IF u \in banned THEN "banned" ELSE "clear"

-----------------------------------------------------------------------------
(* BanCheckMiddleware in front of Handler.Events.                          *)

CacheHit(c) ==
    /\ check[c] = "none"
    /\ banCache[UserOf[c]] = "clear"
    /\ Connect(c)
    /\ fresh' = Mark(fresh, c, UserOf[c] \in freshCache)
    /\ UNCHANGED <<banned, banning, bans, late, banCache, check, other,
                   unchecked, freshCache, freshOther>>

CacheMiss(c) ==
    /\ handler[c] = "new"
    /\ check[c] = "none"
    /\ banCache[UserOf[c]] = "none"
    /\ check' = [check EXCEPT ![c] = "asking"]
    /\ UNCHANGED <<hubVars, banned, banning, bans, late, banCache, other,
                   history>>

\* GetActiveBan; the request goes on with what it has read.
ReadBan(c) ==
    /\ check[c] = "asking"
    /\ check' = [check EXCEPT ![c] = Verdict(UserOf[c])]
    /\ fresh' = fresh \cup {c}
    /\ UNCHANGED <<hubVars, banned, banning, bans, late, banCache, other,
                   unchecked, freshCache, freshOther>>

\* GetActiveBan fails: the request is let through, and nothing is cached.
ReadBanFails(c) ==
    /\ check[c] = "asking"
    /\ check' = [check EXCEPT ![c] = "none"]
    /\ Connect(c)
    /\ unchecked' = unchecked \cup {c}
    /\ UNCHANGED <<banned, banning, bans, late, banCache, other, fresh,
                   freshCache, freshOther>>

Store(c) ==
    /\ banCache' = [banCache EXCEPT ![UserOf[c]] = check[c]]
    /\ freshCache' = Mark(freshCache, UserOf[c], c \in fresh)
    /\ check' = [check EXCEPT ![c] = "none"]
    /\ UNCHANGED <<banned, banning, bans, late, other, unchecked, fresh,
                   freshOther>>

\* Mutants of StoreVerdict: it does not wait for the answer; it lets everyone
\* through.
StoreUnread(c) ==
    /\ handler[c] = "new"
    /\ check[c] # "none"
    /\ IF check[c] = "clear" THEN Connect(c) ELSE UNCHANGED hubVars
    /\ Store(c)

StoreAndAdmit(c) ==
    /\ handler[c] = "new"
    /\ check[c] \in Verdicts
    /\ Connect(c)
    /\ Store(c)

StoreVerdict(c) ==
    /\ handler[c] = "new"
    /\ check[c] \in Verdicts
    /\ IF check[c] = "clear" THEN Connect(c) ELSE UNCHANGED hubVars
    /\ Store(c)

(* Any other request of the user goes through the same check: it finds       *)
(* nothing cached, reads, fails to read, and stores.                         *)
OtherCheck(u, from, to) ==
    /\ other[u] = from
    /\ other' = [other EXCEPT ![u] = to]
    /\ UNCHANGED <<hubVars, banned, banning, bans, late, check, unchecked,
                   fresh>>

OtherMisses(u) ==
    /\ banCache[u] = "none"
    /\ OtherCheck(u, "none", "asking")
    /\ UNCHANGED <<banCache, freshCache, freshOther>>

OtherReads(u) ==
    /\ OtherCheck(u, "asking", Verdict(u))
    /\ freshOther' = freshOther \cup {u}
    /\ UNCHANGED <<banCache, freshCache>>

OtherFails(u) ==
    /\ OtherCheck(u, "asking", "none")
    /\ UNCHANGED <<banCache, freshCache, freshOther>>

OtherStores(u) ==
    /\ other[u] \in Verdicts
    /\ OtherCheck(u, other[u], "none")
    /\ banCache' = [banCache EXCEPT ![u] = other[u]]
    /\ freshCache' = Mark(freshCache, u, u \in freshOther)
    /\ freshOther' = freshOther \ {u}

\* Thirty seconds have passed.  Nothing else empties the cache: neither BanUser
\* nor UnbanUser calls InvalidateBanCache.
CacheExpires(u) ==
    /\ banCache[u] # "none"
    /\ banCache' = [banCache EXCEPT ![u] = "none"]
    /\ freshCache' = freshCache \ {u}
    /\ UNCHANGED <<hubVars, banned, banning, bans, late, check, other,
                   unchecked, fresh, freshOther>>

-----------------------------------------------------------------------------
(* BanUser and UnbanUser.                                                  *)

BanPoint(u, from, to) ==
    /\ banning[u] = from
    /\ banning' = [banning EXCEPT ![u] = to]

\* CreateBan refuses a user who is banned.  A ban is not begun while the
\* request of an earlier one, lifted meanwhile, is still under way.
CreateBan(u) ==
    /\ u \notin banned
    /\ banning[u] \in {"none", "returned"}
    /\ bans[u] < MaxBans
    /\ banned' = banned \cup {u}
    /\ banning' = [banning EXCEPT ![u] = "created"]
    /\ bans' = [bans EXCEPT ![u] = @ + 1]
    /\ late' = {c \in late : UserOf[c] # u}
    /\ fresh' = {c \in fresh : UserOf[c] # u}
    /\ freshCache' = freshCache \ {u}
    /\ freshOther' = freshOther \ {u}
    /\ UNCHANGED <<hubVars, banCache, check, other, unchecked>>

AnnounceBan(u) ==
    /\ BanPoint(u, "created", "announced")
    /\ Broadcast(Users)
    /\ UNCHANGED <<banned, bans, late, checkVars>>

\* The broadcast panics: the ban stands, and nobody is disconnected.
AnnounceBanPanics(u) ==
    /\ BanPoint(u, "created", "none")
    /\ BroadcastPanics(Users)
    /\ UNCHANGED <<banned, bans, late, checkVars>>

Disconnect(u) ==
    /\ BanPoint(u, "announced", "closing")
    /\ DisconnectUserClients(u)
    /\ UNCHANGED <<banned, bans, late, checkVars>>

BanReturns(u) ==
    /\ BanPoint(u, "closing", "returned")
    /\ \A c \in doomed : UserOf[c] # u
    /\ UNCHANGED <<hubVars, banned, bans, late, checkVars>>

\* DeleteBan, or the ban's end: the broadcast that follows changes nothing here.
UnbanUser(u) ==
    /\ u \in banned
    /\ banned' = banned \ {u}
    /\ UNCHANGED <<hubVars, banning, bans, late, checkVars>>

-----------------------------------------------------------------------------
(* A step of the hub, with the history of who registered too late to be     *)
(* seen by the ban of its user.                                             *)
HubWithHistory ==
    /\ HubStep
    /\ late' = late \cup {c \in registry' \ registry :
                             banning[UserOf[c]] \in {"closing", "returned"}}
    /\ UNCHANGED <<banned, banning, bans, checkVars>>

BanStep(u) ==
    \/ OtherMisses(u)
    \/ OtherReads(u)
    \/ OtherFails(u)
    \/ OtherStores(u)
    \/ CacheExpires(u)
    \/ CreateBan(u)
    \/ AnnounceBan(u)
    \/ AnnounceBanPanics(u)
    \/ Disconnect(u)
    \/ BanReturns(u)
    \/ UnbanUser(u)

CheckStep(c) == \/ CacheHit(c) \/ CacheMiss(c) \/ ReadBan(c)
                \/ ReadBanFails(c) \/ StoreVerdict(c)

BanNext ==
    /\ ~crashed
    /\ \/ \E u \in Users : BanStep(u)
       \/ \E c \in Clients : CheckStep(c)
       \/ \E c \in Clients : (StreamStep(c) \/ CloseDone(c)) /\ UNCHANGED banVars
       \/ HubWithHistory

BanSpec == BanInit /\ [][BanNext]_vars

\* The goroutines of the hub and of the streams are scheduled; nothing obliges a
\* moderator, a user or the cache to do anything.
FairBanSpec == BanSpec /\ HubFairness

-----------------------------------------------------------------------------
BanTypeOK ==
    /\ HubTypeOK
    /\ banned \subseteq Users
    /\ banning \in [Users -> BanPoints]
    /\ banCache \in [Users -> Verdicts \cup {"none"}]
    /\ check \in [Clients -> CheckPoints]
    /\ other \in [Users -> CheckPoints]
    /\ bans \in [Users -> 0..MaxBans]
    /\ late \subseteq Clients
    /\ unchecked \subseteq Clients
    /\ fresh \subseteq Clients /\ freshCache \subseteq Users
    /\ freshOther \subseteq Users

\* Streams that broadcasts reach and that a ban in force has not told to end.
Escaped == {c \in registry : /\ handler[c] = "streaming"
                             /\ c \notin done
                             /\ UserOf[c] \in banned
                             /\ banning[UserOf[c]] = "returned"}

\* A stream survives the ban of its user only if two things come together: it
\* was not yet in the registry when BanUser looked there, so that it was not
\* told to end like all others of the user; and it had passed the check of the
\* ban on a verdict read before that ban, by itself or by a request that left
\* it in the cache, or because the check had failed.  A ban that follows one
\* that was lifted is no different.
OnlyLateStreamsEscape ==
    \A c \in Escaped : c \in late /\ (c \notin fresh \/ c \in unchecked)

\* The strengthening: nobody is clear, for a request or in the cache, by what
\* was read since the ban in force; the handler runs after the check.
StaleIfClear(c) ==
    /\ check[c] # "none" => handler[c] = "new"
    /\ UserOf[c] \in banned /\ c \in fresh =>
           check[c] # "clear" /\ (handler[c] = "new" \/ c \in unchecked)
ClearIsStale(u) ==
    /\ u \in banned /\ u \in freshCache => banCache[u] # "clear"
    /\ u \in banned /\ u \in freshOther => other[u] # "clear"
VerdictsAreOld ==
    /\ \A c \in Clients : StaleIfClear(c)
    /\ \A u \in Users : ClearIsStale(u)
=============================================================================
