------------------------------ MODULE Workspaces ------------------------------
(***************************************************************************)
(* The members of one workspace: their roles, one invite, and the rows of  *)
(* its default channel.  Every request reads before it writes, each read a *)
(* statement of its own; only LeaveWorkspace and an owner's demotion of    *)
(* herself put a check and a write into one transaction.  Sources:         *)
(* server/internal/workspace/repository.go, server/internal/handler/       *)
(* workspace.go, and the joins of server/internal/handler/channel.go.      *)
(***************************************************************************)
EXTENDS Naturals, FiniteSets

CONSTANTS
    Users,
    Requests,     \* request goroutines, each used again and again
    NoUser,
    MaxUses,      \* the max_uses of the invite
    InviteLevel,  \* the setting who_can_create_invites
    AskedRoles,   \* bound: the roles asked for, in invites and changes of role
    MaxFaults     \* bound: joins that are given up halfway

Roles == {"owner", "admin", "member", "guest"}
InviteRoles == Roles \ {"owner"}
RoleRank == [owner |-> 4, admin |-> 3, member |-> 2, guest |-> 1]
Managers == {"owner", "admin"}
CanManageMembers(rank) == rank \in Managers
CanChangeRole(rank) == rank \in Managers
Permitted == [everyone |-> Roles, members |-> Roles \ {"guest"},
              admins |-> Managers]
HasPermission(rank, level) == rank \in Permitted[level]

ASSUME WorkspaceAssumption ==
    /\ IsFiniteSet(Users)
    /\ IsFiniteSet(Requests)
    /\ NoUser \notin Users
    /\ MaxUses \in Nat \ {0}
    /\ MaxFaults \in Nat
    /\ InviteLevel \in DOMAIN Permitted
    /\ AskedRoles \subseteq Roles

VARIABLES
    role,        \* workspace_memberships: each user's role, or "none"
    general,     \* channel_memberships of the default channel
    inviteRole,  \* workspace_invites: what the one invite gives, while it does
    useCount,
    at,          \* the point each request has reached
    actor,       \* who makes it
    target,      \* about whom
    value,       \* the role it has read, or is going to write
    faults,      \* joins given up halfway so far
    stale,       \* history: requests during which another one changed a role
    joined,      \* history: members the invite has brought
    peak,        \* history: the most requests that used the invite at once
    strayed,     \* history: who kept or got a channel without the workspace
    missed       \* history: who joined by a request that was given up

invite == <<inviteRole, useCount>>
request == <<at, actor, target, value>>
history == <<stale, joined, peak, strayed, missed>>
vars == <<role, general, invite, request, faults, history>>

Owners == {u \in Users : role[u] = "owner"}
Members == {u \in Users : role[u] # "none"}
Accepting == {r \in Requests : at[r] \in {"joining", "counting"}}

Points == {"idle", "ranking", "reading", "owners", "deleting", "leaving",
           "comparing", "demoting", "assigning", "inviting", "joining",
           "counting", "entering", "adding"}

\* A workspace that has lived for a while: it has an owner, and every member is
\* in the default channel.
Init ==
    /\ role \in [Users -> Roles \cup {"none"}]
    /\ Owners # {}
    /\ general = Members
    /\ inviteRole = "none"
    /\ useCount = 0
    /\ at = [r \in Requests |-> "idle"]
    /\ actor = [r \in Requests |-> NoUser]
    /\ target = [r \in Requests |-> NoUser]
    /\ value = [r \in Requests |-> "none"]
    /\ faults = 0
    /\ stale = {}
    /\ joined = 0
    /\ peak = 0
    /\ strayed = {}
    /\ missed = {}

-----------------------------------------------------------------------------
Begin(r, point, a, u, v) ==
    /\ at[r] = "idle"
    /\ at' = [at EXCEPT ![r] = point]
    /\ actor' = [actor EXCEPT ![r] = a]
    /\ target' = [target EXCEPT ![r] = u]
    /\ value' = [value EXCEPT ![r] = v]

\* The request goes on, with v for what it will need later.
Goto(r, point, v) ==
    /\ at' = [at EXCEPT ![r] = point]
    /\ value' = [value EXCEPT ![r] = v]
    /\ UNCHANGED <<actor, target>>

Return(r) ==
    /\ at' = [at EXCEPT ![r] = "idle"]
    /\ actor' = [actor EXCEPT ![r] = NoUser]
    /\ target' = [target EXCEPT ![r] = NoUser]
    /\ value' = [value EXCEPT ![r] = "none"]

Others(r) == {q \in Requests \ {r} : at[q] # "idle"}

\* The request returns without having written anything.
Refuse(r) ==
    /\ Return(r)
    /\ stale' = stale \ {r}
    /\ UNCHANGED <<role, general, invite, faults, joined, peak, strayed, missed>>

\* The request writes the target's role and returns.
SetRole(r, rank) ==
    /\ role' = [role EXCEPT ![target[r]] = rank]
    /\ Return(r)
    /\ stale' = (stale \ {r}) \cup Others(r)

ReadOnly == UNCHANGED <<role, general, invite, faults, history>>

-----------------------------------------------------------------------------
(* RemoveWorkspaceMember, of oneself or of another.                        *)

BeginRemove(r, a, u) ==
    /\ a \in Members
    /\ a = u \/ CanManageMembers(role[a])
    /\ IF a = u THEN Begin(r, "reading", a, u, "none")
                ELSE Begin(r, "ranking", a, u, role[a])
    /\ ReadOnly

\* The target must be of strictly lower rank.
CheckRank(r) ==
    /\ at[r] = "ranking"
    /\ IF target[r] \in Members /\ RoleRank[value[r]] > RoleRank[role[target[r]]]
       THEN Goto(r, "reading", "none") /\ ReadOnly
       ELSE Refuse(r)

\* Repository.RemoveMember reads the target's role once more.
ReadRole(r) ==
    /\ at[r] = "reading"
    /\ IF target[r] \in Members
       THEN /\ Goto(r, IF target[r] \in Owners THEN "owners" ELSE "deleting", "none")
            /\ ReadOnly
       ELSE Refuse(r)

CountOwners(r) ==
    /\ at[r] = "owners"
    /\ IF Cardinality(Owners) > 1
       THEN Goto(r, "deleting", "none") /\ ReadOnly
       ELSE Refuse(r)

\* The channel memberships stay.
Delete(r) ==
    /\ at[r] = "deleting"
    /\ SetRole(r, "none")
    /\ strayed' = strayed \cup (general \cap {target[r]})
    /\ UNCHANGED <<general, invite, faults, joined, peak, missed>>

-----------------------------------------------------------------------------
(* LeaveWorkspace: the role is read before the transaction begins.         *)

BeginLeave(r, u) ==
    /\ u \in Members
    /\ Begin(r, "leaving", u, u, role[u])
    /\ ReadOnly

\* Mutant of CommitLeave: the channel memberships stay.
CommitLeaveOnly(r) ==
    /\ at[r] = "leaving"
    /\ IF value[r] = "owner" /\ Cardinality(Owners) <= 1
       THEN Refuse(r)
       ELSE /\ SetRole(r, "none")
            /\ UNCHANGED <<general, invite, faults, joined, peak, strayed, missed>>

CommitLeave(r) ==
    /\ at[r] = "leaving"
    /\ IF value[r] = "owner" /\ Cardinality(Owners) <= 1
       THEN Refuse(r)
       ELSE /\ SetRole(r, "none")
            /\ general' = general \ {target[r]}
            /\ strayed' = strayed \ {target[r]}
            /\ UNCHANGED <<invite, faults, joined, peak, missed>>

-----------------------------------------------------------------------------
(* UpdateWorkspaceMemberRole.                                              *)

BeginChange(r, a, u, rank) ==
    /\ a \in Members
    /\ CanChangeRole(role[a])
    /\ rank = "owner" => role[a] = "owner"
    /\ ~(role[a] = "admin" /\ rank = "admin")
    /\ Begin(r, "comparing", a, u, rank)
    /\ ReadOnly

SelfDemotion(r) == actor[r] = target[r] /\ target[r] \in Owners /\ value[r] # "owner"

\* Mutant of ReadTarget: an owner's role can be changed by another.
ReadTargetAny(r) ==
    /\ at[r] = "comparing"
    /\ IF target[r] \in Members
       THEN /\ Goto(r, IF SelfDemotion(r) THEN "demoting" ELSE "assigning", value[r])
            /\ ReadOnly
       ELSE Refuse(r)

\* The role of another owner is not changed; one's own is in a transaction.
ReadTarget(r) ==
    /\ at[r] = "comparing"
    /\ IF target[r] \in Members /\ (target[r] \in Owners => actor[r] = target[r])
       THEN /\ Goto(r, IF SelfDemotion(r) THEN "demoting" ELSE "assigning", value[r])
            /\ ReadOnly
       ELSE Refuse(r)

\* Mutant of Demote: the owners are not counted.
DemoteUncounted(r) ==
    /\ at[r] = "demoting"
    /\ IF target[r] \in Members
       THEN /\ SetRole(r, value[r])
            /\ UNCHANGED <<general, invite, faults, joined, peak, strayed, missed>>
       ELSE Refuse(r)

Demote(r) ==
    /\ at[r] = "demoting"
    /\ IF target[r] \in Members /\ Cardinality(Owners) > 1
       THEN /\ SetRole(r, value[r])
            /\ UNCHANGED <<general, invite, faults, joined, peak, strayed, missed>>
       ELSE Refuse(r)

\* UpdateMemberRole: an UPDATE of whatever role the row has by now.
Assign(r) ==
    /\ at[r] = "assigning"
    /\ IF target[r] \in Members
       THEN /\ SetRole(r, value[r])
            /\ UNCHANGED <<general, invite, faults, joined, peak, strayed, missed>>
       ELSE Refuse(r)

-----------------------------------------------------------------------------
(* CreateWorkspaceInvite.  Bound: one invite.                              *)

MayInvite(r, a, rank) ==
    /\ inviteRole = "none"
    /\ \A q \in Requests : at[q] # "inviting"
    /\ a \in Members
    /\ HasPermission(role[a], InviteLevel)
    /\ rank = "admin" => CanManageMembers(role[a])

\* Mutant of BeginInvite: the role asked for is taken as it is.
BeginInviteAny(r, a, rank) ==
    /\ MayInvite(r, a, rank)
    /\ Begin(r, "inviting", a, a, rank)
    /\ ReadOnly

BeginInvite(r, a, rank) ==
    /\ MayInvite(r, a, rank)
    /\ Begin(r, "inviting", a, a, IF rank \in InviteRoles THEN rank ELSE "member")
    /\ ReadOnly

InsertInvite(r) ==
    /\ at[r] = "inviting"
    /\ inviteRole' = value[r]
    /\ Return(r)
    /\ stale' = stale \ {r}
    /\ UNCHANGED <<role, general, useCount, faults, joined, peak,
                   strayed, missed>>

ExpireInvite ==
    /\ inviteRole \in InviteRoles
    /\ inviteRole' = "expired"
    /\ UNCHANGED <<role, general, useCount, request, faults, history>>

-----------------------------------------------------------------------------
(* AcceptInvite, but for the direct messages it opens.                     *)

\* Mutant of ReadInvite: one use too many passes the check.
ReadInviteOffByOne(r, u) ==
    /\ inviteRole \in InviteRoles
    /\ useCount <= MaxUses
    /\ Begin(r, "joining", u, u, inviteRole)
    /\ peak' = IF Cardinality(Accepting) >= peak THEN Cardinality(Accepting) + 1
               ELSE peak
    /\ UNCHANGED <<role, general, invite, faults, stale, joined, strayed, missed>>

ReadInvite(r, u) ==
    /\ inviteRole \in InviteRoles
    /\ useCount < MaxUses
    /\ Begin(r, "joining", u, u, inviteRole)
    /\ peak' = IF Cardinality(Accepting) >= peak THEN Cardinality(Accepting) + 1
               ELSE peak
    /\ UNCHANGED <<role, general, invite, faults, stale, joined, strayed, missed>>

\* ErrMembershipExists is no error here: the use is counted all the same.
AddMember(r) ==
    /\ at[r] = "joining"
    /\ Goto(r, "counting", "none")
    /\ IF target[r] \in Members
       THEN UNCHANGED <<role, stale, joined, strayed>>
       ELSE /\ role' = [role EXCEPT ![target[r]] = value[r]]
            /\ stale' = stale \cup Others(r)
            /\ joined' = joined + 1
            /\ strayed' = strayed \ {target[r]}
    /\ UNCHANGED <<general, invite, faults, peak, missed>>

\* Mutant of IncrementInviteUseCount: the use is refused once there are enough.
IncrementInviteUseCountGuarded(r) ==
    /\ at[r] = "counting"
    /\ IF useCount < MaxUses
       THEN /\ useCount' = useCount + 1
            /\ Goto(r, "entering", "none")
            /\ UNCHANGED <<role, general, inviteRole, faults, history>>
       ELSE Refuse(r)

IncrementInviteUseCount(r) ==
    /\ at[r] = "counting"
    /\ useCount' = useCount + 1
    /\ Goto(r, "entering", "none")
    /\ UNCHANGED <<role, general, inviteRole, faults, history>>

-----------------------------------------------------------------------------
(* The default channel: entered at the end of AcceptInvite, by JoinChannel  *)
(* or the first message of a member who is not in it, or because           *)
(* AddChannelMember was asked to add somebody.                             *)

BeginJoin(r, u) ==
    /\ u \in Members
    /\ Begin(r, "adding", NoUser, u, "none")
    /\ ReadOnly

\* Who asks, and what she is, is read first and not used again.
BeginAdd(r, a, u) ==
    /\ a \in Members
    /\ CanManageMembers(role[a]) \/ a \in general
    /\ u \in Members
    /\ Begin(r, "adding", NoUser, u, "none")
    /\ ReadOnly

Enter(r) ==
    /\ at[r] \in {"entering", "adding"}
    /\ general' = general \cup {target[r]}
    /\ strayed' = IF target[r] \notin Members /\ r \in stale
                  THEN strayed \cup {target[r]} ELSE strayed
    /\ missed' = missed \ {target[r]}
    /\ Return(r)
    /\ stale' = stale \ {r}
    /\ UNCHANGED <<role, invite, faults, joined, peak>>

\* A statement fails, or the client has hung up and the context is cancelled,
\* before anything has been written,
GiveUp(r) ==
    /\ at[r] \notin {"idle", "counting", "entering"}
    /\ Refuse(r)

\* or when AcceptInvite has added the member.
GiveUpHalfway(r) ==
    /\ at[r] \in {"counting", "entering"}
    /\ faults < MaxFaults
    /\ faults' = faults + 1
    /\ missed' = missed \cup {target[r]}
    /\ Return(r)
    /\ stale' = stale \ {r}
    /\ UNCHANGED <<role, general, invite, joined, peak, strayed>>

-----------------------------------------------------------------------------
Asks(r) ==
    \E u \in Users :
        \/ BeginLeave(r, u)
        \/ ReadInvite(r, u)
        \/ BeginJoin(r, u)
        \/ \E rank \in AskedRoles : BeginInvite(r, u, rank)
        \/ \E a \in Users :
              \/ BeginRemove(r, a, u)
              \/ BeginAdd(r, a, u)
              \/ \E rank \in AskedRoles : BeginChange(r, a, u, rank)

Proceeds(r) ==
    \/ CheckRank(r) \/ ReadRole(r) \/ CountOwners(r) \/ Delete(r)
    \/ CommitLeave(r)
    \/ ReadTarget(r) \/ Demote(r) \/ Assign(r)
    \/ InsertInvite(r)
    \/ AddMember(r) \/ IncrementInviteUseCount(r) \/ Enter(r)
    \/ GiveUp(r) \/ GiveUpHalfway(r)

Next == ExpireInvite \/ \E r \in Requests : Asks(r) \/ Proceeds(r)

Spec == Init /\ [][Next]_vars

-----------------------------------------------------------------------------
TypeOK ==
    /\ role \in [Users -> Roles \cup {"none"}]
    /\ general \subseteq Users
    /\ inviteRole \in InviteRoles \cup {"none", "expired"}
    /\ useCount \in Nat
    /\ at \in [Requests -> Points]
    /\ actor \in [Requests -> Users \cup {NoUser}]
    /\ target \in [Requests -> Users \cup {NoUser}]
    /\ value \in [Requests -> Roles \cup {"none"}]
    /\ faults \in 0..MaxFaults
    /\ stale \subseteq Requests
    /\ joined \in Nat
    /\ peak \in Nat
    /\ strayed \subseteq Users
    /\ missed \subseteq Users

Writes(r) == at[r] # "idle" /\ at'[r] = "idle"

\* The owners are counted, in a transaction or not, so that one remains: the
\* last one goes only by a request during which another request changed a role.
LastOwnerGoesOnlyByARace ==
    [][Owners # {} /\ Owners' = {} => \E r \in stale : Writes(r)]_vars

\* Nobody but the owner herself ends her ownership, unless she became an owner
\* after the request about her had read what she was.
OwnersStandDown ==
    [][\A u \in Owners \ Owners' :
          \E r \in Requests : /\ Writes(r)
                              /\ target[r] = u
                              /\ actor[r] = u \/ r \in stale]_vars

\* The invite brings no more members than max_uses, plus one for each further
\* request that used it at the same time, and one for each that was given up.
InviteBringsItsUses == joined <= MaxUses + (peak - 1) + faults

\* Who is in the channel is in the workspace, but for members who were removed
\* by RemoveWorkspaceMember, and joins that a departure has overtaken.
ChannelMembersBelong == general \subseteq Members \cup strayed

\* Every member is in the default channel, which one cannot leave, unless the
\* request by which she joined is under way or was given up.
MembersReachGeneral ==
    \A u \in Members \ general :
        \/ u \in missed
        \/ \E r \in Requests : at[r] \in {"counting", "entering"} /\ target[r] = u

\* permissions.md:57: "At least one owner must always exist."  The code does
\* not keep this (README, section 4).
AlwaysAnOwner == Owners # {}
=============================================================================
