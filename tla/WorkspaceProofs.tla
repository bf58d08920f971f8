--------------------------- MODULE WorkspaceProofs ---------------------------
(***************************************************************************)
(* Theorems about Workspaces.  What a request has read stays true until    *)
(* another request changes a role; that makes it stale, and all that the   *)
(* checks promise is promised of the others.                               *)
(***************************************************************************)
EXTENDS Workspaces, FiniteSetTheorems, TLAPS

Counting == {r \in Requests : at[r] = "counting"}

\* What the point of a request says of its own variables.
Shape(r) ==
    /\ at[r] = "idle" \/ target[r] \in Users
    /\ at[r] = "ranking" => actor[r] # target[r] /\ value[r] \in Roles
    /\ at[r] \in {"comparing", "demoting", "assigning"} => value[r] \in Roles
    /\ at[r] \in {"joining", "inviting"} => value[r] \in InviteRoles
    /\ at[r] \in {"leaving", "demoting"} => actor[r] = target[r]

\* What a request that is not stale has found out, and still holds.
Fresh(r) ==
    /\ at[r] = "reading" => actor[r] = target[r] \/ role[target[r]] # "owner"
    /\ at[r] = "owners" => actor[r] = target[r]
    /\ at[r] = "deleting" => \/ role[target[r]] # "owner"
                             \/ actor[r] = target[r] /\ Cardinality(Owners) > 1
    /\ at[r] = "leaving" => value[r] = role[target[r]]
    /\ at[r] = "assigning" => role[target[r]] # "owner" \/ value[r] = "owner"
    /\ at[r] \in {"counting", "entering", "adding"} => target[r] \in Members

ReadsHold == \A r \in Requests : Shape(r) /\ (r \notin stale => Fresh(r))

UsesCounted ==
    /\ Cardinality(Accepting) <= peak
    /\ useCount + Cardinality(Accepting) <= MaxUses + peak - 1
    /\ joined <= useCount + Cardinality(Counting) + faults

IInv == TypeOK /\ ReadsHold

-----------------------------------------------------------------------------
(* Frames.                                                                 *)

LEMMA OwnersFinite ==
    /\ IsFiniteSet(Owners)
    /\ Cardinality(Owners) \in Nat
<1>1. IsFiniteSet(Users)  BY WorkspaceAssumption
<1>2. Owners \subseteq Users  BY DEF Owners
<1>3. IsFiniteSet(Owners)  BY <1>1, <1>2, FS_Subset
<1> QED  BY <1>3, FS_CardinalityType

\* A request keeps what it has found out through a step of another one that
\* either changes no role or makes it stale.
LEMMA ReadsFrame ==
    ASSUME NEW q \in Requests,
           Shape(q) /\ (q \notin stale => Fresh(q)),
           at'[q] = at[q], actor'[q] = actor[q],
           target'[q] = target[q], value'[q] = value[q],
           \/ at[q] = "idle"
           \/ q \in stale'
           \/ role' = role /\ (q \in stale => q \in stale')
    PROVE  Shape(q)' /\ (q \notin stale' => Fresh(q)')
<1>1. Shape(q)'  BY DEF Shape
<1>2. ASSUME q \notin stale' PROVE Fresh(q)'
  <2>1. CASE at[q] = "idle"  BY <2>1 DEF Fresh
  <2>2. CASE role' = role /\ (q \in stale => q \in stale')
    <3>1. Owners' = Owners /\ Members' = Members  BY <2>2 DEF Owners, Members
    <3>2. Fresh(q)  BY <1>2, <2>2
    <3> QED  BY <2>2, <3>1, <3>2 DEF Fresh
  <2> QED  BY <1>2, <2>1, <2>2
<1> QED  BY <1>1, <1>2

\* A request that has returned has nothing to hold.
LEMMA ReturnedHolds ==
    ASSUME NEW r \in Requests, TypeOK, Return(r)
    PROVE  Shape(r)' /\ Fresh(r)'
BY DEF TypeOK, Return, Shape, Fresh

LEMMA ReturnFrame ==
    ASSUME NEW r \in Requests, TypeOK, Return(r), NEW q \in Requests \ {r}
    PROVE  /\ at'[q] = at[q] /\ actor'[q] = actor[q]
           /\ target'[q] = target[q] /\ value'[q] = value[q]
BY DEF TypeOK, Return

LEMMA GotoFrame ==
    ASSUME NEW r \in Requests, NEW p, NEW v, TypeOK, Goto(r, p, v)
    PROVE  /\ at'[r] = p /\ value'[r] = v
           /\ actor' = actor /\ target' = target
           /\ \A q \in Requests \ {r} : at'[q] = at[q] /\ value'[q] = value[q]
BY DEF TypeOK, Goto

LEMMA BeginFrame ==
    ASSUME NEW r \in Requests, NEW p, NEW a, NEW u, NEW v, TypeOK,
           Begin(r, p, a, u, v)
    PROVE  /\ at'[r] = p /\ actor'[r] = a /\ target'[r] = u /\ value'[r] = v
           /\ \A q \in Requests \ {r} :
                 /\ at'[q] = at[q] /\ actor'[q] = actor[q]
                 /\ target'[q] = target[q] /\ value'[q] = value[q]
BY DEF TypeOK, Begin

-----------------------------------------------------------------------------
(* The four ways in which a request moves.                                 *)

LEMMA RefuseHolds ==
    ASSUME NEW r \in Requests, IInv, Refuse(r)
    PROVE  IInv'
<1> USE DEF IInv
<1>1. Return(r) /\ role' = role /\ stale' = stale \ {r}  BY DEF Refuse
<1>2. TypeOK'
  BY DEF TypeOK, Refuse, Return, Points, invite
<1>3. ASSUME NEW q \in Requests PROVE Shape(q)' /\ (q \notin stale' => Fresh(q)')
  <2>1. CASE q = r  BY <1>1, <2>1, ReturnedHolds
  <2>2. CASE q # r  BY <1>1, <2>2, ReturnFrame, ReadsFrame DEF ReadsHold
  <2> QED  BY <2>1, <2>2
<1> QED  BY <1>2, <1>3 DEF ReadsHold

LEMMA BeginHolds ==
    ASSUME NEW r \in Requests, NEW p \in Points, NEW a \in Users \cup {NoUser},
           NEW u \in Users, NEW v \in Roles \cup {"none"},
           IInv, Begin(r, p, a, u, v),
           UNCHANGED <<role, general, invite, faults, stale, joined, strayed, missed>>,
           peak' \in Nat,
           Shape(r)' /\ (r \notin stale' => Fresh(r)')
    PROVE  IInv'
<1> USE DEF IInv
<1>1. TypeOK'
  BY DEF TypeOK, Begin, invite
<1>2. ASSUME NEW q \in Requests PROVE Shape(q)' /\ (q \notin stale' => Fresh(q)')
  <2>1. CASE q = r  BY <2>1
  <2>2. CASE q # r  BY <2>2, BeginFrame, ReadsFrame DEF ReadsHold
  <2> QED  BY <2>1, <2>2
<1> QED  BY <1>1, <1>2 DEF ReadsHold

LEMMA GotoHolds ==
    ASSUME NEW r \in Requests, NEW p \in Points, NEW v \in Roles \cup {"none"},
           IInv, Goto(r, p, v), ReadOnly,
           Shape(r)' /\ (r \notin stale' => Fresh(r)')
    PROVE  IInv'
<1> USE DEF IInv
<1>1. TypeOK'
  BY DEF TypeOK, Goto, ReadOnly, invite, history
<1>2. ASSUME NEW q \in Requests PROVE Shape(q)' /\ (q \notin stale' => Fresh(q)')
  <2>1. CASE q = r  BY <2>1
  <2>2. CASE q # r
    BY <2>2, GotoFrame, ReadsFrame DEF ReadsHold, ReadOnly, history
  <2> QED  BY <2>1, <2>2
<1> QED  BY <1>1, <1>2 DEF ReadsHold

LEMMA SetRoleHolds ==
    ASSUME NEW r \in Requests, NEW rank \in Roles \cup {"none"},
           IInv, at[r] # "idle", SetRole(r, rank),
           UNCHANGED <<invite, faults, joined, peak, missed>>,
           general' \subseteq Users, strayed' \subseteq Users
    PROVE  IInv'
<1> USE DEF IInv
<1>1. target[r] \in Users  BY DEF ReadsHold, Shape
<1>2. Others(r) \subseteq Requests  BY DEF Others
<1>3. TypeOK'
  BY <1>1, <1>2 DEF TypeOK, SetRole, Return, Points, invite
<1>4. Return(r)  BY DEF SetRole
<1>5. ASSUME NEW q \in Requests PROVE Shape(q)' /\ (q \notin stale' => Fresh(q)')
  <2>1. CASE q = r  BY <1>4, <2>1, ReturnedHolds
  <2>2. CASE q # r
    <3>1. at[q] = "idle" \/ q \in stale'  BY <2>2 DEF SetRole, Others
    <3> QED  BY <1>4, <2>2, <3>1, ReturnFrame, ReadsFrame DEF ReadsHold
  <2> QED  BY <2>1, <2>2
<1> QED  BY <1>3, <1>5 DEF ReadsHold

-----------------------------------------------------------------------------
(* The actions, one by one.                                                *)

LEMMA Ranks ==
    ASSUME NEW v \in Roles, NEW x \in Roles, RoleRank[v] > RoleRank[x]
    PROVE  x # "owner"
<1> SUFFICES ASSUME x = "owner" PROVE FALSE  OBVIOUS
<1>1. RoleRank[x] = 4  BY DEF RoleRank
<1>2. RoleRank[v] \in 1..4  BY DEF RoleRank, Roles
<1> QED  BY <1>1, <1>2

LEMMA AsksHolds ==
    ASSUME NEW r \in Requests, IInv, Asks(r)
    PROVE  IInv'
<1>0. TypeOK  BY DEF IInv
<1>1. PICK u \in Users :
          \/ BeginLeave(r, u)
          \/ ReadInvite(r, u)
          \/ BeginJoin(r, u)
          \/ \E rank \in AskedRoles : BeginInvite(r, u, rank)
          \/ \E a \in Users :
                \/ BeginRemove(r, a, u)
                \/ BeginAdd(r, a, u)
                \/ \E rank \in AskedRoles : BeginChange(r, a, u, rank)
  BY DEF Asks
<1>2. role' = role /\ Members' = Members  
  BY <1>1 DEF BeginLeave, ReadInvite, BeginJoin, BeginInvite, BeginRemove, BeginAdd,
              BeginChange, ReadOnly, Members
<1>3. role[u] \in Roles \cup {"none"}  BY <1>0 DEF TypeOK
<1>4. CASE BeginLeave(r, u)
  <2>1. Begin(r, "leaving", u, u, role[u]) /\ ReadOnly  BY <1>4 DEF BeginLeave
  <2>2. Shape(r)' /\ Fresh(r)'
    BY <1>0, <1>2, <2>1, BeginFrame DEF Shape, Fresh
  <2>3. peak' \in Nat  BY <1>0, <2>1 DEF TypeOK, ReadOnly, history
  <2> QED  BY <1>3, <2>1, <2>2, <2>3, BeginHolds DEF Points, ReadOnly, history
<1>5. CASE ReadInvite(r, u)
  <2>1. Begin(r, "joining", u, u, inviteRole) /\ inviteRole \in InviteRoles
    BY <1>5 DEF ReadInvite
  <2>2. Shape(r)' /\ Fresh(r)'
    BY <1>0, <2>1, BeginFrame DEF Shape, Fresh
  <2>3. peak' \in Nat
    <3>1. IsFiniteSet(Accepting)
      BY WorkspaceAssumption, FS_Subset DEF Accepting
    <3>2. Cardinality(Accepting) \in Nat  BY <3>1, FS_CardinalityType
    <3> QED  BY <1>0, <1>5, <3>2 DEF TypeOK, ReadInvite
  <2>4. inviteRole \in Roles \cup {"none"}  BY <2>1 DEF InviteRoles
  <2> QED  BY <1>5, <2>1, <2>2, <2>3, <2>4, BeginHolds DEF Points, ReadInvite
<1>6. ASSUME u \in Members, Begin(r, "adding", NoUser, u, "none"), ReadOnly
      PROVE  IInv'
  <2>1. Shape(r)' /\ Fresh(r)'
    BY <1>0, <1>2, <1>6, BeginFrame DEF Shape, Fresh
  <2>2. peak' \in Nat  BY <1>0, <1>6 DEF TypeOK, ReadOnly, history
  <2> QED  BY <1>6, <2>1, <2>2, BeginHolds DEF Points, ReadOnly, history
<1>7. CASE BeginJoin(r, u)  BY <1>6, <1>7 DEF BeginJoin
<1>8. CASE \E rank \in AskedRoles : BeginInvite(r, u, rank)
  <2>1. PICK rank \in AskedRoles : BeginInvite(r, u, rank)  BY <1>8
  <2> DEFINE v == IF rank \in InviteRoles THEN rank ELSE "member"
  <2>2. Begin(r, "inviting", u, u, v) /\ ReadOnly  BY <2>1 DEF BeginInvite
  <2>3. v \in InviteRoles /\ v \in Roles \cup {"none"}  BY DEF InviteRoles, Roles
  <2> HIDE DEF v
  <2>4. Shape(r)' /\ Fresh(r)'
    BY <1>0, <2>2, <2>3, BeginFrame DEF Shape, Fresh
  <2>5. peak' \in Nat  BY <1>0, <2>2 DEF TypeOK, ReadOnly, history
  <2> QED  BY <2>2, <2>3, <2>4, <2>5, BeginHolds DEF Points, ReadOnly, history
<1>9. ASSUME NEW a \in Users, BeginRemove(r, a, u) PROVE IInv'
  <2>1. CASE a = u
    <3>1. Begin(r, "reading", a, u, "none") /\ ReadOnly  BY <1>9, <2>1 DEF BeginRemove
    <3>2. Shape(r)' /\ Fresh(r)'
      BY <1>0, <2>1, <3>1, BeginFrame DEF Shape, Fresh
    <3>3. peak' \in Nat  BY <1>0, <3>1 DEF TypeOK, ReadOnly, history
    <3> QED  BY <3>1, <3>2, <3>3, BeginHolds DEF Points, ReadOnly, history
  <2>2. CASE a # u
    <3>1. /\ Begin(r, "ranking", a, u, role[a]) /\ ReadOnly
          /\ role[a] \in Roles
      BY <1>0, <1>9, <2>2 DEF BeginRemove, Members, TypeOK
    <3>2. Shape(r)' /\ Fresh(r)'
      BY <1>0, <2>2, <3>1, BeginFrame DEF Shape, Fresh
    <3>3. peak' \in Nat  BY <1>0, <3>1 DEF TypeOK, ReadOnly, history
    <3> QED  BY <3>1, <3>2, <3>3, BeginHolds DEF Points, ReadOnly, history
  <2> QED  BY <2>1, <2>2
<1>10. ASSUME NEW a \in Users, BeginAdd(r, a, u) PROVE IInv'
  BY <1>6, <1>10 DEF BeginAdd
<1>11. ASSUME NEW a \in Users, NEW rank \in AskedRoles, BeginChange(r, a, u, rank)
       PROVE  IInv'
  <2>0. rank \in Roles  BY WorkspaceAssumption
  <2>1. Begin(r, "comparing", a, u, rank) /\ ReadOnly  BY <1>11 DEF BeginChange
  <2>2. Shape(r)' /\ Fresh(r)'
    BY <1>0, <2>0, <2>1, BeginFrame DEF Shape, Fresh
  <2>3. peak' \in Nat  BY <1>0, <2>1 DEF TypeOK, ReadOnly, history
  <2> QED  BY <2>0, <2>1, <2>2, <2>3, BeginHolds DEF Points, ReadOnly, history
<1> QED  BY <1>1, <1>4, <1>5, <1>7, <1>8, <1>9, <1>10, <1>11

LEMMA RemovalHolds ==
    ASSUME NEW r \in Requests, IInv,
           CheckRank(r) \/ ReadRole(r) \/ CountOwners(r) \/ Delete(r)
    PROVE  IInv'
<1>0. TypeOK /\ Shape(r) /\ (r \notin stale => Fresh(r))  BY DEF IInv, ReadsHold
<1>1. role[target[r]] \in Roles \cup {"none"} \/ at[r] = "idle"
  BY <1>0 DEF TypeOK, Shape
<1>2. CASE Refuse(r)  BY <1>2, RefuseHolds
<1>3. CASE CheckRank(r) /\ ~Refuse(r)
  <2>1. /\ Goto(r, "reading", "none") /\ ReadOnly
        /\ at[r] = "ranking" /\ target[r] \in Members
        /\ RoleRank[value[r]] > RoleRank[role[target[r]]]
    BY <1>3 DEF CheckRank
  <2>2. value[r] \in Roles /\ role[target[r]] \in Roles
    BY <1>0, <1>1, <2>1 DEF Shape, Members
  <2>3. role[target[r]] # "owner"  BY <2>1, <2>2, Ranks
  <2>4. Shape(r)' /\ Fresh(r)'
    BY <1>0, <2>1, <2>3, GotoFrame DEF Shape, Fresh, ReadOnly
  <2> QED  BY <2>1, <2>4, GotoHolds DEF Points
<1>4. CASE ReadRole(r) /\ ~Refuse(r)
  <2> DEFINE p == IF target[r] \in Owners THEN "owners" ELSE "deleting"
  <2>1. Goto(r, p, "none") /\ ReadOnly /\ at[r] = "reading"  BY <1>4 DEF ReadRole
  <2>2. p \in Points  BY DEF Points
  <2>3. target[r] \in Users  BY <1>0, <2>1 DEF Shape
  <2>4. stale' = stale /\ role' = role  BY <2>1 DEF ReadOnly, history
  <2>5. p = "owners" => role[target[r]] = "owner"  BY DEF Owners
  <2>6. p = "deleting" => role[target[r]] # "owner"  BY <2>3 DEF Owners
  <2>7. p \in {"owners", "deleting"}  OBVIOUS
  <2> HIDE DEF p
  <2>8. Shape(r)'  BY <1>0, <2>1, <2>3, <2>7, GotoFrame DEF Shape
  <2>9. r \notin stale' => Fresh(r)'
    BY <1>0, <2>1, <2>4, <2>5, <2>6, <2>7, GotoFrame DEF Fresh
  <2> QED  BY <2>1, <2>2, <2>8, <2>9, GotoHolds
<1>5. CASE CountOwners(r) /\ ~Refuse(r)
  <2>1. /\ Goto(r, "deleting", "none") /\ ReadOnly /\ at[r] = "owners"
        /\ Cardinality(Owners) > 1
    BY <1>5 DEF CountOwners
  <2>2. stale' = stale /\ role' = role /\ Owners' = Owners
    BY <2>1 DEF ReadOnly, history, Owners
  <2>3. Shape(r)'  BY <1>0, <2>1, GotoFrame DEF Shape
  <2>4. r \notin stale' => Fresh(r)'
    BY <1>0, <2>1, <2>2, GotoFrame DEF Fresh
  <2> QED  BY <2>1, <2>3, <2>4, GotoHolds DEF Points
<1>6. CASE Delete(r)
  <2>1. general' \subseteq Users /\ strayed' \subseteq Users
    BY <1>0, <1>6 DEF Delete, TypeOK
  <2> QED  BY <1>6, <2>1, SetRoleHolds DEF Delete
<1> QED  BY <1>2, <1>3, <1>4, <1>5, <1>6

LEMMA ChangeHolds ==
    ASSUME NEW r \in Requests, IInv,
           CommitLeave(r) \/ ReadTarget(r) \/ Demote(r) \/ Assign(r)
    PROVE  IInv'
<1>0. TypeOK /\ Shape(r) /\ (r \notin stale => Fresh(r))  BY DEF IInv, ReadsHold
<1>1. general \subseteq Users /\ strayed \subseteq Users  BY <1>0 DEF TypeOK
<1>2. CASE Refuse(r)  BY <1>2, RefuseHolds
<1>3. CASE CommitLeave(r) /\ ~Refuse(r)
  BY <1>1, <1>3, SetRoleHolds DEF CommitLeave
<1>4. CASE ReadTarget(r) /\ ~Refuse(r)
  <2> DEFINE p == IF SelfDemotion(r) THEN "demoting" ELSE "assigning"
  <2>1. /\ Goto(r, p, value[r]) /\ ReadOnly /\ at[r] = "comparing"
        /\ target[r] \in Owners => actor[r] = target[r]
    BY <1>4 DEF ReadTarget
  <2>2. p \in Points /\ p \in {"demoting", "assigning"}  BY DEF Points
  <2>3. target[r] \in Users /\ value[r] \in Roles  BY <1>0, <2>1 DEF Shape
  <2>4. role' = role  BY <2>1 DEF ReadOnly
  <2>5. p = "demoting" => actor[r] = target[r]  BY DEF SelfDemotion
  <2>6. p = "assigning" => role[target[r]] # "owner" \/ value[r] = "owner"
    BY <2>1, <2>3 DEF SelfDemotion, Owners
  <2> HIDE DEF p
  <2>7. Shape(r)'
    BY <1>0, <2>1, <2>2, <2>3, <2>5, GotoFrame DEF Shape
  <2>8. Fresh(r)'
    BY <1>0, <2>1, <2>2, <2>4, <2>6, GotoFrame DEF Fresh
  <2> QED  BY <2>1, <2>2, <2>3, <2>7, <2>8, GotoHolds
<1>5. ASSUME SetRole(r, value[r]), at[r] \in {"demoting", "assigning"},
             UNCHANGED <<general, invite, faults, joined, peak, strayed, missed>>
      PROVE  IInv'
  <2>1. value[r] \in Roles \cup {"none"}  BY <1>0, <1>5 DEF Shape
  <2> QED  BY <1>1, <1>5, <2>1, SetRoleHolds
<1>6. CASE Demote(r) /\ ~Refuse(r)  BY <1>5, <1>6 DEF Demote
<1>7. CASE Assign(r) /\ ~Refuse(r)  BY <1>5, <1>7 DEF Assign
<1> QED  BY <1>2, <1>3, <1>4, <1>6, <1>7

\* A request that has returned and has changed no role.
LEMMA ReturnHolds ==
    ASSUME NEW r \in Requests, IInv, Return(r), stale' = stale \ {r}, role' = role
    PROVE  ReadsHold'
<1> SUFFICES ASSUME NEW q \in Requests
             PROVE  Shape(q)' /\ (q \notin stale' => Fresh(q)')
  BY DEF ReadsHold
<1>0. TypeOK  BY DEF IInv
<1>1. CASE q = r  BY <1>0, <1>1, ReturnedHolds
<1>2. CASE q # r  BY <1>0, <1>2, ReturnFrame, ReadsFrame DEF ReadsHold, IInv
<1> QED  BY <1>1, <1>2

LEMMA JoinHolds ==
    ASSUME NEW r \in Requests, IInv,
           \/ InsertInvite(r) \/ AddMember(r) \/ IncrementInviteUseCount(r)
           \/ Enter(r) \/ GiveUp(r) \/ GiveUpHalfway(r)
    PROVE  IInv'
<1>0. TypeOK /\ Shape(r) /\ (r \notin stale => Fresh(r))  BY DEF IInv, ReadsHold
<1>1. CASE InsertInvite(r)
  <2>1. value[r] \in InviteRoles  BY <1>0, <1>1 DEF InsertInvite, Shape
  <2>2. TypeOK'
    BY <1>0, <1>1, <2>1 DEF TypeOK, InsertInvite, Return, Points
  <2> QED  BY <1>1, <2>2, ReturnHolds DEF IInv, InsertInvite
<1>2. CASE AddMember(r)
  <2>1. Goto(r, "counting", "none") /\ at[r] = "joining"  BY <1>2 DEF AddMember
  <2>2. target[r] \in Users /\ value[r] \in InviteRoles  BY <1>0, <2>1 DEF Shape
  <2>3. target[r] \in Members'
    BY <1>0, <1>2, <2>2 DEF AddMember, Members, InviteRoles, Roles, TypeOK
  <2>4. Others(r) \subseteq Requests  BY DEF Others
  <2>5. TypeOK'
    <3>1. CASE target[r] \in Members
      BY <1>0, <1>2, <2>1, <3>1 DEF AddMember, TypeOK, Goto, Points, invite
    <3>2. CASE target[r] \notin Members
      <4>1. role' \in [Users -> Roles \cup {"none"}]
        BY <1>0, <1>2, <2>2, <3>2 DEF AddMember, TypeOK, InviteRoles
      <4> QED
        BY <1>0, <1>2, <2>1, <2>4, <3>2, <4>1
        DEF AddMember, TypeOK, Goto, Points, invite
    <3> QED  BY <3>1, <3>2
  <2>6. Shape(r)'  BY <1>0, <2>1, <2>2, GotoFrame DEF Shape
  <2>7. Fresh(r)'  BY <1>0, <2>1, <2>3, GotoFrame DEF Fresh
  <2>8. ASSUME NEW q \in Requests, q # r
        PROVE  Shape(q)' /\ (q \notin stale' => Fresh(q)')
    <3>1. \/ at[q] = "idle"
          \/ q \in stale'
          \/ role' = role /\ (q \in stale => q \in stale')
      BY <1>2, <2>8 DEF AddMember, Others
    <3> QED  BY <1>0, <2>1, <2>8, <3>1, GotoFrame, ReadsFrame DEF IInv, ReadsHold
  <2> QED  BY <2>5, <2>6, <2>7, <2>8 DEF IInv, ReadsHold
<1>3. CASE IncrementInviteUseCount(r)
  <2>1. /\ Goto(r, "entering", "none") /\ at[r] = "counting"
        /\ role' = role /\ stale' = stale
    BY <1>3 DEF IncrementInviteUseCount, history
  <2>2. TypeOK'
    BY <1>0, <1>3 DEF TypeOK, IncrementInviteUseCount, Goto, Points, history
  <2>3. Members' = Members  BY <2>1 DEF Members
  <2>4. Shape(r)' /\ (r \notin stale' => Fresh(r)')
    BY <1>0, <2>1, <2>3, GotoFrame DEF Shape, Fresh
  <2>5. ASSUME NEW q \in Requests, q # r
        PROVE  Shape(q)' /\ (q \notin stale' => Fresh(q)')
    BY <1>0, <2>1, <2>5, GotoFrame, ReadsFrame DEF IInv, ReadsHold
  <2> QED  BY <2>2, <2>4, <2>5 DEF IInv, ReadsHold
<1>4. CASE Enter(r)
  <2>1. target[r] \in Users  BY <1>0, <1>4 DEF Enter, Shape
  <2>2. TypeOK'
    BY <1>0, <1>4, <2>1 DEF TypeOK, Enter, Return, Points, invite
  <2> QED  BY <1>4, <2>2, ReturnHolds DEF IInv, Enter
<1>5. CASE GiveUp(r)  BY <1>5, RefuseHolds DEF GiveUp
<1>6. CASE GiveUpHalfway(r)
  <2>1. target[r] \in Users  BY <1>0, <1>6 DEF GiveUpHalfway, Shape
  <2>2. faults' \in 0..MaxFaults
    BY <1>0, <1>6, WorkspaceAssumption DEF GiveUpHalfway, TypeOK
  <2>3. TypeOK'
    BY <1>0, <1>6, <2>1, <2>2 DEF TypeOK, GiveUpHalfway, Return, Points, invite
  <2> QED  BY <1>6, <2>3, ReturnHolds DEF IInv, GiveUpHalfway
<1> QED  BY <1>1, <1>2, <1>3, <1>4, <1>5, <1>6

LEMMA ExpireHolds == IInv /\ ExpireInvite => IInv'
<1> SUFFICES ASSUME IInv, ExpireInvite PROVE IInv'  OBVIOUS
<1>1. TypeOK'
  BY DEF IInv, TypeOK, ExpireInvite, request, history
<1>2. UNCHANGED <<role, request, stale>>  BY DEF ExpireInvite, history
<1>3. ASSUME NEW q \in Requests PROVE Shape(q)' /\ (q \notin stale' => Fresh(q)')
  BY <1>2, ReadsFrame DEF IInv, ReadsHold, request
<1> QED  BY <1>1, <1>3 DEF IInv, ReadsHold

LEMMA StutterHolds == IInv /\ UNCHANGED vars => IInv'
<1> SUFFICES ASSUME IInv, UNCHANGED vars PROVE IInv'  OBVIOUS
<1>1. TypeOK'
  BY DEF IInv, TypeOK, vars, invite, request, history
<1>2. UNCHANGED <<role, request, stale>>  BY DEF vars, history
<1>3. ASSUME NEW q \in Requests PROVE Shape(q)' /\ (q \notin stale' => Fresh(q)')
  BY <1>2, ReadsFrame DEF IInv, ReadsHold, request
<1> QED  BY <1>1, <1>3 DEF IInv, ReadsHold

LEMMA InitHolds == Init => IInv
BY WorkspaceAssumption DEF Init, IInv, TypeOK, ReadsHold, Shape, Fresh, Points, Members

LEMMA NextHolds == IInv /\ [Next]_vars => IInv'
<1> SUFFICES ASSUME IInv, [Next]_vars PROVE IInv'  OBVIOUS
<1>1. CASE ExpireInvite  BY <1>1, ExpireHolds
<1>2. ASSUME NEW r \in Requests, Asks(r) PROVE IInv'  BY <1>2, AsksHolds
<1>3. ASSUME NEW r \in Requests, Proceeds(r) PROVE IInv'
  BY <1>3, RemovalHolds, ChangeHolds, JoinHolds DEF Proceeds
<1>4. CASE UNCHANGED vars  BY <1>4, StutterHolds
<1> QED  BY <1>1, <1>2, <1>3, <1>4 DEF Next

LEMMA Invariance == Spec => []IInv
BY InitHolds, NextHolds, PTL DEF Spec

\* Every variable keeps its type; in particular no invite ever gives ownership.
THEOREM WorkspaceTypeCorrect == Spec => []TypeOK
<1>1. IInv => TypeOK  BY DEF IInv
<1> QED  BY <1>1, Invariance, PTL

-----------------------------------------------------------------------------
(* Owners.                                                                 *)

\* The four actions that write the role of a member.
WritesRole(r) ==
    \/ Delete(r) /\ SetRole(r, "none")
    \/ CommitLeave(r) /\ SetRole(r, "none") /\ ~Refuse(r)
    \/ Demote(r) /\ SetRole(r, value[r]) /\ ~Refuse(r)
    \/ Assign(r) /\ SetRole(r, value[r]) /\ ~Refuse(r)

LEMMA OthersKeepOwners ==
    ASSUME TypeOK, [Next]_vars
    PROVE  \/ Owners \subseteq Owners'
           \/ \E r \in Requests : WritesRole(r)
<1>1. role' = role => Owners \subseteq Owners'  BY DEF Owners
<1>2. CASE ExpireInvite \/ UNCHANGED vars  BY <1>1, <1>2 DEF ExpireInvite, vars
<1>3. ASSUME NEW r \in Requests, Asks(r) PROVE role' = role
  BY <1>3 DEF Asks, BeginLeave, ReadInvite, BeginJoin, BeginInvite, BeginRemove,
              BeginAdd, BeginChange, ReadOnly
<1>4. ASSUME NEW r \in Requests, Proceeds(r)
      PROVE  Owners \subseteq Owners' \/ WritesRole(r)
  <2>1. CASE CheckRank(r) \/ ReadRole(r) \/ CountOwners(r) \/ ReadTarget(r)
             \/ InsertInvite(r) \/ IncrementInviteUseCount(r) \/ Enter(r)
             \/ GiveUp(r) \/ GiveUpHalfway(r)
    <3>1. role' = role
      BY <2>1 DEF CheckRank, ReadRole, CountOwners, ReadTarget, InsertInvite,
                  IncrementInviteUseCount, Enter, GiveUp, GiveUpHalfway, Refuse, ReadOnly
    <3> QED  BY <1>1, <3>1
  <2>2. CASE Delete(r)  BY <2>2 DEF Delete, WritesRole
  <2>3. CASE Refuse(r)  BY <1>1, <2>3 DEF Refuse
  <2>4. CASE CommitLeave(r) /\ ~Refuse(r)  BY <2>4 DEF CommitLeave, WritesRole
  <2>5. CASE Demote(r) /\ ~Refuse(r)  BY <2>5 DEF Demote, WritesRole
  <2>6. CASE Assign(r) /\ ~Refuse(r)  BY <2>6 DEF Assign, WritesRole
  <2>7. CASE AddMember(r)
    <3>1. CASE target[r] \in Members  BY <1>1, <2>7, <3>1 DEF AddMember
    <3>2. CASE target[r] \notin Members
      BY <2>7, <3>2 DEF AddMember, Owners, Members, TypeOK
    <3> QED  BY <3>1, <3>2
  <2> QED  BY <1>4, <2>1, <2>2, <2>3, <2>4, <2>5, <2>6, <2>7 DEF Proceeds
<1> QED  BY <1>1, <1>2, <1>3, <1>4 DEF Next

LEMMA SetRoleOwners ==
    ASSUME NEW r \in Requests, NEW rank, TypeOK, SetRole(r, rank)
    PROVE  /\ Owners \ {target[r]} \subseteq Owners'
           /\ rank = "owner" => Owners \subseteq Owners'
BY DEF TypeOK, SetRole, Owners

LEMMA OneOfSeveral ==
    ASSUME NEW u, Cardinality(Owners) > 1
    PROVE  Owners \ {u} # {}
<1> SUFFICES ASSUME Owners \subseteq {u} PROVE FALSE  OBVIOUS
<1>1. Cardinality({u}) = 1 /\ IsFiniteSet({u})  BY FS_Singleton
<1>2. Cardinality(Owners) <= 1  BY <1>1, FS_Subset
<1> QED  BY <1>2, OwnersFinite

LEMMA WritesRoleWrites ==
    ASSUME NEW r \in Requests, TypeOK, WritesRole(r)
    PROVE  Writes(r)
<1>1. at[r] \in {"deleting", "leaving", "demoting", "assigning"}
  BY DEF WritesRole, Delete, CommitLeave, Demote, Assign
<1>2. at'[r] = "idle"  BY DEF WritesRole, SetRole, Return, TypeOK
<1> QED  BY <1>1, <1>2 DEF Writes

\* While no request writes upon what another has changed meanwhile, a workspace
\* with an owner keeps one: of several owners who leave, stand down or remove
\* themselves, the counts let all but the last one go.
THEOREM OwnersLeftToRacesAlone == Spec => LastOwnerGoesOnlyByARace
<1>1. ASSUME IInv, [Next]_vars
      PROVE  Owners # {} /\ Owners' = {} => \E r \in stale : Writes(r)
  <2> SUFFICES ASSUME Owners # {}, Owners' = {} PROVE \E r \in stale : Writes(r)
    OBVIOUS
  <2>0. TypeOK  BY <1>1 DEF IInv
  <2>1. PICK r \in Requests : WritesRole(r)
    BY <1>1, <2>0, OthersKeepOwners
  <2>2. SUFFICES ASSUME r \notin stale PROVE FALSE
    BY <2>0, <2>1, WritesRoleWrites
  <2>3. Shape(r) /\ Fresh(r)  BY <1>1, <2>2 DEF IInv, ReadsHold
  <2>4. Owners \ {target[r]} \subseteq Owners'
    BY <2>0, <2>1, SetRoleOwners DEF WritesRole
  <2>5. Cardinality(Owners) <= 1 /\ target[r] \in Owners
    <3>1. Cardinality(Owners) \in Nat  BY OwnersFinite
    <3>2. ~(Cardinality(Owners) > 1)  BY <2>4, OneOfSeveral
    <3> QED  BY <2>4, <3>1, <3>2
  <2>6. Cardinality(Owners) \in Nat  BY OwnersFinite
  <2>7. role[target[r]] = "owner"  BY <2>5 DEF Owners
  <2>8. CASE Delete(r)  BY <2>3, <2>5, <2>6, <2>7, <2>8 DEF Delete, Fresh
  <2>9. CASE CommitLeave(r) /\ ~Refuse(r)
    BY <2>3, <2>5, <2>6, <2>7, <2>9 DEF CommitLeave, Fresh
  <2>10. CASE Demote(r) /\ ~Refuse(r)  BY <2>5, <2>6, <2>10 DEF Demote
  <2>11. CASE Assign(r) /\ ~Refuse(r)
    <3>1. SetRole(r, value[r]) /\ at[r] = "assigning"  BY <2>11 DEF Assign
    <3>2. value[r] = "owner"  BY <2>3, <2>7, <3>1 DEF Fresh
    <3>3. Owners \subseteq Owners'  BY <2>0, <3>1, <3>2, SetRoleOwners
    <3> QED  BY <3>3
  <2> QED  BY <2>1, <2>8, <2>9, <2>10, <2>11 DEF WritesRole
<1>2. IInv /\ [Next]_vars => [Owners # {} /\ Owners' = {} => \E r \in stale : Writes(r)]_vars
  BY <1>1
<1> QED  BY <1>2, Invariance, PTL DEF Spec, LastOwnerGoesOnlyByARace

\* An owner loses her role by a request of her own, or by one that had read her
\* role before she got it.
THEOREM OwnersStandDownAlone == Spec => OwnersStandDown
<1> DEFINE Justified(u) == \E r \in Requests : /\ Writes(r)
                                               /\ target[r] = u
                                               /\ actor[r] = u \/ r \in stale
<1>1. ASSUME IInv, [Next]_vars, NEW u \in Owners \ Owners' PROVE Justified(u)
  <2>0. TypeOK  BY <1>1 DEF IInv
  <2>1. PICK r \in Requests : WritesRole(r)
    BY <1>1, <2>0, OthersKeepOwners
  <2>2. Writes(r)  BY <2>0, <2>1, WritesRoleWrites
  <2>3. target[r] = u
    BY <1>1, <2>0, <2>1, SetRoleOwners DEF WritesRole
  <2>4. role[target[r]] = "owner"  BY <1>1, <2>3 DEF Owners
  <2>5. Shape(r) /\ (r \notin stale => Fresh(r))  BY <1>1 DEF IInv, ReadsHold
  <2>6. actor[r] = u \/ r \in stale
    <3>1. CASE Delete(r)  BY <2>3, <2>4, <2>5, <3>1 DEF Delete, Fresh
    <3>2. CASE CommitLeave(r)  BY <2>3, <2>5, <3>2 DEF CommitLeave, Shape
    <3>3. CASE Demote(r)  BY <2>3, <2>5, <3>3 DEF Demote, Shape
    <3>4. CASE Assign(r) /\ SetRole(r, value[r])
      <4>1. value[r] # "owner"  BY <1>1, <2>0, <3>4, SetRoleOwners
      <4> QED  BY <2>4, <2>5, <3>4, <4>1 DEF Assign, Fresh
    <3> QED  BY <2>1, <3>1, <3>2, <3>3, <3>4 DEF WritesRole
  <2> QED  BY <2>2, <2>3, <2>6
<1>2. IInv /\ [Next]_vars => [\A u \in Owners \ Owners' : Justified(u)]_vars
  BY <1>1
<1> QED  BY <1>2, Invariance, PTL DEF Spec, OwnersStandDown

-----------------------------------------------------------------------------
(* The uses of the invite.                                                 *)

LEMMA AcceptingFinite ==
    /\ IsFiniteSet(Accepting) /\ Cardinality(Accepting) \in Nat
    /\ IsFiniteSet(Counting) /\ Cardinality(Counting) \in Nat
    /\ Cardinality(Counting) <= Cardinality(Accepting)
<1>1. IsFiniteSet(Requests)  BY WorkspaceAssumption
<1>2. Accepting \subseteq Requests /\ Counting \subseteq Accepting
  BY DEF Accepting, Counting
<1>3. IsFiniteSet(Accepting)  BY <1>1, <1>2, FS_Subset
<1>4. IsFiniteSet(Counting) /\ Cardinality(Counting) <= Cardinality(Accepting)
  BY <1>2, <1>3, FS_Subset
<1> QED  BY <1>3, <1>4, FS_CardinalityType

LEMMA InitCounts == Init => UsesCounted
<1> SUFFICES ASSUME Init PROVE UsesCounted  OBVIOUS
<1>1. Accepting = {} /\ Counting = {}  BY DEF Init, Accepting, Counting
<1>2. Cardinality({}) = 0  BY FS_EmptySet
<1> QED  BY <1>1, <1>2, WorkspaceAssumption DEF Init, UsesCounted

\* Where a request goes decides who is counted.
LEMMA Counted ==
    ASSUME NEW r \in Requests, NEW p, TypeOK, at' = [at EXCEPT ![r] = p]
    PROVE  /\ Accepting' = IF p \in {"joining", "counting"} THEN Accepting \cup {r}
                           ELSE Accepting \ {r}
           /\ Counting' = IF p = "counting" THEN Counting \cup {r}
                          ELSE Counting \ {r}
<1>1. \A q \in Requests : at'[q] = IF q = r THEN p ELSE at[q]  BY DEF TypeOK
<1> QED  BY <1>1 DEF Accepting, Counting

LEMMA CountsAreNumbers ==
    IInv => /\ useCount \in Nat /\ joined \in Nat /\ peak \in Nat /\ faults \in Nat
            /\ MaxUses \in Nat
BY WorkspaceAssumption DEF IInv, TypeOK

\* A step at which one request begins, ends or goes on without accepting, and
\* which is given up if it ends while it counts.
LEMMA CountsFrame ==
    ASSUME IInv, UsesCounted, NEW r \in Requests, NEW p,
           at' = [at EXCEPT ![r] = p], p \notin {"joining", "counting"},
           UNCHANGED <<useCount, joined, peak>>,
           faults' \in Nat, faults' >= faults,
           at[r] = "counting" => faults' = faults + 1
    PROVE  UsesCounted'
<1>0. TypeOK  BY DEF IInv
<1>1. Accepting' = Accepting \ {r} /\ Counting' = Counting \ {r}
  BY <1>0, Counted
<1>2. /\ Cardinality(Accepting') \in Nat
      /\ Cardinality(Accepting') <= Cardinality(Accepting)
  BY <1>1, AcceptingFinite, FS_Subset, FS_RemoveElement, FS_CardinalityType
<1>3. /\ Cardinality(Counting') \in Nat
      /\ Cardinality(Counting) + faults <= Cardinality(Counting') + faults'
  <2>1. Cardinality(Counting') \in Nat
    BY <1>1, AcceptingFinite, FS_RemoveElement, FS_CardinalityType
  <2>2. CASE r \in Counting
    <3>1. Cardinality(Counting') = Cardinality(Counting) - 1
      BY <1>1, <2>2, AcceptingFinite, FS_RemoveElement
    <3>2. faults' = faults + 1  BY <2>2 DEF Counting
    <3> QED  BY <2>1, <3>1, <3>2, AcceptingFinite, CountsAreNumbers
  <2>3. CASE r \notin Counting
    <3>1. Counting' = Counting  BY <1>1, <2>3
    <3> QED  BY <2>1, <3>1, AcceptingFinite, CountsAreNumbers
  <2> QED  BY <2>2, <2>3
<1> QED  BY <1>2, <1>3, AcceptingFinite, CountsAreNumbers DEF UsesCounted

LEMMA ReadInviteCounts ==
    ASSUME IInv, UsesCounted, IInv', NEW r \in Requests, NEW u \in Users,
           ReadInvite(r, u)
    PROVE  UsesCounted'
<1>0. TypeOK /\ at[r] = "idle"  BY DEF IInv, ReadInvite, Begin
<1>1. at' = [at EXCEPT ![r] = "joining"]  BY DEF ReadInvite, Begin
<1>2. Accepting' = Accepting \cup {r} /\ r \notin Accepting
  BY <1>0, <1>1, Counted DEF Accepting
<1>3. Counting' = Counting  BY <1>0, <1>1, Counted DEF Counting
<1>4. Cardinality(Accepting') = Cardinality(Accepting) + 1
  BY <1>2, AcceptingFinite, FS_AddElement
<1>5. /\ useCount' = useCount /\ joined' = joined /\ faults' = faults
      /\ useCount < MaxUses
      /\ peak' = IF Cardinality(Accepting) >= peak THEN Cardinality(Accepting) + 1
                 ELSE peak
  BY DEF ReadInvite, invite
<1> QED  BY <1>3, <1>4, <1>5, AcceptingFinite, CountsAreNumbers DEF UsesCounted

LEMMA AddMemberCounts ==
    ASSUME IInv, UsesCounted, IInv', NEW r \in Requests, AddMember(r)
    PROVE  UsesCounted'
<1>0. TypeOK /\ at[r] = "joining"  BY DEF IInv, AddMember
<1>1. at' = [at EXCEPT ![r] = "counting"]  BY DEF AddMember, Goto
<1>2. Accepting' = Accepting  BY <1>0, <1>1, Counted DEF Accepting
<1>3. Counting' = Counting \cup {r} /\ r \notin Counting
  BY <1>0, <1>1, Counted DEF Counting
<1>4. Cardinality(Counting') = Cardinality(Counting) + 1
  BY <1>3, AcceptingFinite, FS_AddElement
<1>5. /\ useCount' = useCount /\ peak' = peak /\ faults' = faults
      /\ joined' = joined \/ joined' = joined + 1
  BY DEF AddMember, invite
<1> QED  BY <1>2, <1>4, <1>5, AcceptingFinite, CountsAreNumbers DEF UsesCounted

LEMMA IncrementCounts ==
    ASSUME IInv, UsesCounted, IInv', NEW r \in Requests, IncrementInviteUseCount(r)
    PROVE  UsesCounted'
<1>0. TypeOK /\ at[r] = "counting"  BY DEF IInv, IncrementInviteUseCount
<1>1. at' = [at EXCEPT ![r] = "entering"]  BY DEF IncrementInviteUseCount, Goto
<1>2. Accepting' = Accepting \ {r} /\ r \in Accepting
  BY <1>0, <1>1, Counted DEF Accepting
<1>3. Counting' = Counting \ {r} /\ r \in Counting
  BY <1>0, <1>1, Counted DEF Counting
<1>4. /\ Cardinality(Accepting') = Cardinality(Accepting) - 1
      /\ Cardinality(Counting') = Cardinality(Counting) - 1
  BY <1>2, <1>3, AcceptingFinite, FS_RemoveElement
<1>5. /\ useCount' = useCount + 1 /\ peak' = peak /\ faults' = faults
      /\ joined' = joined
  BY DEF IncrementInviteUseCount, history
<1> QED  BY <1>4, <1>5, AcceptingFinite, CountsAreNumbers DEF UsesCounted

LEMMA AsksCounts ==
    ASSUME IInv, UsesCounted, IInv', NEW r \in Requests, Asks(r)
    PROVE  UsesCounted'
<1> DEFINE Quiet(p) == /\ at[r] = "idle" /\ at' = [at EXCEPT ![r] = p]
                       /\ UNCHANGED <<useCount, joined, peak, faults>>
<1>1. ASSUME NEW p \in {"reading", "ranking", "leaving", "comparing", "inviting",
                        "adding"}, Quiet(p)
      PROVE  UsesCounted'
  <2>1. at' = [at EXCEPT ![r] = p] /\ at[r] # "counting"
    BY <1>1
  <2>2. p \notin {"joining", "counting"}  BY <1>1
  <2>3. UNCHANGED <<useCount, joined, peak>> /\ faults' = faults
    BY <1>1
  <2>4. faults' \in Nat /\ faults' >= faults  BY <2>3, CountsAreNumbers
  <2> HIDE DEF Quiet
  <2> QED  BY <2>1, <2>2, <2>3, <2>4, CountsFrame
<1>2. PICK u \in Users : \/ BeginLeave(r, u) \/ ReadInvite(r, u) \/ BeginJoin(r, u)
                         \/ \E rank \in AskedRoles : BeginInvite(r, u, rank)
                         \/ \E a \in Users :
                               \/ BeginRemove(r, a, u) \/ BeginAdd(r, a, u)
                               \/ \E rank \in AskedRoles : BeginChange(r, a, u, rank)
  BY DEF Asks
<1>3. CASE ReadInvite(r, u)  BY <1>3, ReadInviteCounts
<1>4. CASE BeginLeave(r, u)
  <2>1. Quiet("leaving")  BY <1>4 DEF BeginLeave, Begin, ReadOnly, invite, history
  <2> QED  BY <1>1, <2>1
<1>5. CASE BeginJoin(r, u) \/ \E a \in Users : BeginAdd(r, a, u)
  <2>1. Quiet("adding")
    BY <1>5 DEF BeginJoin, BeginAdd, Begin, ReadOnly, invite, history
  <2> QED  BY <1>1, <2>1
<1>6. CASE \E rank \in AskedRoles : BeginInvite(r, u, rank)
  <2>1. Quiet("inviting")
    BY <1>6 DEF BeginInvite, Begin, ReadOnly, invite, history
  <2> QED  BY <1>1, <2>1
<1>7. CASE \E a \in Users : BeginRemove(r, a, u)
  <2>1. Quiet("reading") \/ Quiet("ranking")
    BY <1>7 DEF BeginRemove, Begin, ReadOnly, invite, history
  <2> QED  BY <1>1, <2>1
<1>8. CASE \E a \in Users : \E rank \in AskedRoles : BeginChange(r, a, u, rank)
  <2>1. Quiet("comparing")
    BY <1>8 DEF BeginChange, Begin, ReadOnly, invite, history
  <2> QED  BY <1>1, <2>1
<1> HIDE DEF Quiet
<1> QED  BY <1>2, <1>3, <1>4, <1>5, <1>6, <1>7, <1>8

LEMMA ProceedsCounts ==
    ASSUME IInv, UsesCounted, IInv', NEW r \in Requests, Proceeds(r)
    PROVE  UsesCounted'
<1> DEFINE Quiet(p) == /\ at[r] # "counting" /\ at' = [at EXCEPT ![r] = p]
                       /\ UNCHANGED <<useCount, joined, peak, faults>>
<1>1. ASSUME NEW p \in {"idle", "reading", "owners", "deleting", "demoting",
                        "assigning"}, Quiet(p)
      PROVE  UsesCounted'
  <2>1. at' = [at EXCEPT ![r] = p] /\ at[r] # "counting"
    BY <1>1
  <2>2. p \notin {"joining", "counting"}  BY <1>1
  <2>3. UNCHANGED <<useCount, joined, peak>> /\ faults' = faults
    BY <1>1
  <2>4. faults' \in Nat /\ faults' >= faults  BY <2>3, CountsAreNumbers
  <2> HIDE DEF Quiet
  <2> QED  BY <2>1, <2>2, <2>3, <2>4, CountsFrame
<1>2. CASE AddMember(r)  BY <1>2, AddMemberCounts
<1>3. CASE IncrementInviteUseCount(r)  BY <1>3, IncrementCounts
<1>4. CASE GiveUpHalfway(r)
  <2>1. /\ at' = [at EXCEPT ![r] = "idle"] /\ faults' = faults + 1
        /\ UNCHANGED <<useCount, joined, peak>>
    BY <1>4 DEF GiveUpHalfway, Return, invite
  <2>2. faults' \in Nat /\ faults' >= faults  BY <2>1, CountsAreNumbers
  <2>3. "idle" \notin {"joining", "counting"}  OBVIOUS
  <2> QED  BY <2>1, <2>2, <2>3, CountsFrame
<1>5. CASE at[r] # "counting" /\ Refuse(r)
  <2>1. Quiet("idle")  BY <1>5 DEF Refuse, Return, invite
  <2> QED  BY <1>1, <2>1
<1>6. CASE CheckRank(r) \/ ReadRole(r) \/ CountOwners(r) \/ ReadTarget(r)
  <2>1. \/ Quiet("reading") \/ Quiet("owners") \/ Quiet("deleting")
        \/ Quiet("demoting") \/ Quiet("assigning") \/ Quiet("idle")
    BY <1>6 DEF CheckRank, ReadRole, CountOwners, ReadTarget, Goto, ReadOnly,
                Refuse, Return, invite, history
  <2> QED  BY <1>1, <2>1
<1>7. CASE Delete(r) \/ CommitLeave(r) \/ Demote(r) \/ Assign(r)
  <2>1. Quiet("idle")
    BY <1>7 DEF Delete, CommitLeave, Demote, Assign, SetRole, Refuse, Return, invite
  <2> QED  BY <1>1, <2>1
<1>8. CASE InsertInvite(r) \/ Enter(r)
  <2>1. Quiet("idle")  BY <1>8 DEF InsertInvite, Enter, Return, invite
  <2> QED  BY <1>1, <2>1
<1>9. CASE GiveUp(r)  BY <1>5, <1>9 DEF GiveUp
<1> HIDE DEF Quiet
<1> QED  BY <1>2, <1>3, <1>4, <1>6, <1>7, <1>8, <1>9 DEF Proceeds

LEMMA NextCounts == IInv /\ UsesCounted /\ IInv' /\ [Next]_vars => UsesCounted'
<1> SUFFICES ASSUME IInv, UsesCounted, IInv', [Next]_vars PROVE UsesCounted'
  OBVIOUS
<1>1. CASE ExpireInvite \/ UNCHANGED vars
  <2>1. UNCHANGED <<at, useCount, joined, peak, faults>>
    BY <1>1 DEF ExpireInvite, vars, invite, request, history
  <2>2. Accepting' = Accepting /\ Counting' = Counting
    BY <2>1 DEF Accepting, Counting
  <2> QED  BY <2>1, <2>2 DEF UsesCounted
<1>2. ASSUME NEW r \in Requests, Asks(r) \/ Proceeds(r) PROVE UsesCounted'
  BY <1>2, AsksCounts, ProceedsCounts
<1> QED  BY <1>1, <1>2 DEF Next

\* The invite brings its uses, one more for each further request that used it
\* at the same time, and one more for each join that was given up.
THEOREM InviteUsesBounded == Spec => []InviteBringsItsUses
<1>1. IInv /\ UsesCounted => InviteBringsItsUses
  <2> SUFFICES ASSUME IInv, UsesCounted PROVE InviteBringsItsUses  OBVIOUS
  <2> QED  BY AcceptingFinite, CountsAreNumbers DEF UsesCounted, InviteBringsItsUses
<1> QED  BY <1>1, InitCounts, NextCounts, Invariance, PTL DEF Spec

-----------------------------------------------------------------------------
(* The default channel.                                                    *)

\* Who asks, or reads, touches neither the members nor the channel.
LEMMA AsksFrame ==
    ASSUME NEW r \in Requests, Asks(r)
    PROVE  at[r] = "idle" /\ UNCHANGED <<role, general, strayed, missed>>
BY DEF Asks, BeginLeave, ReadInvite, BeginJoin, BeginInvite, BeginRemove,
       BeginAdd, BeginChange, Begin, ReadOnly, history

Quietly(r) == /\ at[r] \notin {"counting", "entering"}
              /\ UNCHANGED <<role, general, strayed, missed>>

LEMMA RefuseFrame ==
    ASSUME NEW r \in Requests, Refuse(r)
    PROVE  UNCHANGED <<role, general, strayed, missed>>
BY DEF Refuse

LEMMA ReadsAreQuiet ==
    ASSUME NEW r \in Requests,
           \/ CheckRank(r) \/ ReadRole(r) \/ CountOwners(r) \/ ReadTarget(r)
           \/ InsertInvite(r) \/ GiveUp(r)
    PROVE  Quietly(r)
BY RefuseFrame DEF CheckRank, ReadRole, CountOwners, ReadTarget, InsertInvite,
                   GiveUp, ReadOnly, history, Quietly

\* A change of role changes nobody's membership.
LEMMA ChangeFrame ==
    ASSUME NEW r \in Requests, IInv, Demote(r) \/ Assign(r)
    PROVE  /\ Members' = Members
           /\ at[r] \notin {"counting", "entering"}
           /\ UNCHANGED <<general, strayed, missed>>
<1>1. /\ at[r] \in {"demoting", "assigning"}
      /\ (target[r] \in Members /\ SetRole(r, value[r])) \/ role' = role
      /\ UNCHANGED <<general, strayed, missed>>
  BY RefuseFrame DEF Demote, Assign, Refuse
<1>2. value[r] \in Roles  BY <1>1 DEF IInv, ReadsHold, Shape
<1>3. Members' = Members
  <2>1. CASE role' = role  BY <2>1 DEF Members
  <2>2. CASE target[r] \in Members /\ SetRole(r, value[r])
    <3>1. \A u \in Users : role'[u] = IF u = target[r] THEN value[r] ELSE role[u]
      BY <2>2 DEF SetRole, IInv, TypeOK
    <3>2. value[r] # "none"  BY <1>2 DEF Roles
    <3> QED  BY <2>2, <3>1, <3>2 DEF Members
  <2> QED  BY <1>1, <2>1, <2>2
<1> QED  BY <1>1, <1>3

\* One who is removed, or leaves, is no member any more.
LEMMA RemoveFrame ==
    ASSUME NEW r \in Requests, IInv, target[r] \in Users, SetRole(r, "none")
    PROVE  Members' = Members \ {target[r]}
<1>1. \A u \in Users : role'[u] = IF u = target[r] THEN "none" ELSE role[u]
  BY DEF SetRole, IInv, TypeOK
<1> QED  BY <1>1 DEF Members

LEMMA AddFrame ==
    ASSUME NEW r \in Requests, IInv, AddMember(r)
    PROVE  Members' = Members \cup {target[r]}
<1>1. target[r] \in Users /\ value[r] \in Roles
  BY DEF IInv, ReadsHold, Shape, AddMember, InviteRoles
<1>2. CASE target[r] \in Members
  <2>1. role' = role  BY <1>2 DEF AddMember
  <2> QED  BY <1>2, <2>1 DEF Members
<1>3. CASE target[r] \notin Members
  <2>1. \A u \in Users : role'[u] = IF u = target[r] THEN value[r] ELSE role[u]
    BY <1>3 DEF AddMember, IInv, TypeOK
  <2>2. value[r] # "none"  BY <1>1 DEF Roles
  <2> QED  BY <1>1, <2>1, <2>2 DEF Members
<1> QED  BY <1>2, <1>3

LEMMA NextBelongs ==
    IInv /\ ChannelMembersBelong /\ [Next]_vars => ChannelMembersBelong'
<1> SUFFICES ASSUME IInv, ChannelMembersBelong, [Next]_vars
             PROVE  ChannelMembersBelong'
  OBVIOUS
<1> USE DEF ChannelMembersBelong
<1>1. ASSUME Members' = Members, UNCHANGED <<general, strayed>>
      PROVE  ChannelMembersBelong'
  BY <1>1
<1>2. role' = role => Members' = Members  BY DEF Members
<1>3. CASE ExpireInvite \/ UNCHANGED vars
  BY <1>1, <1>2, <1>3 DEF ExpireInvite, vars, history
<1>4. ASSUME NEW r \in Requests, Asks(r) PROVE ChannelMembersBelong'
  BY <1>1, <1>2, <1>4, AsksFrame
<1>5. ASSUME NEW r \in Requests, Proceeds(r) PROVE ChannelMembersBelong'
  <2>0. at[r] = "idle" \/ target[r] \in Users  BY DEF IInv, ReadsHold, Shape
  <2>1. CASE \/ CheckRank(r) \/ ReadRole(r) \/ CountOwners(r) \/ ReadTarget(r)
             \/ InsertInvite(r) \/ GiveUp(r)
    BY <1>1, <1>2, <2>1, ReadsAreQuiet DEF Quietly
  <2>2. CASE Delete(r)
    <3>1. Members' = Members \ {target[r]}  BY <2>0, <2>2, RemoveFrame DEF Delete
    <3> QED  BY <2>2, <3>1 DEF Delete
  <2>3. CASE CommitLeave(r)
    <3>1. CASE Refuse(r)  BY <1>1, <1>2, <3>1, RefuseFrame
    <3>2. CASE ~Refuse(r)
      <4>1. SetRole(r, "none") /\ at[r] = "leaving"
        BY <2>3, <3>2 DEF CommitLeave
      <4>2. Members' = Members \ {target[r]}  BY <2>0, <4>1, RemoveFrame
      <4>3. general' = general \ {target[r]} /\ strayed' = strayed \ {target[r]}
        BY <2>3, <3>2 DEF CommitLeave
      <4> QED  BY <4>2, <4>3
    <3> QED  BY <3>1, <3>2
  <2>4. CASE Demote(r) \/ Assign(r)  BY <1>1, <2>4, ChangeFrame
  <2>5. CASE AddMember(r)
    <3>1. Members' = Members \cup {target[r]}  BY <2>5, AddFrame
    <3> QED  BY <2>5, <3>1 DEF AddMember
  <2>6. CASE IncrementInviteUseCount(r) \/ GiveUpHalfway(r)
    BY <1>1, <1>2, <2>6 DEF IncrementInviteUseCount, GiveUpHalfway, history
  <2>7. CASE Enter(r)
    <3>1. r \in stale \/ target[r] \in Members
      BY <2>7 DEF IInv, ReadsHold, Fresh, Enter
    <3>2. Members' = Members  BY <1>2, <2>7 DEF Enter
    <3> QED  BY <2>7, <3>1, <3>2 DEF Enter
  <2> QED  BY <1>5, <2>1, <2>2, <2>3, <2>4, <2>5, <2>6, <2>7 DEF Proceeds
<1> QED  BY <1>3, <1>4, <1>5 DEF Next

\* Who is in the default channel is in the workspace, except for those whom
\* RemoveWorkspaceMember has left there, and joins overtaken by a departure.
THEOREM ChannelBelongs == Spec => []ChannelMembersBelong
<1>1. Init => ChannelMembersBelong  BY DEF Init, ChannelMembersBelong
<1> QED  BY <1>1, NextBelongs, Invariance, PTL DEF Spec

-----------------------------------------------------------------------------
Reaches(r, u) == at[r] \in {"counting", "entering"} /\ target[r] = u

LEMMA NextReaches ==
    IInv /\ MembersReachGeneral /\ [Next]_vars => MembersReachGeneral'
<1> SUFFICES ASSUME IInv, MembersReachGeneral, [Next]_vars
             PROVE  MembersReachGeneral'
  OBVIOUS
<1>0. TypeOK  BY DEF IInv
<1>1. role' = role => Members' = Members  BY DEF Members
\* It suffices that the others stand still, and that what one request drops is
\* in the channel, or remembered.
<1>2. ASSUME NEW r \in Requests, Members' \ general' \subseteq Members \ general,
             missed \ missed' \subseteq general',
             \A q \in Requests \ {r} : at'[q] = at[q] /\ target'[q] = target[q],
             \/ at[r] \notin {"counting", "entering"}
             \/ target[r] \in general' \cup missed'
             \/ at'[r] \in {"counting", "entering"} /\ target'[r] = target[r]
      PROVE  MembersReachGeneral'
  <2> SUFFICES ASSUME NEW u \in Members' \ general'
               PROVE  u \in missed' \/ \E q \in Requests : Reaches(q, u)'
    BY DEF MembersReachGeneral, Reaches
  <2>1. u \in missed \/ \E q \in Requests : Reaches(q, u)
    BY <1>2 DEF MembersReachGeneral, Reaches
  <2>2. CASE u \in missed  BY <1>2, <2>2
  <2>3. ASSUME NEW q \in Requests, Reaches(q, u)
        PROVE  u \in missed' \/ Reaches(q, u)'
    BY <1>2, <2>3 DEF Reaches
  <2> QED  BY <2>1, <2>2, <2>3
<1>3. CASE ExpireInvite \/ UNCHANGED vars
  <2>1. UNCHANGED <<role, general, at, target, missed>>
    BY <1>3 DEF ExpireInvite, vars, request, history
  <2> QED  BY <1>1, <2>1 DEF MembersReachGeneral
<1>4. ASSUME NEW r \in Requests, Asks(r) PROVE MembersReachGeneral'
  <2>1. \A q \in Requests \ {r} : at'[q] = at[q] /\ target'[q] = target[q]
    BY <1>0, <1>4 DEF Asks, BeginLeave, ReadInvite, BeginJoin, BeginInvite,
                      BeginRemove, BeginAdd, BeginChange, Begin, TypeOK
  <2> QED  BY <1>1, <1>2, <1>4, <2>1, AsksFrame
<1>5. ASSUME NEW r \in Requests, Proceeds(r) PROVE MembersReachGeneral'
  <2>0. at[r] = "idle" \/ target[r] \in Users  BY DEF IInv, ReadsHold, Shape
  <2>1. \A q \in Requests \ {r} : at'[q] = at[q] /\ target'[q] = target[q]
    BY <1>0, <1>5, ReturnFrame
    DEF Proceeds, CheckRank, ReadRole, CountOwners, Delete, CommitLeave,
        ReadTarget, Demote, Assign, InsertInvite, AddMember,
        IncrementInviteUseCount, Enter, GiveUp, GiveUpHalfway, SetRole, Refuse,
        Goto, TypeOK
  <2>2. CASE \/ CheckRank(r) \/ ReadRole(r) \/ CountOwners(r) \/ ReadTarget(r)
             \/ InsertInvite(r) \/ GiveUp(r)
    BY <1>1, <1>2, <2>1, <2>2, ReadsAreQuiet DEF Quietly
  <2>3. CASE Delete(r)
    <3>1. Members' = Members \ {target[r]}  BY <2>0, <2>3, RemoveFrame DEF Delete
    <3> QED  BY <1>2, <2>1, <2>3, <3>1 DEF Delete
  <2>4. CASE CommitLeave(r)
    <3>0. at[r] = "leaving"  BY <2>4 DEF CommitLeave
    <3>1. CASE Refuse(r)  BY <1>1, <1>2, <2>1, <3>0, <3>1, RefuseFrame
    <3>2. CASE ~Refuse(r)
      <4>1. SetRole(r, "none")  BY <2>4, <3>2 DEF CommitLeave
      <4>2. Members' = Members \ {target[r]}  BY <2>0, <3>0, <4>1, RemoveFrame
      <4>3. general' = general \ {target[r]} /\ missed' = missed
        BY <2>4, <3>2 DEF CommitLeave
      <4> QED  BY <1>2, <2>1, <3>0, <4>2, <4>3
    <3> QED  BY <3>1, <3>2
  <2>5. CASE Demote(r) \/ Assign(r)  BY <1>2, <2>1, <2>5, ChangeFrame
  <2>6. CASE AddMember(r)
    <3>1. Members' = Members \cup {target[r]}  BY <2>6, AddFrame
    <3>2. at'[r] = "counting" /\ target' = target /\ at[r] = "joining"
      BY <1>0, <2>6, GotoFrame DEF AddMember
    <3>3. UNCHANGED <<general, missed>>  BY <2>6 DEF AddMember
    <3> SUFFICES ASSUME NEW u \in Members' \ general'
                 PROVE  u \in missed' \/ \E q \in Requests : Reaches(q, u)'
      BY DEF MembersReachGeneral, Reaches
    <3>4. CASE u = target[r]  BY <3>2, <3>4 DEF Reaches
    <3>5. ASSUME NEW q \in Requests, Reaches(q, u) PROVE Reaches(q, u)'
      BY <2>1, <3>2, <3>5 DEF Reaches
    <3>6. CASE u \in Members
      BY <3>3, <3>5, <3>6 DEF MembersReachGeneral, Reaches
    <3> QED  BY <3>1, <3>4, <3>6
  <2>7. CASE IncrementInviteUseCount(r)
    <3>1. at'[r] = "entering" /\ target' = target
      BY <1>0, <2>7, GotoFrame DEF IncrementInviteUseCount
    <3>2. UNCHANGED <<role, general, missed>>
      BY <2>7 DEF IncrementInviteUseCount, history
    <3> QED  BY <1>1, <1>2, <2>1, <3>1, <3>2
  <2>8. CASE Enter(r)
    <3>1. /\ role' = role /\ general' = general \cup {target[r]}
          /\ missed' = missed \ {target[r]}
      BY <2>8 DEF Enter
    <3> QED  BY <1>1, <1>2, <2>1, <3>1
  <2>9. CASE GiveUpHalfway(r)
    <3>1. UNCHANGED <<role, general>> /\ missed' = missed \cup {target[r]}
      BY <2>9 DEF GiveUpHalfway
    <3> QED  BY <1>1, <1>2, <2>1, <3>1
  <2> QED
    BY <1>5, <2>2, <2>3, <2>4, <2>5, <2>6, <2>7, <2>8, <2>9 DEF Proceeds
<1> QED  BY <1>3, <1>4, <1>5 DEF Next

\* Every member is in the default channel, unless the request by which she
\* joined is under way or was given up.
THEOREM MembersReach == Spec => []MembersReachGeneral
<1>1. Init => MembersReachGeneral  BY DEF Init, MembersReachGeneral
<1> QED  BY <1>1, NextReaches, Invariance, PTL DEF Spec
=============================================================================
