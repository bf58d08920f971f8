---------------------------- MODULE MessageProofs ---------------------------
(***************************************************************************)
(* Theorems about MessageCache, for any messages, requests and bounds: its *)
(* copies are sequences of well-typed rows that hold no message twice.     *)
(*                                                                         *)
(* Then about MessagePages, for any page size, number of pages, backlog    *)
(* and number of messages: the window never holds more than MaxPages       *)
(* pages, each hole in it has a cause, and what is older stays reachable.  *)
(* A page shows an interval of ids, but for the messages with a cause; the *)
(* pages are joined, each to the next, into a chain from the newest shown  *)
(* down.  What a fetch or a jump remembers is of the same kind, for the    *)
(* server that it read.                                                    *)
(***************************************************************************)
EXTENDS MessageCache, MessagePages, FiniteSetTheorems, SequenceTheorems,
        WellFoundedInduction, TLAPS

-----------------------------------------------------------------------------
(* Positions of a sequence: a rank names one of them, another rank another. *)

\* A set of numbers has a least one.
LEMMA LeastOf ==
  ASSUME NEW T, T \subseteq Nat, T # {}
  PROVE  \E m \in T : \A n \in T : m <= n
  <1> DEFINE F == {0..m : m \in T}
  <1>1. F \subseteq FiniteSubsetsOf(Nat)
    <2>1. \A m \in T : 0..m \in FiniteSubsetsOf(Nat)
      BY FS_Interval DEF FiniteSubsetsOf
    <2> QED
      BY <2>1
  <1>2. F # {}
    OBVIOUS
  <1>3. PICK x \in F : \A y \in F : ~(<<y, x>> \in StrictSubsetOrdering(Nat))
    <2> HIDE DEF F
    <2> QED
      BY <1>1, <1>2, FS_StrictSubsetOrderingWellFounded, WFMin
  <1>4. PICK m \in T : x = 0..m
    OBVIOUS
  <1>5. ASSUME NEW n \in T, n < m PROVE FALSE
    <2>1. 0..n \in F /\ 0..n \in SUBSET Nat /\ 0..m \in SUBSET Nat
      OBVIOUS
    <2>2. 0..n \subseteq 0..m /\ m \in 0..m /\ m \notin 0..n
      BY <1>5
    <2>3. <<0..n, 0..m>> \in StrictSubsetOrdering(Nat)
      BY <2>1, <2>2 DEF StrictSubsetOrdering
    <2> QED
      BY <1>3, <1>4, <2>1, <2>3
  <1> QED
    BY <1>5

\* The members of a finite set of positive numbers, up to a growing bound.
UpTo(S, n) == {i \in S : i <= n}

LEMMA UpToNext ==
  ASSUME NEW b \in Nat, NEW S, \A i \in S : i \in 1..b, NEW m \in Nat
  PROVE  /\ IsFiniteSet(UpTo(S, m)) /\ Cardinality(UpTo(S, m)) \in Nat
         /\ m + 1 \in S => Cardinality(UpTo(S, m + 1)) = Cardinality(UpTo(S, m)) + 1
         /\ m + 1 \notin S => UpTo(S, m + 1) = UpTo(S, m)
  <1>1. IsFiniteSet(S)
    <2>1. S \in SUBSET (1..b) /\ IsFiniteSet(1..b)
      BY FS_Interval
    <2> QED
      BY <2>1, FS_Subset
  <1>2. IsFiniteSet(UpTo(S, m))
    BY <1>1, FS_Subset DEF UpTo
  <1>3. ASSUME m + 1 \in S
        PROVE  Cardinality(UpTo(S, m + 1)) = Cardinality(UpTo(S, m)) + 1
    <2>1. UpTo(S, m + 1) = UpTo(S, m) \cup {m + 1} /\ m + 1 \notin UpTo(S, m)
      BY <1>3 DEF UpTo
    <2> QED
      BY <1>2, <2>1, FS_AddElement, FS_CardinalityType
  <1>4. ASSUME m + 1 \notin S
        PROVE  UpTo(S, m + 1) = UpTo(S, m)
    BY <1>4 DEF UpTo
  <1> QED
    BY <1>2, <1>3, <1>4, FS_CardinalityType

\* Every rank from 1 to the size of such a set is some member's.
LEMMA NthIsMember ==
  ASSUME NEW b \in Nat, NEW S, \A i \in S : i \in 1..b, NEW k \in 1..Cardinality(S)
  PROVE  Nth(S, k) \in S /\ Cardinality(UpTo(S, Nth(S, k))) = k
  <1> DEFINE T == {n \in Nat : k <= Cardinality(UpTo(S, n))}
  <1>1. IsFiniteSet(S) /\ Cardinality(S) \in Nat
    <2>1. S \in SUBSET (1..b) /\ IsFiniteSet(1..b)
      BY FS_Interval
    <2> QED
      BY <2>1, FS_Subset, FS_CardinalityType
  <1>2. b \in T
    <2>1. UpTo(S, b) = S
      BY DEF UpTo
    <2> QED
      BY <1>1, <2>1
  <1>3. PICK m \in T : \A n \in T : m <= n
    <2>1. T \subseteq Nat /\ T # {}
      BY <1>2
    <2> HIDE DEF T
    <2> QED
      BY <2>1, LeastOf
  <1>4. m \in Nat /\ k <= Cardinality(UpTo(S, m))
    OBVIOUS
  <1>5. m # 0
    <2>1. UpTo(S, 0) = {}
      BY DEF UpTo
    <2>2. Cardinality(UpTo(S, 0)) = 0
      BY <2>1, FS_EmptySet
    <2> QED
      BY <1>4, <2>2
  <1>6. PICK n \in Nat : m = n + 1
    BY <1>4, <1>5
  <1>7. n \notin T
    <2> HIDE DEF T
    <2> QED
      BY <1>3, <1>6
  <1>8. Cardinality(UpTo(S, n)) \in Nat /\ Cardinality(UpTo(S, n)) < k
    BY <1>7, UpToNext
  <1>9. m \in S /\ Cardinality(UpTo(S, m)) = Cardinality(UpTo(S, n)) + 1
    <2>1. CASE n + 1 \in S
      BY <1>6, <2>1, UpToNext
    <2>2. CASE n + 1 \notin S
      <3>1. UpTo(S, m) = UpTo(S, n)
        BY <1>6, <2>2, UpToNext
      <3> QED
        BY <1>4, <1>8, <3>1
    <2> QED
      BY <2>1, <2>2
  <1>10. m \in S /\ Cardinality(UpTo(S, m)) = k
    <2> HIDE DEF T
    <2> QED
      BY <1>4, <1>8, <1>9
  <1> QED
    BY <1>10 DEF Nth, UpTo

-----------------------------------------------------------------------------
(* The rows of a cached copy. *)

Notes == [id : Msgs, text : Nat, rc : Nat, dead : BOOLEAN, reac : SUBSET Users]

Tidy(s) == s \in Seq(Notes) /\ Distinct(s)

\* What is picked out of a copy holds no message twice either.
LEMMA PickedOf ==
  ASSUME NEW X, NEW s \in Seq(X), NEW keep, \A i \in keep : i \in 1..Len(s)
  PROVE  /\ Picked(s, keep) \in Seq(X)
         /\ Len(Picked(s, keep)) = Cardinality(keep) /\ Cardinality(keep) \in Nat
         /\ \A k \in 1..Cardinality(keep) :
                Picked(s, keep)[k] = s[Nth(keep, k)] /\ Nth(keep, k) \in 1..Len(s)
         /\ \A k, l \in 1..Cardinality(keep) :
                Nth(keep, k) = Nth(keep, l) => k = l
  <1>1. Len(s) \in Nat /\ \A i \in 1..Len(s) : s[i] \in X
    BY ElementOfSeq, LenProperties
  <1>2. Cardinality(keep) \in Nat
    <2>1. keep \in SUBSET (1..Len(s)) /\ IsFiniteSet(1..Len(s))
      BY <1>1, FS_Interval
    <2> QED
      BY <2>1, FS_Subset, FS_CardinalityType
  <1>3. \A k \in 1..Cardinality(keep) :
            Nth(keep, k) \in keep /\ Cardinality(UpTo(keep, Nth(keep, k))) = k
    BY <1>1, NthIsMember
  <1>4. \A k \in 1..Cardinality(keep) : Nth(keep, k) \in 1..Len(s)
    BY <1>3
  <1>5. \A k, l \in 1..Cardinality(keep) : Nth(keep, k) = Nth(keep, l) => k = l
    BY <1>3
  <1>6. Picked(s, keep) = [k \in 1..Cardinality(keep) |-> s[Nth(keep, k)]]
    BY DEF Picked
  <1> DEFINE picked == [k \in 1..Cardinality(keep) |-> s[Nth(keep, k)]]
  <1>7. picked \in [1..Cardinality(keep) -> X]
    BY <1>1, <1>4
  <1>8. picked \in Seq(X) /\ Len(picked) = Cardinality(keep)
    BY <1>2, <1>7
  <1> QED
    BY <1>2, <1>4, <1>5, <1>6, <1>8

LEMMA PickedIsTidy ==
  ASSUME NEW s, Tidy(s), NEW keep, \A i \in keep : i \in DOMAIN s
  PROVE  Tidy(Picked(s, keep))
  <1> DEFINE picked == Picked(s, keep)
  <1>1. s \in Seq(Notes) /\ DOMAIN s = 1..Len(s)
    BY DEF Tidy
  <1>2. /\ picked \in Seq(Notes) /\ Len(picked) = Cardinality(keep)
        /\ \A k \in 1..Cardinality(keep) :
               picked[k] = s[Nth(keep, k)] /\ Nth(keep, k) \in 1..Len(s)
        /\ \A k, l \in 1..Cardinality(keep) :
               Nth(keep, k) = Nth(keep, l) => k = l
    BY <1>1, PickedOf
  <1> HIDE DEF picked
  <1>3. DOMAIN picked = 1..Cardinality(keep)
    BY <1>2
  <1>4. ASSUME NEW k \in DOMAIN picked, NEW l \in DOMAIN picked,
               picked[k].id = picked[l].id
        PROVE  k = l
    <2>1. s[Nth(keep, k)].id = s[Nth(keep, l)].id
      BY <1>2, <1>3, <1>4
    <2>2. Nth(keep, k) = Nth(keep, l)
      BY <1>1, <1>2, <1>3, <2>1 DEF Tidy, Distinct
    <2> QED
      BY <1>2, <1>3, <2>2
  <1>5. Tidy(picked)
    BY <1>2, <1>4 DEF Tidy, Distinct
  <1> QED
    BY <1>5 DEF picked

\* Rows may change, as long as they stay those of their messages.
LEMMA ChangedIsTidy ==
  ASSUME NEW s, Tidy(s), NEW t, t = [i \in DOMAIN s |-> t[i]],
         \A i \in DOMAIN s : t[i] \in Notes /\ t[i].id = s[i].id
  PROVE  Tidy(t)
  <1>1. s \in Seq(Notes) /\ DOMAIN s = 1..Len(s) /\ Len(s) \in Nat
    BY DEF Tidy
  <1>2. DOMAIN t = 1..Len(s)
    BY <1>1
  <1>3. t \in [1..Len(s) -> Notes]
    BY <1>1
  <1>4. t \in Seq(Notes)
    BY <1>1, <1>3
  <1>5. Distinct(t)
    BY <1>1, <1>2 DEF Tidy, Distinct
  <1> QED
    BY <1>4, <1>5 DEF Tidy

LEMMA PrependedIsTidy ==
  ASSUME NEW s, Tidy(s), NEW r \in Notes
  PROVE  Tidy(Prepended(s, r))
  <1>1. s \in Seq(Notes) /\ DOMAIN s = 1..Len(s) /\ Len(s) \in Nat
    BY DEF Tidy
  <1>2. CASE Has(s, r.id)
    BY <1>2 DEF Prepended
  <1>3. CASE ~Has(s, r.id)
    <2> DEFINE t == <<r>> \o s
    <2>1. /\ t \in Seq(Notes) /\ Len(t) = Len(s) + 1
          /\ t[1] = r /\ \A i \in 1..Len(s) : t[i + 1] = s[i]
      BY <1>1
    <2> HIDE DEF t
    <2>2. \A i \in DOMAIN t : i = 1 \/ \E j \in 1..Len(s) : i = j + 1
      <3> SUFFICES ASSUME NEW i \in DOMAIN t, i # 1
                   PROVE  \E j \in 1..Len(s) : i = j + 1
        OBVIOUS
      <3>1. i \in 1..(Len(s) + 1)
        BY <2>1
      <3>2. i - 1 \in 1..Len(s) /\ i = (i - 1) + 1
        BY <1>1, <3>1
      <3> QED
        BY <3>2
    <2>3. ASSUME NEW i \in DOMAIN t, NEW j \in DOMAIN t, t[i].id = t[j].id
          PROVE  i = j
      <3>1. CASE i = 1 /\ j = 1
        BY <3>1
      <3>2. ASSUME NEW k \in 1..Len(s), t[k + 1].id = t[1].id PROVE FALSE
        BY <1>1, <1>3, <2>1, <3>2 DEF Has
      <3>3. ASSUME NEW k \in 1..Len(s), i = k + 1, NEW l \in 1..Len(s), j = l + 1
            PROVE  i = j
        <4>1. s[k].id = s[l].id
          BY <2>1, <2>3, <3>3
        <4> QED
          BY <1>1, <3>3, <4>1 DEF Tidy, Distinct
      <3> QED
        BY <2>2, <2>3, <3>1, <3>2, <3>3
    <2>4. Tidy(t)
      BY <2>1, <2>3 DEF Tidy, Distinct
    <2> QED
      BY <1>3, <2>4 DEF Prepended, t
  <1> QED
    BY <1>2, <1>3

LEMMA AppendedIsTidy ==
  ASSUME NEW s, Tidy(s), NEW r \in Notes, ~Has(s, r.id)
  PROVE  Tidy(Appended(s, r))
  <1> DEFINE t == Append(s, r)
  <1>1. s \in Seq(Notes) /\ DOMAIN s = 1..Len(s) /\ Len(s) \in Nat
    BY DEF Tidy
  <1>2. /\ t \in Seq(Notes) /\ DOMAIN t = 1..(Len(s) + 1)
        /\ t[Len(s) + 1] = r /\ \A i \in 1..Len(s) : t[i] = s[i]
    BY <1>1, AppendProperties
  <1> HIDE DEF t
  <1>3. ASSUME NEW i \in DOMAIN t, NEW j \in DOMAIN t, t[i].id = t[j].id
        PROVE  i = j
    <2>1. i \in 1..Len(s) \/ i = Len(s) + 1
      BY <1>1, <1>2
    <2>2. j \in 1..Len(s) \/ j = Len(s) + 1
      BY <1>1, <1>2
    <2> QED
      BY <1>1, <1>2, <1>3, <2>1, <2>2 DEF Tidy, Distinct, Has
  <1>4. Tidy(t)
    BY <1>2, <1>3 DEF Tidy, Distinct
  <1> QED
    BY <1>4 DEF Appended, t

-----------------------------------------------------------------------------
(* The handlers' updates of a copy. *)

LEMMA NoteChanged ==
  ASSUME NEW r \in Notes
  PROVE  /\ r.id \in Msgs /\ r.rc \in Nat /\ r.reac \subseteq Users
         /\ \A n \in Nat : LET q == [r EXCEPT !.rc = n]
                          IN  q \in Notes /\ q.id = r.id
         /\ \A R \in SUBSET Users : LET q == [r EXCEPT !.reac = R]
                                    IN  q \in Notes /\ q.id = r.id
  BY DEF Notes

LEMMA CountUpTidy ==
  ASSUME NEW s, Tidy(s)
  PROVE  Tidy(CountUp(s))
  <1> DEFINE t == CountUp(s)
  <1>1. s \in Seq(Notes) /\ \A i \in DOMAIN s : s[i] \in Notes
    BY ElementOfSeq DEF Tidy
  <1>2. t = [i \in DOMAIN s |-> IF s[i].id = Parent
                                THEN [s[i] EXCEPT !.rc = @ + 1] ELSE s[i]]
    BY DEF CountUp, Changed
  <1>3. \A i \in DOMAIN s : t[i] \in Notes /\ t[i].id = s[i].id
    <2> TAKE i \in DOMAIN s
    <2> DEFINE n == s[i].rc + 1
    <2>1. s[i] \in Notes /\ n \in Nat
      BY <1>1, NoteChanged
    <2>2. t[i] = IF s[i].id = Parent THEN [s[i] EXCEPT !.rc = n] ELSE s[i]
      BY <1>2
    <2> HIDE DEF n, t
    <2> QED
      BY <2>1, <2>2, NoteChanged
  <1> HIDE DEF t
  <1>4. t = [i \in DOMAIN s |-> t[i]]
    BY <1>2
  <1>5. Tidy(t)
    BY <1>3, <1>4, ChangedIsTidy
  <1> QED
    BY <1>5 DEF t

LEMMA CountDownTidy ==
  ASSUME NEW s, Tidy(s)
  PROVE  Tidy(CountDown(s))
  <1> DEFINE t == CountDown(s)
  <1>1. s \in Seq(Notes) /\ \A i \in DOMAIN s : s[i] \in Notes
    BY ElementOfSeq DEF Tidy
  <1>2. t = [i \in DOMAIN s |-> IF s[i].id = Parent
                THEN [s[i] EXCEPT !.rc = IF @ = 0 THEN 0 ELSE @ - 1] ELSE s[i]]
    BY DEF CountDown, Changed
  <1>3. \A i \in DOMAIN s : t[i] \in Notes /\ t[i].id = s[i].id
    <2> TAKE i \in DOMAIN s
    <2> DEFINE n == IF s[i].rc = 0 THEN 0 ELSE s[i].rc - 1
    <2>1. s[i] \in Notes /\ n \in Nat
      BY <1>1, NoteChanged
    <2>2. t[i] = IF s[i].id = Parent THEN [s[i] EXCEPT !.rc = n] ELSE s[i]
      BY <1>2
    <2> HIDE DEF n, t
    <2> QED
      BY <2>1, <2>2, NoteChanged
  <1> HIDE DEF t
  <1>4. t = [i \in DOMAIN s |-> t[i]]
    BY <1>2
  <1>5. Tidy(t)
    BY <1>3, <1>4, ChangedIsTidy
  <1> QED
    BY <1>5 DEF t

LEMMA DeletedTidy ==
  ASSUME NEW s, Tidy(s), NEW m
  PROVE  Tidy(Deleted(s, m))
  <1> DEFINE t == [i \in DOMAIN s |-> IF s[i].id = m
                                      THEN [s[i] EXCEPT !.dead = TRUE] ELSE s[i]]
             keep == {i \in DOMAIN s : s[i].id # m \/ s[i].rc > 0}
  <1>1. s \in Seq(Notes) /\ \A i \in DOMAIN s : s[i] \in Notes
    BY ElementOfSeq DEF Tidy
  <1>2. \A i \in DOMAIN s : t[i] \in Notes /\ t[i].id = s[i].id
    BY <1>1 DEF Notes
  <1>3. t = [i \in DOMAIN s |-> t[i]] /\ DOMAIN t = DOMAIN s
    OBVIOUS
  <1>4. Deleted(s, m) = Picked(t, keep)
    BY DEF Deleted, Changed
  <1>5. \A i \in keep : i \in DOMAIN t
    OBVIOUS
  <1> HIDE DEF t, keep
  <1>6. Tidy(t)
    BY <1>2, <1>3, ChangedIsTidy
  <1> QED
    BY <1>4, <1>5, <1>6, PickedIsTidy

LEMMA WithoutTidy ==
  ASSUME NEW s, Tidy(s), NEW m
  PROVE  Tidy(Without(s, m))
  <1> DEFINE keep == {i \in DOMAIN s : s[i].id # m}
  <1>1. Without(s, m) = Picked(s, keep) /\ \A i \in keep : i \in DOMAIN s
    BY DEF Without
  <1> HIDE DEF keep
  <1> QED
    BY <1>1, PickedIsTidy

LEMMA MergedTidy ==
  ASSUME NEW s, Tidy(s), NEW m, NEW version \in Nat, NEW rc \in Nat,
         NEW dead \in BOOLEAN
  PROVE  Tidy(Merged(s, m, version, rc, dead))
  <1> DEFINE t == Merged(s, m, version, rc, dead)
  <1>1. s \in Seq(Notes) /\ \A i \in DOMAIN s : s[i] \in Notes
    BY ElementOfSeq DEF Tidy
  <1>2. t = [i \in DOMAIN s |-> IF s[i].id = m
                THEN [s[i] EXCEPT !.text = version, !.rc = rc, !.dead = @ \/ dead]
                ELSE s[i]]
    BY DEF Merged, Changed
  <1> HIDE DEF t
  <1>3. ASSUME NEW i \in DOMAIN s PROVE t[i] \in Notes /\ t[i].id = s[i].id
    <2>1. PICK d \in BOOLEAN : d = (s[i].dead \/ dead)
      OBVIOUS
    <2>2. t[i] = IF s[i].id = m
                 THEN [s[i] EXCEPT !.text = version, !.rc = rc, !.dead = d] ELSE s[i]
      BY <1>2, <2>1
    <2>3. s[i] \in Notes
      BY <1>1
    <2> QED
      BY <2>2, <2>3 DEF Notes
  <1>4. t = [i \in DOMAIN s |-> t[i]]
    BY <1>2
  <1>5. Tidy(t)
    BY <1>3, <1>4, ChangedIsTidy
  <1> QED
    BY <1>5 DEF t

LEMMA ReactedTidy ==
  ASSUME NEW s, Tidy(s), NEW m, NEW u \in Users
  PROVE  Tidy(Reacted(s, m, u)) /\ Tidy(Unreacted(s, m, u))
  <1> DEFINE t == Reacted(s, m, u)
             w == Unreacted(s, m, u)
  <1>1. s \in Seq(Notes) /\ \A i \in DOMAIN s : s[i] \in Notes
    BY ElementOfSeq DEF Tidy
  <1>2. /\ t = [i \in DOMAIN s |-> IF s[i].id = m
                    THEN [s[i] EXCEPT !.reac = @ \cup {u}] ELSE s[i]]
        /\ w = [i \in DOMAIN s |-> IF s[i].id = m
                    THEN [s[i] EXCEPT !.reac = @ \ {u}] ELSE s[i]]
    BY DEF Reacted, Unreacted, Changed
  <1>3. \A i \in DOMAIN s : /\ t[i] \in Notes /\ t[i].id = s[i].id
                            /\ w[i] \in Notes /\ w[i].id = s[i].id
    <2> TAKE i \in DOMAIN s
    <2> DEFINE R == s[i].reac \cup {u}
               L == s[i].reac \ {u}
    <2>1. s[i] \in Notes /\ R \in SUBSET Users /\ L \in SUBSET Users
      BY <1>1, NoteChanged
    <2>2. /\ t[i] = IF s[i].id = m THEN [s[i] EXCEPT !.reac = R] ELSE s[i]
          /\ w[i] = IF s[i].id = m THEN [s[i] EXCEPT !.reac = L] ELSE s[i]
      BY <1>2
    <2> HIDE DEF R, L, t, w
    <2> QED
      BY <2>1, <2>2, NoteChanged
  <1> HIDE DEF t, w
  <1>4. t = [i \in DOMAIN s |-> t[i]] /\ w = [i \in DOMAIN s |-> w[i]]
    BY <1>2
  <1>5. Tidy(t)
    BY <1>3, <1>4, ChangedIsTidy
  <1>6. Tidy(w)
    BY <1>3, <1>4, ChangedIsTidy
  <1> QED
    BY <1>5, <1>6 DEF t, w

LEMMA ReplacedTidy ==
  ASSUME NEW s, Tidy(s), NEW r \in Notes
  PROVE  Tidy(Changed(s, r.id, LAMBDA x : r))
  <1> DEFINE t == Changed(s, r.id, LAMBDA x : r)
  <1>1. s \in Seq(Notes) /\ \A i \in DOMAIN s : s[i] \in Notes
    BY ElementOfSeq DEF Tidy
  <1>2. t = [i \in DOMAIN s |-> IF s[i].id = r.id THEN r ELSE s[i]]
    BY DEF Changed
  <1> HIDE DEF t
  <1>3. \A i \in DOMAIN s : t[i] \in Notes /\ t[i].id = s[i].id
    BY <1>1, <1>2
  <1>4. t = [i \in DOMAIN s |-> t[i]]
    BY <1>2
  <1>5. Tidy(t)
    BY <1>3, <1>4, ChangedIsTidy
  <1> QED
    BY <1>5 DEF t

-----------------------------------------------------------------------------
(* The invariant: nothing that becomes a copy holds a message twice.  That   *)
(* goes for the answers under way and the lists kept for a rollback, and     *)
(* rests on the server's posting each message once.                          *)

FewReplies == {R \in SUBSET Replies : IsFiniteSet(R)}
Kinds == {"new", "edit", "delete", "react", "unreact"}
Events == [kind : Kinds, m : Msgs, who : Users, by : Nat, text : Nat,
           dead : BOOLEAN, live : FewReplies, ready : BOOLEAN,
           why : SUBSET {"crossed", "untold"}]

ServerTyped ==
    /\ born \in Seq(Msgs)
    /\ \A i, j \in DOMAIN born : born[i] = born[j] => i = j
    /\ gone \in SUBSET Msgs
    /\ text \in [Msgs -> Nat]
    /\ reacts \in [Msgs -> SUBSET Users]
    /\ wire \in Seq(Events)
    /\ unsent \in Seq(Events)

CopyTyped(q) == q.ok \in BOOLEAN /\ Tidy(q.msgs)

FetchTyped(f) ==
    /\ f = [stage |-> f.stage, msgs |-> f.msgs, live |-> f.live,
            ahead |-> f.ahead, late |-> f.late]
    /\ Tidy(f.msgs)

RequestTyped(p) ==
    /\ p = [kind |-> p.kind, place |-> p.place, m |-> p.m, no |-> p.no,
            stage |-> p.stage, text |-> p.text, live |-> p.live, prev |-> p.prev,
            had |-> p.had, skew |-> p.skew]
    /\ p.m \in Msgs /\ p.no \in Nat /\ p.text \in Nat /\ p.live \in FewReplies
    /\ Tidy(p.prev)

CopiesInv ==
    /\ ServerTyped
    /\ CopyTyped(list) /\ CopyTyped(thread)
    /\ FetchTyped(lf) /\ FetchTyped(tf)
    /\ ops \in Nat
    /\ \A p \in pending : RequestTyped(p)

LEMMA NothingIsTidy == Tidy(<<>>)
  BY DEF Tidy, Distinct

LEMMA LiveIsFinite ==
  ASSUME ServerTyped
  PROVE  LiveReplies \in FewReplies
  <1>1. born \in Seq(Msgs) /\ Len(born) \in Nat /\ DOMAIN born = 1..Len(born)
    BY DEF ServerTyped
  <1>2. IsFiniteSet(DOMAIN born)
    BY <1>1, FS_Interval
  <1>3. IsFiniteSet({born[i] : i \in DOMAIN born})
    <2> DEFINE T == {born[i] : i \in DOMAIN born}
    <2>1. born \in [DOMAIN born -> T]
      BY <1>1
    <2>2. \A x \in T : \E i \in DOMAIN born : born[i] = x
      OBVIOUS
    <2>3. born \in Surjection(DOMAIN born, T)
      BY <2>1, <2>2 DEF Surjection
    <2> HIDE DEF T
    <2> QED
      BY <1>2, <2>3, FS_Surjection DEF T
  <1>4. LiveReplies \subseteq {born[i] : i \in DOMAIN born}
    BY DEF LiveReplies, Born
  <1>5. IsFiniteSet(LiveReplies)
    BY <1>3, <1>4, FS_Subset
  <1> QED
    BY <1>5 DEF FewReplies, LiveReplies

LEMMA CountOfReplies ==
  ASSUME NEW R \in FewReplies
  PROVE  Cardinality(R) \in Nat
  BY FS_CardinalityType DEF FewReplies

LEMMA RowTyped ==
  ASSUME ServerTyped, NEW m \in Msgs
  PROVE  Row(m) \in Notes /\ Row(m).id = m
  <1>1. Cardinality(LiveReplies) \in Nat
    BY LiveIsFinite, CountOfReplies
  <1>2. text[m] \in Nat /\ reacts[m] \in SUBSET Users
    BY DEF ServerTyped
  <1>3. (m \in gone) \in BOOLEAN
    OBVIOUS
  <1> QED
    BY <1>1, <1>2, <1>3 DEF Row, Record, Notes

LEMMA NewNote ==
  ASSUME NEW m \in Msgs, NEW version \in Nat, NEW rc \in Nat, NEW dead \in BOOLEAN
  PROVE  /\ Record(m, version, rc, dead, {}) \in Notes
         /\ Record(m, version, rc, dead, {}).id = m
  BY DEF Record, Notes

\* What the server answers to a fetch, of the list and of the thread.
LEMMA RowsOfTidy ==
  ASSUME ServerTyped, NEW keep, \A i \in keep : i \in DOMAIN born,
         NEW t, t = [k \in DOMAIN Picked(born, keep) |-> Row(Picked(born, keep)[k])]
  PROVE  Tidy(t) /\ Tidy(Reversed(t))
  <1> DEFINE ids == Picked(born, keep)
             n == Cardinality(keep)
  <1>1. born \in Seq(Msgs) /\ DOMAIN born = 1..Len(born)
    BY DEF ServerTyped
  <1>2. /\ ids \in Seq(Msgs) /\ Len(ids) = n /\ n \in Nat
        /\ \A k \in 1..n : ids[k] = born[Nth(keep, k)] /\ Nth(keep, k) \in 1..Len(born)
        /\ \A k, l \in 1..n : Nth(keep, k) = Nth(keep, l) => k = l
    BY <1>1, PickedOf
  <1>3. t = [k \in DOMAIN ids |-> Row(ids[k])]
    OBVIOUS
  <1> HIDE DEF ids, n
  <1>4. DOMAIN ids = 1..n /\ \A k \in 1..n : ids[k] \in Msgs
    BY <1>2, ElementOfSeq
  <1>5. \A k \in 1..n : t[k] \in Notes /\ t[k].id = ids[k]
    BY <1>3, <1>4, RowTyped
  <1>6. t \in [1..n -> Notes]
    BY <1>3, <1>4, <1>5
  <1>7. t \in Seq(Notes) /\ Len(t) = n /\ DOMAIN t = 1..n
    BY <1>2, <1>6
  <1>8. ASSUME NEW k \in 1..n, NEW l \in 1..n, t[k].id = t[l].id
        PROVE  k = l
    <2>1. born[Nth(keep, k)] = born[Nth(keep, l)]
      BY <1>2, <1>5, <1>8
    <2>2. Nth(keep, k) = Nth(keep, l)
      BY <1>1, <1>2, <2>1 DEF ServerTyped
    <2> QED
      BY <1>2, <2>2
  <1>9. Tidy(t)
    BY <1>7, <1>8 DEF Tidy, Distinct
  <1> DEFINE w == Reversed(t)
  <1>10. w = [k \in 1..n |-> t[n + 1 - k]]
    BY <1>7 DEF Reversed
  <1>11. w \in [1..n -> Notes]
    <2>1. \A k \in 1..n : n + 1 - k \in 1..n
      BY <1>2
    <2>2. \A k \in 1..n : t[n + 1 - k] \in Notes
      BY <1>5, <2>1
    <2> QED
      BY <1>10, <2>2
  <1>12. w \in Seq(Notes) /\ Len(w) = n /\ DOMAIN w = 1..n
    BY <1>2, <1>11
  <1> HIDE DEF w
  <1>13. ASSUME NEW k \in 1..n, NEW l \in 1..n, w[k].id = w[l].id
         PROVE  k = l
    <2>1. n + 1 - k \in 1..n /\ n + 1 - l \in 1..n
      BY <1>2
    <2>2. t[n + 1 - k].id = t[n + 1 - l].id
      BY <1>10, <1>13
    <2>3. n + 1 - k = n + 1 - l
      BY <1>8, <2>1, <2>2
    <2> QED
      BY <1>2, <2>3
  <1>14. Tidy(w)
    BY <1>12, <1>13 DEF Tidy, Distinct
  <1> QED
    BY <1>9, <1>14 DEF w

LEMMA AnswersTidy ==
  ASSUME ServerTyped
  PROVE  Tidy(ChannelRows) /\ Tidy(ThreadRows)
  <1> DEFINE shown == {i \in DOMAIN born : born[i] \notin Replies \ Broadcast}
             inside == {i \in DOMAIN born : born[i] \in Replies}
             a == [k \in DOMAIN Picked(born, shown) |-> Row(Picked(born, shown)[k])]
             b == [k \in DOMAIN Picked(born, inside) |-> Row(Picked(born, inside)[k])]
  <1>1. ChannelRows = Reversed(a) /\ ThreadRows = b
    BY DEF ChannelRows, ThreadRows
  <1>2. (\A i \in shown : i \in DOMAIN born) /\ (\A i \in inside : i \in DOMAIN born)
    OBVIOUS
  <1> HIDE DEF shown, inside
  <1>3. Tidy(a) /\ Tidy(Reversed(a))
    BY <1>2, RowsOfTidy
  <1>4. Tidy(b)
    BY <1>2, RowsOfTidy
  <1> QED
    BY <1>1, <1>3, <1>4

-----------------------------------------------------------------------------
(* The server. *)

LEMMA EventTyped ==
  ASSUME NEW kind \in Kinds, NEW m \in Msgs, NEW u \in Users, NEW no \in Nat
  PROVE  Event(kind, m, u, no) \in Events
  <1>1. {} \in FewReplies /\ (kind \notin {"new", "edit"}) \in BOOLEAN
    BY FS_EmptySet DEF FewReplies
  <1> QED
    BY <1>1 DEF Event, Events

LEMMA PromiseTyped ==
  ASSUME ServerTyped, NEW kind \in Kinds, NEW m \in Msgs, NEW u \in Users,
         NEW no \in Nat, Promise(Event(kind, m, u, no))
  PROVE  unsent' \in Seq(Events) /\ wire' \in Seq(Events)
  <1>1. Event(kind, m, u, no) \in Events
    BY EventTyped
  <1> QED
    BY <1>1, AppendProperties DEF Promise, ServerTyped

LEMMA CommitTyped ==
  ASSUME ServerTyped, NEW kind, NEW m \in Msgs, NEW u \in Users, NEW no \in Nat,
         Commit(kind, m, u, no)
  PROVE  ServerTyped'
  <1>1. Me \in Users
    BY DEF Users
  <1>2. text[m] \in Nat /\ text[m] + 1 \in Nat /\ reacts[m] \in SUBSET Users
    BY DEF ServerTyped
  <1>3. CASE CommitNew(m, no)
    <2>1. unsent' \in Seq(Events) /\ wire' \in Seq(Events)
      BY <1>1, <1>3, PromiseTyped DEF CommitNew, Kinds
    <2>2. /\ born \in Seq(Msgs) /\ Len(born) \in Nat
          /\ born' \in Seq(Msgs) /\ DOMAIN born' = 1..(Len(born) + 1)
          /\ born'[Len(born) + 1] = m /\ \A i \in 1..Len(born) : born'[i] = born[i]
      BY <1>3, AppendProperties DEF CommitNew, ServerTyped
    <2>3. \A i \in 1..Len(born) : born[i] # m
      BY <1>3, <2>2 DEF CommitNew, Born
    <2>4. ASSUME NEW i \in DOMAIN born', NEW j \in DOMAIN born', born'[i] = born'[j]
          PROVE  i = j
      <3>1. (i \in 1..Len(born) \/ i = Len(born) + 1)
            /\ (j \in 1..Len(born) \/ j = Len(born) + 1)
        BY <2>2
      <3>2. CASE i \in 1..Len(born) /\ j \in 1..Len(born)
        <4>1. born[i] = born[j] /\ i \in DOMAIN born /\ j \in DOMAIN born
          BY <2>2, <2>4, <3>2
        <4> QED
          BY <4>1 DEF ServerTyped
      <3>3. CASE i \in 1..Len(born) /\ j = Len(born) + 1
        BY <2>2, <2>3, <2>4, <3>3
      <3>4. CASE i = Len(born) + 1 /\ j \in 1..Len(born)
        BY <2>2, <2>3, <2>4, <3>4
      <3> QED
        BY <3>1, <3>2, <3>3, <3>4
    <2> QED
      BY <1>3, <2>1, <2>2, <2>4 DEF CommitNew, ServerTyped
  <1>4. CASE CommitEdit(m, no)
    <2>1. unsent' \in Seq(Events) /\ wire' \in Seq(Events)
      BY <1>1, <1>4, PromiseTyped DEF CommitEdit, Kinds
    <2>2. text' \in [Msgs -> Nat]
      BY <1>2, <1>4 DEF CommitEdit, ServerTyped
    <2> QED
      BY <1>4, <2>1, <2>2 DEF CommitEdit, ServerTyped
  <1>5. CASE CommitDelete(m, no)
    <2>1. unsent' \in Seq(Events) /\ wire' \in Seq(Events)
      BY <1>1, <1>5, PromiseTyped DEF CommitDelete, Kinds
    <2> QED
      BY <1>5, <2>1 DEF CommitDelete, ServerTyped
  <1>6. CASE CommitReact(m, u, no)
    <2>1. unsent' \in Seq(Events) /\ wire' \in Seq(Events)
      BY <1>1, <1>6, PromiseTyped DEF CommitReact, Kinds
    <2>2. reacts' \in [Msgs -> SUBSET Users]
      BY <1>2, <1>6 DEF CommitReact, ServerTyped
    <2> QED
      BY <1>6, <2>1, <2>2 DEF CommitReact, ServerTyped
  <1>7. CASE CommitUnreact(m, u, no)
    <2>1. unsent' \in Seq(Events) /\ wire' \in Seq(Events)
      BY <1>1, <1>7, PromiseTyped DEF CommitUnreact, Kinds
    <2>2. reacts' \in [Msgs -> SUBSET Users]
      BY <1>2, <1>7 DEF CommitUnreact, ServerTyped
    <2> QED
      BY <1>7, <2>1, <2>2 DEF CommitUnreact, ServerTyped
  <1> QED
    BY <1>3, <1>4, <1>5, <1>6, <1>7 DEF Commit

-----------------------------------------------------------------------------
(* The event handlers and the answers, one copy at a time. *)

LEMMA AddReplyTidy ==
  ASSUME CopyTyped(list), CopyTyped(thread), NEW row \in Notes, NEW why,
         AddReply(row, why)
  PROVE  CopyTyped(list') /\ CopyTyped(thread')
  <1> DEFINE r == row.id
             s1 == IF r \in Broadcast THEN Prepended(list.msgs, row) ELSE list.msgs
  <1>2. CopyTyped(thread')
    <2>1. CASE InThread(r) \/ ~thread.ok
      BY <2>1 DEF AddReply, Apply
    <2>2. CASE ~InThread(r) /\ thread.ok
      <3>1. thread' = Loaded(Appended(thread.msgs, row))
        BY <2>2 DEF AddReply, Apply
      <3>2. Tidy(Appended(thread.msgs, row))
        BY <2>2, AppendedIsTidy DEF CopyTyped, InThread
      <3> QED
        BY <3>1, <3>2 DEF CopyTyped, Loaded
    <2> QED
      BY <2>1, <2>2
  <1>3. CopyTyped(list')
    <2>1. CASE ~list.ok
      BY <2>1 DEF AddReply, Apply
    <2>2. CASE list.ok
      <3>1. list' = Loaded(IF InThread(r) THEN s1 ELSE CountUp(s1))
        BY <2>2 DEF AddReply, Apply
      <3>2. Tidy(s1)
        BY PrependedIsTidy DEF CopyTyped
      <3> HIDE DEF s1
      <3>3. Tidy(CountUp(s1))
        BY <3>2, CountUpTidy
      <3> QED
        BY <3>1, <3>2, <3>3 DEF CopyTyped, Loaded
    <2> QED
      BY <2>1, <2>2 DEF CopyTyped
  <1> QED
    BY <1>2, <1>3

LEMMA AddRootTidy ==
  ASSUME CopyTyped(list), CopyTyped(thread), NEW row \in Notes, NEW why,
         AddRoot(row, why)
  PROVE  CopyTyped(list') /\ CopyTyped(thread')
  <1>1. Tidy(Prepended(list.msgs, row))
    BY PrependedIsTidy DEF CopyTyped
  <1>2. list' = IF list.ok THEN Loaded(Prepended(list.msgs, row)) ELSE list
    BY DEF AddRoot, Apply
  <1>3. CopyTyped(list')
    BY <1>1, <1>2 DEF CopyTyped, Loaded
  <1>4. thread' = thread
    BY DEF AddRoot
  <1> QED
    BY <1>3, <1>4

\* A deletion, by its event or by its answer.
LEMMA DeletionTidy ==
  ASSUME CopyTyped(list), CopyTyped(thread), NEW m, NEW count \in BOOLEAN,
         list' = IF list.ok
                 THEN Loaded(IF count THEN CountDown(Deleted(list.msgs, m))
                             ELSE Deleted(list.msgs, m))
                 ELSE list,
         thread' = IF thread.ok THEN Loaded(Without(thread.msgs, m)) ELSE thread
  PROVE  CopyTyped(list') /\ CopyTyped(thread')
  <1>1. Tidy(Deleted(list.msgs, m)) /\ Tidy(Without(thread.msgs, m))
    BY DeletedTidy, WithoutTidy DEF CopyTyped
  <1>2. Tidy(CountDown(Deleted(list.msgs, m)))
    BY <1>1, CountDownTidy
  <1>3. CopyTyped(list')
    BY <1>1, <1>2 DEF CopyTyped, Loaded
  <1>4. CopyTyped(thread')
    BY <1>1 DEF CopyTyped, Loaded
  <1> QED
    BY <1>3, <1>4

LEMMA HandlersTidy ==
  ASSUME CopiesInv, ReceiveEvent
  PROVE  CopyTyped(list') /\ CopyTyped(thread')
  <1> DEFINE e == Head(wire)
  <1>1. CopyTyped(list) /\ CopyTyped(thread)
    BY DEF CopiesInv
  <1>2. e \in Events
    BY HeadTailProperties DEF ReceiveEvent, CopiesInv, ServerTyped
  <1>3. /\ e.m \in Msgs /\ e.who \in Users /\ e.text \in Nat /\ e.dead \in BOOLEAN
        /\ Cardinality(e.live) \in Nat
    BY <1>2, CountOfReplies DEF Events
  <1> HIDE DEF e
  <1>4. CASE HandleNewMessage(e)
    <2>1. PICK row : row = Record(e.m, e.text, 0, e.dead, {})
      OBVIOUS
    <2>2. row \in Notes
      BY <1>3, <2>1, NewNote
    <2>3. AddReply(row, e.why) \/ AddRoot(row, e.why)
      BY <1>4, <2>1 DEF HandleNewMessage
    <2> QED
      BY <1>1, <2>2, <2>3, AddReplyTidy, AddRootTidy
  <1>5. CASE HandleMessageUpdated(e)
    <2>1. Tidy(Merged(list.msgs, e.m, e.text, Cardinality(e.live), e.dead))
      BY <1>1, <1>3, MergedTidy DEF CopyTyped
    <2> QED
      BY <1>1, <1>5, <2>1 DEF HandleMessageUpdated, Apply, CopyTyped, Loaded
  <1>6. CASE HandleMessageDeleted(e)
    <2> DEFINE reply == e.m \in Replies
               took == reply /\ thread.ok /\ ~Has(thread.msgs, e.m)
               count == reply /\ ~took
    <2>1. /\ list' = IF list.ok
                     THEN Loaded(IF count THEN CountDown(Deleted(list.msgs, e.m))
                                 ELSE Deleted(list.msgs, e.m))
                     ELSE list
          /\ thread' = IF thread.ok THEN Loaded(Without(thread.msgs, e.m)) ELSE thread
      BY <1>6 DEF HandleMessageDeleted, Apply
    <2>2. count \in BOOLEAN
      OBVIOUS
    <2> HIDE DEF count
    <2> QED
      BY <1>1, <2>1, <2>2, DeletionTidy
  <1>7. CASE HandleReactionAdded(e)
    <2>1. Tidy(Reacted(list.msgs, e.m, e.who))
      BY <1>1, <1>3, ReactedTidy DEF CopyTyped
    <2> QED
      BY <1>1, <1>7, <2>1 DEF HandleReactionAdded, Apply, CopyTyped, Loaded
  <1>8. CASE HandleReactionRemoved(e)
    <2>1. Tidy(Unreacted(list.msgs, e.m, e.who))
      BY <1>1, <1>3, ReactedTidy DEF CopyTyped
    <2> QED
      BY <1>1, <1>8, <2>1 DEF HandleReactionRemoved, Apply, CopyTyped, Loaded
  <1> QED
    BY <1>4, <1>5, <1>6, <1>7, <1>8 DEF ReceiveEvent, e

LEMMA SuccessTidy ==
  ASSUME CopiesInv, NEW p \in pending, Answered(p)
  PROVE  CopyTyped(list') /\ CopyTyped(thread')
  <1>1. CopyTyped(list) /\ CopyTyped(thread) /\ RequestTyped(p)
    BY DEF CopiesInv
  <1>2. p.m \in Msgs /\ p.text \in Nat /\ Cardinality(p.live) \in Nat
    BY <1>1, CountOfReplies DEF RequestTyped
  <1>3. CASE SendSuccess(p) \/ SendThreadReplySuccess(p)
    <2>1. AnswerRow(p) \in Notes
      BY <1>2, NewNote DEF AnswerRow
    <2>2. AddReply(AnswerRow(p), {}) \/ AddRoot(AnswerRow(p), {})
      BY <1>3 DEF SendSuccess, SendThreadReplySuccess
    <2> QED
      BY <1>1, <2>1, <2>2, AddReplyTidy, AddRootTidy
  <1>5. CASE UpdateSuccess(p)
    <2> DEFINE rc == IF p.m = Parent THEN Cardinality(p.live) ELSE 0
               answer == Record(p.m, p.text, rc, FALSE, {})
    <2>1. answer \in Notes /\ answer.id = p.m
      <3>1. rc \in Nat
        BY <1>2
      <3> HIDE DEF rc
      <3> QED
        BY <1>2, <3>1, NewNote
    <2>2. list' = IF list.ok THEN Loaded(Changed(list.msgs, p.m, LAMBDA x : answer))
                  ELSE list
      BY <1>5 DEF UpdateSuccess, Apply
    <2>3. thread' = thread
      BY <1>5 DEF UpdateSuccess
    <2> HIDE DEF answer
    <2>4. Tidy(Changed(list.msgs, answer.id, LAMBDA x : answer))
      BY <1>1, <2>1, ReplacedTidy DEF CopyTyped
    <2>5. Changed(list.msgs, answer.id, LAMBDA x : answer)
              = Changed(list.msgs, p.m, LAMBDA x : answer)
      BY <2>1
    <2>6. CopyTyped(list')
      BY <1>1, <2>2, <2>4, <2>5 DEF CopyTyped, Loaded
    <2> QED
      BY <1>1, <2>3, <2>6
  <1>6. CASE DeleteSuccess(p)
    <2> DEFINE found == InThread(p.m) \/ (list.ok /\ Has(list.msgs, p.m))
               count == p.m \in Replies /\ found
    <2>1. /\ list' = IF list.ok
                     THEN Loaded(IF count THEN CountDown(Deleted(list.msgs, p.m))
                                 ELSE Deleted(list.msgs, p.m))
                     ELSE list
          /\ thread' = IF thread.ok THEN Loaded(Without(thread.msgs, p.m)) ELSE thread
      BY <1>6 DEF DeleteSuccess, Apply
    <2>2. count \in BOOLEAN
      OBVIOUS
    <2> HIDE DEF count
    <2> QED
      BY <1>1, <2>1, <2>2, DeletionTidy
  <1>7. CASE ReactionSuccess(p)
    BY <1>1, <1>7 DEF ReactionSuccess
  <1> QED
    BY <1>3, <1>5, <1>6, <1>7 DEF Answered

LEMMA FailureTidy ==
  ASSUME CopiesInv, NEW p \in pending, Failed(p)
  PROVE  CopyTyped(list') /\ CopyTyped(thread')
  <1>1. CopyTyped(list) /\ CopyTyped(thread) /\ RequestTyped(p)
    BY DEF CopiesInv
  <1>2. CASE Rollback(p)
    <2>1. list' = Loaded(p.prev) /\ thread' = thread /\ Tidy(p.prev)
      BY <1>1, <1>2 DEF Rollback, RequestTyped
    <2> QED
      BY <1>1, <2>1 DEF CopyTyped, Loaded
  <1>3. CASE NoRollback(p)
    BY <1>1, <1>3 DEF NoRollback
  <1>4. CASE UNCHANGED <<list, thread, ghosts>>
    BY <1>1, <1>4
  <1> QED
    BY <1>2, <1>3, <1>4 DEF Failed

-----------------------------------------------------------------------------
(* The requests. *)

LEMMA NewRequestTyped ==
  ASSUME NEW kind, NEW place, NEW m \in Msgs, ops \in Nat
  PROVE  RequestTyped(Request(kind, place, m))
  <1>1. {} \in FewReplies /\ ops + 1 \in Nat
    BY FS_EmptySet DEF FewReplies
  <1> QED
    BY <1>1, NothingIsTidy DEF Request, RequestTyped

\* A remembered list, and what the server has done, are put into a request.
LEMMA RequestRemembers ==
  ASSUME NEW p, RequestTyped(p), NEW old, Tidy(old), NEW had, NEW skew
  PROVE  RequestTyped([p EXCEPT !.prev = old, !.had = had, !.skew = skew])
  <1> DEFINE a == [p EXCEPT !.prev = old]
             b == [a EXCEPT !.had = had]
             c == [b EXCEPT !.skew = skew]
  <1>1. RequestTyped(a)
    BY DEF RequestTyped
  <1> HIDE DEF a
  <1>2. RequestTyped(b)
    BY <1>1 DEF RequestTyped
  <1> HIDE DEF b
  <1>3. RequestTyped(c)
    BY <1>2 DEF RequestTyped
  <1> QED
    BY <1>3 DEF a, b, c

LEMMA RequestServed ==
  ASSUME NEW p, RequestTyped(p), NEW n \in Nat, NEW R \in FewReplies
  PROVE  RequestTyped([p EXCEPT !.stage = "done", !.text = n, !.live = R])
  <1> DEFINE a == [p EXCEPT !.stage = "done"]
             b == [a EXCEPT !.text = n]
             c == [b EXCEPT !.live = R]
  <1>1. RequestTyped(a)
    BY DEF RequestTyped
  <1> HIDE DEF a
  <1>2. RequestTyped(b)
    BY <1>1 DEF RequestTyped
  <1> HIDE DEF b
  <1>3. RequestTyped(c)
    BY <1>2 DEF RequestTyped
  <1> QED
    BY <1>3 DEF a, b, c

LEMMA CopyLoaded ==
  ASSUME NEW s, Tidy(s)
  PROVE  CopyTyped(Loaded(s))
  BY DEF CopyTyped, Loaded

LEMMA AskTidy ==
  ASSUME CopiesInv, Ask
  PROVE  /\ CopyTyped(list') /\ CopyTyped(thread')
         /\ \A p \in pending' : RequestTyped(p)
  <1>1. /\ CopyTyped(list) /\ CopyTyped(thread) /\ ops \in Nat
        /\ \A p \in pending : RequestTyped(p)
    BY DEF CopiesInv
  <1>2. PICK m \in Msgs : AskSend(m) \/ AskEdit(m) \/ AskDelete(m)
                          \/ AskReactInList(m) \/ AskReactInPanel(m)
    BY DEF Ask
  <1>3. CASE AskSend(m)
    BY <1>1, <1>3, NewRequestTyped DEF AskSend, Unaltered
  <1>4. CASE AskEdit(m)
    BY <1>1, <1>4, NewRequestTyped DEF AskEdit, Unaltered
  <1>5. CASE AskDelete(m)
    BY <1>1, <1>5, NewRequestTyped DEF AskDelete, Unaltered
  <1>6. Me \in Users
    BY DEF Users
  <1>7. /\ Tidy(list.msgs) /\ Tidy(thread.msgs)
        /\ Tidy(Reacted(list.msgs, m, Me)) /\ Tidy(Unreacted(list.msgs, m, Me))
        /\ Tidy(Reacted(thread.msgs, m, Me)) /\ Tidy(Unreacted(thread.msgs, m, Me))
    BY <1>1, <1>6, ReactedTidy DEF CopyTyped
  <1>8. CASE AskReactInList(m)
    <2> DEFINE on == Me \in At(list.msgs, m).reac
               kind == IF on THEN "unreact" ELSE "react"
               asked == [Request(kind, "list", m) EXCEPT
                             !.prev = list.msgs, !.had = counted, !.skew = skewL]
    <2>1. /\ pending' = pending \cup {asked} /\ thread' = thread
          /\ list' = IF list.ok
                     THEN Loaded(IF on THEN Unreacted(list.msgs, m, Me)
                                 ELSE Reacted(list.msgs, m, Me))
                     ELSE list
      BY <1>8 DEF AskReactInList, Apply
    <2>2. RequestTyped(asked)
      <3> HIDE DEF kind
      <3> QED
        BY <1>1, <1>7, NewRequestTyped, RequestRemembers
    <2> HIDE DEF on, asked
    <2>3. CopyTyped(list')
      BY <1>1, <1>7, <2>1 DEF CopyTyped, Loaded
    <2> QED
      BY <1>1, <2>1, <2>2, <2>3
  <1>9. CASE AskReactInPanel(m)
    <2> DEFINE on == Me \in At(list.msgs, m).reac
               off == Me \in At(thread.msgs, m).reac
    <2>1. \/ /\ pending' = pending \cup
                     {Request(IF on THEN "unreact" ELSE "react", "panel", m)}
             /\ thread' = thread
             /\ list' = IF list.ok
                        THEN Loaded(IF on THEN Unreacted(list.msgs, m, Me)
                                    ELSE Reacted(list.msgs, m, Me))
                        ELSE list
          \/ /\ pending' = pending \cup
                     {Request(IF off THEN "unreact" ELSE "react", "panel", m)}
             /\ list' = list
             /\ thread' = IF thread.ok
                          THEN Loaded(IF off THEN Unreacted(thread.msgs, m, Me)
                                      ELSE Reacted(thread.msgs, m, Me))
                          ELSE thread
      BY <1>9 DEF AskReactInPanel, Apply
    <2> HIDE DEF on, off
    <2>2. CopyTyped(list') /\ CopyTyped(thread')
      BY <1>1, <1>7, <2>1, CopyLoaded
    <2>3. \A p \in pending' : RequestTyped(p)
      BY <1>1, <2>1, NewRequestTyped
    <2> QED
      BY <2>2, <2>3
  <1> QED
    BY <1>2, <1>3, <1>4, <1>5, <1>8, <1>9

LEMMA ServeTyped ==
  ASSUME CopiesInv, NEW p \in pending, Serve(p)
  PROVE  ServerTyped' /\ \A q \in pending' : RequestTyped(q)
  <1>1. ServerTyped /\ RequestTyped(p) /\ p.m \in Msgs /\ p.no \in Nat /\ Me \in Users
    BY DEF CopiesInv, RequestTyped, Users
  <1>2. ServerTyped'
    BY <1>1, CommitTyped DEF Serve
  <1> DEFINE q == [p EXCEPT !.stage = "served"]
  <1>3. RequestTyped(q)
    BY <1>1 DEF RequestTyped
  <1>4. pending' = (pending \ {p}) \cup {q}
    BY DEF Serve
  <1> HIDE DEF q
  <1> QED
    BY <1>2, <1>3, <1>4 DEF CopiesInv

LEMMA FinishedTyped ==
  ASSUME CopiesInv, NEW e \in Events, NEW q \in Finished(e)
  PROVE  RequestTyped(q)
  <1>1. PICK p \in pending : q = IF p.no = e.by /\ p.stage = "served"
                                THEN [p EXCEPT !.stage = "done", !.text = e.text,
                                               !.live = e.live]
                                ELSE p
    BY DEF Finished
  <1>2. RequestTyped(p) /\ e.text \in Nat /\ e.live \in FewReplies
    BY DEF CopiesInv, Events
  <1>3. RequestTyped([p EXCEPT !.stage = "done", !.text = e.text, !.live = e.live])
    BY <1>2, RequestServed
  <1> QED
    BY <1>1, <1>2, <1>3

-----------------------------------------------------------------------------
(* The handlers' remaining steps. *)

LEMMA MarkedTyped ==
  ASSUME NEW s \in Seq(Events), NEW n, NEW f, NEW name \in {"crossed", "untold"}
  PROVE  /\ Marked(s, n, f, name) \in Seq(Events)
         /\ Len(Marked(s, n, f, name)) = Len(s)
  <1>1. Len(s) \in Nat /\ DOMAIN s = 1..Len(s) /\ \A i \in 1..Len(s) : s[i] \in Events
    OBVIOUS
  <1>2. \A e \in Events : [e EXCEPT !.why = @ \cup {name}] \in Events
    BY DEF Events
  <1>3. PICK t : t = Marked(s, n, f, name)
    OBVIOUS
  <1>4. t = [i \in 1..Len(s) |-> t[i]]
    BY <1>1, <1>3 DEF Marked
  <1>5. \A i \in 1..Len(s) : t[i] \in Events
    BY <1>1, <1>2, <1>3 DEF Marked
  <1>6. t \in [1..Len(s) -> Events]
    BY <1>4, <1>5
  <1>7. t \in Seq(Events) /\ Len(t) = Len(s)
    BY <1>1, <1>6
  <1> QED
    BY <1>3, <1>7

LEMMA CutTyped ==
  ASSUME NEW s \in Seq(Events), NEW n \in DOMAIN s
  PROVE  /\ Cut(s, n) \in Seq(Events)
         /\ Len(Cut(s, n)) = Len(s) - 1
  <1>1. Len(s) \in Nat /\ Len(s) >= 1 /\ \A i \in 1..Len(s) : s[i] \in Events
    OBVIOUS
  <1>2. \A i \in 1..(Len(s) - 1) : i \in 1..Len(s) /\ i + 1 \in 1..Len(s)
    BY <1>1
  <1>3. Cut(s, n) \in [1..(Len(s) - 1) -> Events]
    BY <1>1, <1>2 DEF Cut
  <1> QED
    BY <1>1, <1>3

LEMMA HandlersTyped ==
  ASSUME CopiesInv, NEW k \in DOMAIN unsent, Reread(k) \/ Announce(k) \/ Untold(k)
  PROVE  CopiesInv'
  <1>1. /\ ServerTyped /\ FetchTyped(lf) /\ FetchTyped(tf) /\ ops \in Nat
        /\ \A p \in pending : RequestTyped(p)
    BY DEF CopiesInv
  <1>2. /\ unsent \in Seq(Events) /\ wire \in Seq(Events) /\ unsent[k] \in Events
        /\ text \in [Msgs -> Nat]
    BY <1>1 DEF ServerTyped
  <1>3. UNCHANGED <<server, ops, list, thread>>
    BY DEF Reread, Announce, Untold
  <1>4. unsent' \in Seq(Events) /\ wire' \in Seq(Events)
    <2>1. CASE Reread(k)
      <3>1. PICK e : e = unsent[k]
        OBVIOUS
      <3>2. PICK now : now = [e EXCEPT !.ready = TRUE, !.text = text[e.m],
                                       !.dead = e.m \in gone,
                                       !.live = IF e.m = Parent THEN LiveReplies ELSE {}]
        OBVIOUS
      <3>3. /\ e \in Events /\ text[e.m] \in Nat /\ LiveReplies \in FewReplies
            /\ {} \in FewReplies
        BY <1>1, <1>2, <3>1, LiveIsFinite, FS_EmptySet DEF Events, FewReplies
      <3>4. now \in Events
        <4>1. PICK d \in BOOLEAN : d <=> e.m \in gone
          <5>1. CASE e.m \in gone
            BY <5>1
          <5>2. CASE e.m \notin gone
            BY <5>2
          <5> QED
            BY <5>1, <5>2
        <4>2. PICK L \in FewReplies : L = IF e.m = Parent THEN LiveReplies ELSE {}
          BY <3>3
        <4>3. now = [e EXCEPT !.ready = TRUE, !.text = text[e.m], !.dead = d, !.live = L]
          BY <3>2, <4>1, <4>2
        <4> QED
          BY <3>3, <4>3 DEF Events
      <3>5. [e EXCEPT !.ready = TRUE] \in Events
        BY <3>3 DEF Events
      <3>6. /\ wire' = wire
            /\ \/ unsent' = [unsent EXCEPT ![k] = now]
               \/ unsent' = [unsent EXCEPT ![k].ready = TRUE]
        BY <2>1, <3>1, <3>2 DEF Reread
      <3>7. [unsent EXCEPT ![k].ready = TRUE] = [unsent EXCEPT ![k] = [e EXCEPT !.ready = TRUE]]
        BY <3>1
      <3>8. \A x \in Events : [unsent EXCEPT ![k] = x] \in Seq(Events)
        BY <1>2
      <3> QED
        BY <1>2, <3>4, <3>5, <3>6, <3>7, <3>8
    <2>2. CASE Announce(k)
      <3>1. wire' = Append(wire, unsent[k])
            /\ unsent' = Cut(Marked(unsent, k - 1, unsent[k], "crossed"), k)
        BY <2>2 DEF Announce
      <3>2. PICK t : t = Marked(unsent, k - 1, unsent[k], "crossed")
        OBVIOUS
      <3>3. t \in Seq(Events) /\ Len(t) = Len(unsent)
        BY <1>2, <3>2, MarkedTyped
      <3>4. k \in DOMAIN t
        BY <1>2, <3>3
      <3> QED
        BY <1>2, <3>1, <3>2, <3>3, <3>4, CutTyped
    <2>3. CASE Untold(k)
      <3>1. wire' = Marked(wire, Len(wire), unsent[k], "untold")
            /\ unsent' = Cut(Marked(unsent, k - 1, unsent[k], "untold"), k)
        BY <2>3 DEF Untold
      <3>2. PICK t : t = Marked(unsent, k - 1, unsent[k], "untold")
        OBVIOUS
      <3>3. t \in Seq(Events) /\ Len(t) = Len(unsent)
        BY <1>2, <3>2, MarkedTyped
      <3>4. k \in DOMAIN t
        BY <1>2, <3>3
      <3>5. wire' \in Seq(Events)
        BY <1>2, <3>1, MarkedTyped
      <3> QED
        BY <3>1, <3>2, <3>3, <3>4, <3>5, CutTyped
    <2> QED
      BY <2>1, <2>2, <2>3
  <1>5. ServerTyped'
    BY <1>1, <1>3, <1>4 DEF ServerTyped, server
  <1>6. pending' = pending \/ pending' = Finished(unsent[k])
    BY DEF Reread, Announce, Untold
  <1>7. \A q \in pending' : RequestTyped(q)
    BY <1>1, <1>2, <1>6, FinishedTyped
  <1>8. FetchTyped(lf') /\ FetchTyped(tf')
    <2>1. \A f : FetchTyped(f) => FetchTyped(Missing(f, "untold", TRUE))
      BY DEF FetchTyped, Missing
    <2>2. (lf' = lf \/ lf' = Missing(lf, "untold", TRUE))
          /\ (tf' = tf \/ tf' = Missing(tf, "untold", TRUE))
      BY DEF Reread, Announce, Untold
    <2> QED
      BY <1>1, <2>1, <2>2
  <1> QED
    BY <1>1, <1>3, <1>5, <1>7, <1>8 DEF CopiesInv, CopyTyped

-----------------------------------------------------------------------------
(* The fetches, and the theorem. *)

LEMMA FetchesTyped ==
  ASSUME CopiesInv, FetchList \/ InstallList \/ FetchThread \/ InstallThread
                    \/ ForgetThread \/ LoseEvents
  PROVE  /\ CopyTyped(list') /\ CopyTyped(thread')
         /\ FetchTyped(lf') /\ FetchTyped(tf')
  <1>1. /\ CopyTyped(list) /\ CopyTyped(thread) /\ FetchTyped(lf) /\ FetchTyped(tf)
        /\ Tidy(ChannelRows) /\ Tidy(ThreadRows)
    BY AnswersTidy DEF CopiesInv
  <1>2. FetchTyped(NoFetch) /\ CopyTyped(NotLoaded)
    BY NothingIsTidy DEF FetchTyped, NoFetch, CopyTyped, NotLoaded
  <1>3. CASE FetchList
    BY <1>1, <1>3 DEF FetchList, FetchTyped
  <1>4. CASE InstallList
    <2>1. list' = Loaded(lf.msgs) /\ UNCHANGED <<thread, tf>> /\ lf' = NoFetch
      BY <1>4 DEF InstallList
    <2> QED
      BY <1>1, <1>2, <2>1 DEF CopyTyped, Loaded, FetchTyped
  <1>5. CASE FetchThread
    BY <1>1, <1>5 DEF FetchThread, FetchTyped
  <1>6. CASE InstallThread
    <2>1. thread' = Loaded(tf.msgs) /\ UNCHANGED <<list, lf>> /\ tf' = NoFetch
      BY <1>6 DEF InstallThread
    <2> QED
      BY <1>1, <1>2, <2>1 DEF CopyTyped, Loaded, FetchTyped
  <1>7. CASE ForgetThread
    BY <1>1, <1>2, <1>7 DEF ForgetThread
  <1>8. CASE LoseEvents
    <2>1. UNCHANGED <<list, thread>>
      BY <1>8 DEF LoseEvents
    <2>2. \A f : FetchTyped(f) =>
              \A c : FetchTyped([Missing(f, "lost", c) EXCEPT !.ahead = 0])
      <3> SUFFICES ASSUME NEW f, FetchTyped(f), NEW c
                   PROVE  FetchTyped([Missing(f, "lost", c) EXCEPT !.ahead = 0])
        OBVIOUS
      <3>1. FetchTyped(Missing(f, "lost", c))
        BY DEF FetchTyped, Missing
      <3> QED
        BY <3>1 DEF FetchTyped
    <2>3. /\ lf' = [Missing(lf, "lost", Len(wire) > lf.ahead) EXCEPT !.ahead = 0]
          /\ tf' = [Missing(tf, "lost", Len(wire) > tf.ahead) EXCEPT !.ahead = 0]
      BY <1>8 DEF LoseEvents
    <2> QED
      BY <1>1, <2>1, <2>2, <2>3
  <1> QED
    BY <1>3, <1>4, <1>5, <1>6, <1>7, <1>8

LEMMA OvertakenTyped ==
  ASSUME NEW f, FetchTyped(f)
  PROVE  FetchTyped(Overtaken(f))
  BY DEF FetchTyped, Overtaken

LEMMA CopiesInit == Init => CopiesInv
  <1> SUFFICES ASSUME Init
               PROVE  CopiesInv
    OBVIOUS
  <1>1. ServerTyped
    BY DEF Init, ServerTyped, Msgs
  <1>2. FetchTyped(NoFetch) /\ CopyTyped(NotLoaded)
    BY NothingIsTidy DEF FetchTyped, NoFetch, CopyTyped, NotLoaded
  <1>3. Tidy(<<Record(Parent, 0, 0, FALSE, {})>>)
    <2> DEFINE r == Record(Parent, 0, 0, FALSE, {})
    <2>1. r \in Notes
      BY NewNote DEF Msgs
    <2> HIDE DEF r
    <2>2. <<r>> \in Seq(Notes) /\ DOMAIN <<r>> = 1..1
      BY <2>1
    <2>3. Tidy(<<r>>)
      BY <2>2 DEF Tidy, Distinct
    <2> QED
      BY <2>3 DEF r
  <1>4. CopyTyped(list)
    BY <1>2, <1>3, CopyLoaded DEF Init
  <1> QED
    BY <1>1, <1>2, <1>4 DEF Init, CopiesInv

LEMMA CopiesStep == CopiesInv /\ [Next]_vars => CopiesInv'
  <1> SUFFICES ASSUME CopiesInv, [Next]_vars
               PROVE  CopiesInv'
    OBVIOUS
  <1> USE DEF CopiesInv
  <1>1. CASE Elsewhere
    <2>1. PICK m \in Msgs, kind \in Kinds, u \in Users : Commit(kind, m, u, 0)
      BY <1>1 DEF Elsewhere, Commit, Kinds, Users
    <2>2. ServerTyped'
      BY <2>1, CommitTyped
    <2>3. ops' \in Nat
      BY <1>1 DEF Elsewhere, Spend
    <2> QED
      BY <1>1, <2>2, <2>3 DEF Elsewhere
  <1>2. CASE Ask
    <2>1. UNCHANGED <<server, feed, tf>> /\ ops' = ops + 1
      BY <1>2 DEF Ask, AskSend, AskEdit, AskDelete, AskReactInList,
                  AskReactInPanel, Unaltered, CanAsk, Spend
    <2>2. ServerTyped' /\ ops' \in Nat
      BY <2>1 DEF ServerTyped, server, feed
    <2>3. FetchTyped(lf')
      <3>1. lf' = lf \/ lf' = NoFetch
        BY <1>2 DEF Ask, AskSend, AskEdit, AskDelete, AskReactInList,
                    AskReactInPanel, Unaltered
      <3> QED
        BY <3>1, NothingIsTidy DEF FetchTyped, NoFetch
    <2> QED
      BY <1>2, <2>1, <2>2, <2>3, AskTidy
  <1>3. ASSUME NEW p \in pending, Serve(p)
        PROVE  CopiesInv'
    <2>1. ServerTyped' /\ \A q \in pending' : RequestTyped(q)
      BY <1>3, ServeTyped
    <2>2. UNCHANGED <<ops, list, thread, lf, tf>>
      BY <1>3 DEF Serve
    <2> QED
      BY <2>1, <2>2
  <1>4. CASE Deliver
    <2>1. PICK p \in pending : Answered(p) \/ Failed(p)
      BY <1>4 DEF Deliver
    <2>2. UNCHANGED <<server, ops, feed, lf, tf>> /\ pending' \subseteq pending
      BY <2>1 DEF Answered, Failed
    <2>3. ServerTyped'
      BY <2>2 DEF ServerTyped, server, feed
    <2> QED
      BY <2>1, <2>2, <2>3, SuccessTidy, FailureTidy
  <1>5. CASE ReceiveEvent
    <2>1. UNCHANGED <<server, ops, unsent, pending>> /\ wire' = Tail(wire) /\ wire # <<>>
          /\ lf' = Overtaken(lf) /\ tf' = Overtaken(tf)
      BY <1>5 DEF ReceiveEvent
    <2>2. wire' \in Seq(Events)
      BY <2>1, HeadTailProperties DEF ServerTyped
    <2>3. ServerTyped'
      BY <2>1, <2>2 DEF ServerTyped, server
    <2> QED
      BY <1>5, <2>1, <2>3, HandlersTidy, OvertakenTyped
  <1>6. CASE FetchList \/ InstallList \/ FetchThread \/ InstallThread \/ ForgetThread
             \/ LoseEvents
    <2>1. UNCHANGED <<server, ops, unsent, pending>> /\ (wire' = wire \/ wire' = <<>>)
      BY <1>6 DEF FetchList, InstallList, FetchThread, InstallThread, ForgetThread,
                  LoseEvents, feed
    <2>2. wire' \in Seq(Events)
      <3>1. wire \in Seq(Events) /\ <<>> \in Seq(Events)
        BY EmptySeq DEF ServerTyped
      <3> QED
        BY <2>1, <3>1
    <2>3. ServerTyped'
      BY <2>1, <2>2 DEF ServerTyped, server
    <2> QED
      BY <1>6, <2>1, <2>3, FetchesTyped
  <1>7. CASE UNCHANGED vars
    <2>1. UNCHANGED <<born, gone, text, reacts, ops, unsent, wire, list, thread,
                      pending, lf, tf>>
      BY <1>7 DEF vars, server, feed
    <2> QED
      BY <2>1 DEF ServerTyped, CopyTyped, FetchTyped
  <1>8. ASSUME NEW k \in DOMAIN unsent, Reread(k) \/ Announce(k) \/ Untold(k)
        PROVE  CopiesInv'
    BY <1>8, HandlersTyped
  <1> QED
    BY <1>1, <1>2, <1>3, <1>4, <1>5, <1>6, <1>7, <1>8 DEF Next

\* The rows of every copy are well typed, and no copy, no answer under way and
\* no list kept for a rollback holds a message twice.
THEOREM CopiesAreTidy == Spec => []CopiesInv
  BY CopiesInit, CopiesStep, PTL DEF Spec

\* However the event, the answer and the refetch of a message interleave, the
\* list and the thread hold it once (handleNewMessage of cacheUpdaters.ts, and
\* the onSuccess of useSendMessage and useSendThreadReply in useMessages.ts).
THEOREM NothingTwice == Spec => []NoDuplicates
  <1>1. CopiesInv => NoDuplicates
    BY DEF CopiesInv, CopyTyped, Tidy, NoDuplicates
  <1> QED
    BY <1>1, CopiesAreTidy, PTL

-----------------------------------------------------------------------------
(* The pages of a channel's history, and what the server puts on one.      *)

PageRecords ==
    [param : [dir : {"before", "after", "around"}, cursor : 0..MaxId],
     msgs : Seq(Ids), more : BOOLEAN, newer : BOOLEAN]

\* Newer messages are still to be loaded, from that page's edge on.
Newer(p) == PreviousPageParam(p) # {}
Edge(p) == Only(PreviousPageParam(p)).cursor

LEMMA IntegerSpans ==
  ASSUME NEW a \in Int, NEW b \in Int
  PROVE  /\ Least(a, b) \in Int /\ Greatest(a, b) \in Int
         /\ Least(a, b) <= a /\ Least(a, b) <= b
         /\ Greatest(a, b) >= a /\ Greatest(a, b) >= b
         /\ Least(a, b) = a \/ Least(a, b) = b
         /\ Greatest(a, b) = a \/ Greatest(a, b) = b
  BY DEF Least, Greatest

LEMMA AscendingOf ==
  ASSUME NEW b \in Nat, NEW lo \in 1..(b + 1), NEW hi \in 0..b
  PROVE  /\ Ascending(lo, hi) \in Seq(1..b)
         /\ ToSet(Ascending(lo, hi)) = lo..hi
         /\ Len(Ascending(lo, hi)) = Greatest(0, hi - lo + 1)
         /\ \A k \in 1..Greatest(0, hi - lo + 1) : Ascending(lo, hi)[k] = lo + k - 1
  <1> DEFINE n == Greatest(0, hi - lo + 1)
             s == [k \in 1..n |-> lo + k - 1]
  <1>1. n \in Nat /\ (n = 0 \/ n = hi - lo + 1) /\ (lo <= hi => n = hi - lo + 1)
        /\ (hi < lo => n = 0)
    BY DEF Greatest
  <1> HIDE DEF n
  <1>2. \A k \in 1..n : lo + k - 1 \in 1..b
    BY <1>1
  <1>3. s \in Seq(1..b) /\ Len(s) = n /\ DOMAIN s = 1..n
    BY <1>1, <1>2
  <1>4. \A i \in lo..hi : i - lo + 1 \in 1..n /\ s[i - lo + 1] = i
    BY <1>1
  <1>5. \A k \in 1..n : s[k] = lo + k - 1 /\ s[k] \in lo..hi
    BY <1>1
  <1> HIDE DEF s
  <1>6. ToSet(s) = lo..hi
    BY <1>3, <1>4, <1>5 DEF ToSet
  <1> QED
    BY <1>3, <1>5, <1>6 DEF Ascending, n, s

LEMMA DescendingOf ==
  ASSUME NEW b \in Nat, NEW lo \in 1..(b + 1), NEW hi \in 0..b
  PROVE  /\ Descending(hi, lo) \in Seq(1..b)
         /\ ToSet(Descending(hi, lo)) = lo..hi
         /\ Len(Descending(hi, lo)) = Greatest(0, hi - lo + 1)
         /\ \A k \in 1..Greatest(0, hi - lo + 1) : Descending(hi, lo)[k] = hi - k + 1
  <1> DEFINE n == Greatest(0, hi - lo + 1)
             a == Ascending(lo, hi)
             s == [i \in 1..Len(a) |-> a[(Len(a) - i) + 1]]
  <1>1. n \in Nat /\ (n = 0 \/ n = hi - lo + 1) /\ (lo <= hi => n = hi - lo + 1)
        /\ (hi < lo => n = 0)
    BY DEF Greatest
  <1>2. Len(a) = n /\ \A k \in 1..n : a[k] = lo + k - 1
    BY AscendingOf
  <1> HIDE DEF n, a
  <1>3. \A k \in 1..n : s[k] = hi - k + 1 /\ s[k] \in 1..b /\ s[k] \in lo..hi
    BY <1>1, <1>2
  <1>4. s \in Seq(1..b) /\ Len(s) = n /\ DOMAIN s = 1..n
    BY <1>1, <1>2, <1>3
  <1> HIDE DEF s
  <1>5. \A i \in lo..hi : hi - i + 1 \in 1..n /\ s[hi - i + 1] = i
    BY <1>1, <1>3
  <1>6. ToSet(s) = lo..hi
    BY <1>3, <1>4, <1>5 DEF ToSet
  <1> QED
    BY <1>3, <1>4, <1>6 DEF Descending, Reverse, n, s, a

\* The same, of an interval that is not empty but for one step.
LEMMA AscendingSpan ==
  ASSUME NEW b \in Nat, NEW lo \in 1..(b + 1), NEW hi \in 0..b, lo <= hi + 1
  PROVE  LET s == Ascending(lo, hi)
         IN  /\ s \in Seq(1..b) /\ ToSet(s) = lo..hi
             /\ s = <<>> <=> hi < lo
             /\ lo <= hi => s[1] = lo /\ Last(s) = hi
  <1> DEFINE s == Ascending(lo, hi)
  <1>1. Greatest(0, hi - lo + 1) = hi - lo + 1
    BY DEF Greatest
  <1>2. /\ s \in Seq(1..b) /\ ToSet(s) = lo..hi
        /\ Len(s) = Greatest(0, hi - lo + 1)
        /\ \A k \in 1..Greatest(0, hi - lo + 1) : s[k] = lo + k - 1
    BY AscendingOf
  <1> HIDE DEF s
  <1>3. Len(s) = hi - lo + 1 /\ \A k \in 1..(hi - lo + 1) : s[k] = lo + k - 1
    BY <1>1, <1>2
  <1>4. s = <<>> <=> hi < lo
    BY <1>2, <1>3, EmptySeq
  <1>5. lo <= hi => 1 \in 1..(hi - lo + 1) /\ hi - lo + 1 \in 1..(hi - lo + 1)
    OBVIOUS
  <1>6. lo <= hi => s[1] = lo /\ s[Len(s)] = hi
    BY <1>3, <1>5
  <1> QED
    BY <1>2, <1>4, <1>6 DEF s, Last

LEMMA DescendingSpan ==
  ASSUME NEW b \in Nat, NEW lo \in 1..(b + 1), NEW hi \in 0..b, lo <= hi + 1
  PROVE  LET s == Descending(hi, lo)
         IN  /\ s \in Seq(1..b) /\ ToSet(s) = lo..hi
             /\ s = <<>> <=> hi < lo
             /\ lo <= hi => s[1] = hi /\ Last(s) = lo
  <1> DEFINE s == Descending(hi, lo)
  <1>1. Greatest(0, hi - lo + 1) = hi - lo + 1
    BY DEF Greatest
  <1>2. /\ s \in Seq(1..b) /\ ToSet(s) = lo..hi
        /\ Len(s) = Greatest(0, hi - lo + 1)
        /\ \A k \in 1..Greatest(0, hi - lo + 1) : s[k] = hi - k + 1
    BY DescendingOf
  <1> HIDE DEF s
  <1>3. Len(s) = hi - lo + 1 /\ \A k \in 1..(hi - lo + 1) : s[k] = hi - k + 1
    BY <1>1, <1>2
  <1>4. s = <<>> <=> hi < lo
    BY <1>2, <1>3, EmptySeq
  <1>5. lo <= hi => 1 \in 1..(hi - lo + 1) /\ hi - lo + 1 \in 1..(hi - lo + 1)
    OBVIOUS
  <1>6. lo <= hi => s[1] = hi /\ s[Len(s)] = lo
    BY <1>3, <1>5
  <1> QED
    BY <1>2, <1>4, <1>6 DEF s, Last

\* From where a page's newer messages are loaded, if there are any.
LEMMA EdgeOf ==
  ASSUME NEW p \in PageRecords
  PROVE  /\ Newer(p) <=> /\ p.msgs # <<>>
                         /\ \/ p.newer
                            \/ (p.param.dir = "after" /\ p.more)
                            \/ (p.param.cursor # 0 /\ p.param.dir = "before")
         /\ Newer(p) => /\ Edge(p) = IF p.param.dir = "after" THEN Last(p.msgs)
                                                              ELSE p.msgs[1]
                        /\ Only(PreviousPageParam(p)) = Param("after", Edge(p))
                        /\ Edge(p) \in ToSet(p.msgs) /\ Edge(p) \in Ids
  <1> DEFINE e == IF p.param.dir = "after" THEN Last(p.msgs) ELSE p.msgs[1]
             C == p.newer \/ (p.param.dir = "after" /\ p.more)
                          \/ (p.param.cursor # 0 /\ p.param.dir = "before")
  <1>1. PreviousPageParam(p)
          = IF p.msgs # <<>> /\ C THEN {Param("after", e)} ELSE {}
    BY DEF PreviousPageParam, EvictedEdge, NoCursor
  <1>2. p.msgs # <<>> => e \in ToSet(p.msgs) /\ e \in Ids
    <2>1. p.msgs \in Seq(Ids) /\ DOMAIN p.msgs = 1..Len(p.msgs)
      BY DEF PageRecords
    <2>2. p.msgs # <<>> => 1 \in DOMAIN p.msgs /\ Len(p.msgs) \in DOMAIN p.msgs
      BY <2>1, EmptySeq
    <2> QED
      BY <2>1, <2>2, ElementOfSeq DEF ToSet, Last
  <1> HIDE DEF e, C
  <1>3. CASE p.msgs # <<>> /\ C
    <2>1. Only({Param("after", e)}) = Param("after", e)
      BY DEF Only
    <2>2. PreviousPageParam(p) = {Param("after", e)}
      BY <1>1, <1>3
    <2>3. Newer(p) /\ Edge(p) = e /\ Only(PreviousPageParam(p)) = Param("after", Edge(p))
      BY <2>1, <2>2 DEF Newer, Edge, Param
    <2> QED
      BY <1>2, <1>3, <2>3 DEF e, C
  <1>4. CASE ~(p.msgs # <<>> /\ C)
    <2>1. ~Newer(p)
      BY <1>1, <1>4 DEF Newer
    <2> QED
      BY <1>4, <2>1 DEF C
  <1> QED
    BY <1>3, <1>4

LEMMA NextOf ==
  ASSUME NEW p \in PageRecords
  PROVE  /\ NextPageParam(p) # {} <=> p.more
         /\ p.more => Only(NextPageParam(p)) = Param("before", Last(p.msgs))
  <1>1. \A x : Only({x}) = x
    BY DEF Only
  <1> QED
    BY <1>1 DEF NextPageParam

-----------------------------------------------------------------------------
(* What one answer of the server looks like. *)

\* The parameters that the client makes, for a server of w messages.
Valid(param, w) ==
    /\ param \in [dir : {"before", "after", "around"}, cursor : 0..w]
    /\ param.dir # "before" => param.cursor # 0
    /\ param.dir = "before" => param.cursor # 1

\* A page that was not fetched towards the newer end says rightly whether
\* there are older messages; one that was shows not the oldest of all.
OlderOK(p) ==
    /\ p.param.dir # "after" => /\ p.msgs # <<>>
                                /\ (p.more <=> Last(p.msgs) > 1)
                                /\ (1 \in ToSet(p.msgs) => Last(p.msgs) = 1)
    /\ p.param.dir = "after" => 1 \notin ToSet(p.msgs)
    /\ p.more => (p.msgs # <<>> /\ Last(p.msgs) > 1)
    /\ p.newer => p.param.dir = "around"

PageOf(p, w) ==
    /\ p \in PageRecords /\ Valid(p.param, w) /\ OlderOK(p)
    /\ ToSet(p.msgs) \subseteq 1..w

\* A page is an interval of messages, up to the edge that newer ones are
\* loaded from or, without one, up to the newest message there was.
Interval(p, lo, hi, w) ==
    /\ lo \in 1..(w + 1) /\ hi \in 0..w
    /\ ToSet(p.msgs) = lo..hi
    /\ Newer(p) => Edge(p) = hi
    /\ ~Newer(p) => hi = w

LEMMA ListedBefore ==
  ASSUME NEW w \in Ids, NEW param, Valid(param, w), param.dir = "before"
  PROVE  LET p == List(param, w)
         IN  /\ p.param = param /\ PageOf(p, w)
             /\ \E lo \in 1..(w + 1), hi \in 0..w : Interval(p, lo, hi, w)
             /\ param.cursor # 0 => Newer(p) /\ Edge(p) = param.cursor - 1
  <1> USE PagesAssumption
  <1> DEFINE p == List(param, w)
             hi == IF param.cursor = NoCursor THEN w ELSE param.cursor - 1
             lo == Greatest(1, hi - PageSize + 1)
             s == Descending(hi, lo)
  <1>1. param.cursor \in 0..w /\ param.cursor # 1 /\ w \in 1..MaxId
    BY DEF Valid, Ids
  <1>2. hi \in 1..w /\ lo \in 1..hi /\ (lo > 1 <=> hi > PageSize)
        /\ (param.cursor = 0 => hi = w) /\ (param.cursor # 0 => hi = param.cursor - 1)
    BY <1>1 DEF NoCursor, Greatest
  <1>3. p = [param |-> param, msgs |-> s, more |-> hi > PageSize, newer |-> FALSE]
    BY DEF List, ListBefore, Page, HasMore
  <1> HIDE DEF hi, lo, p
  <1>4. w \in Nat /\ lo \in 1..(w + 1) /\ hi \in 0..w /\ lo <= hi + 1 /\ lo <= hi
    BY <1>1, <1>2
  <1>5. s \in Seq(1..w) /\ ToSet(s) = lo..hi /\ s # <<>> /\ s[1] = hi /\ Last(s) = lo
    BY <1>4, DescendingSpan
  <1> HIDE DEF s
  <1>6. s \in Seq(Ids)
    <2>1. 1..w \subseteq Ids
      BY <1>1 DEF Ids
    <2> QED
      BY <1>5, <2>1, SeqMonotonic
  <1>7. p \in PageRecords
    <2>1. param \in [dir : {"before", "after", "around"}, cursor : 0..MaxId]
      BY <1>1 DEF Valid
    <2> QED
      BY <1>3, <1>6, <2>1 DEF PageRecords
  <1>8. (Newer(p) <=> param.cursor # 0) /\ (Newer(p) => Edge(p) = hi)
    BY <1>3, <1>5, <1>7, EdgeOf
  <1>9. OlderOK(p)
    <2>1. 1 \in ToSet(s) => lo = 1
      BY <1>4, <1>5
    <2> QED
      BY <1>2, <1>3, <1>5, <2>1 DEF OlderOK
  <1>10. PageOf(p, w)
    <2>1. ToSet(s) \subseteq 1..w
      BY <1>4, <1>5
    <2> QED
      BY <1>3, <1>7, <1>9, <2>1 DEF PageOf
  <1>11. Interval(p, lo, hi, w)
    BY <1>1, <1>2, <1>3, <1>4, <1>5, <1>8 DEF Interval
  <1>12. p.param = param /\ (param.cursor # 0 => Newer(p) /\ Edge(p) = param.cursor - 1)
    BY <1>2, <1>3, <1>8
  <1>13. \E a \in 1..(w + 1), b \in 0..w : Interval(p, a, b, w)
    BY <1>4, <1>11
  <1> QED
    BY <1>10, <1>12, <1>13 DEF p

LEMMA ListedAfter ==
  ASSUME NEW w \in Ids, NEW param, Valid(param, w), param.dir = "after"
  PROVE  LET p == List(param, w)
         IN  /\ p.param = param /\ PageOf(p, w)
             /\ \E lo \in 1..(w + 1), hi \in 0..w :
                    Interval(p, lo, hi, w) /\ lo = param.cursor + 1
  <1> USE PagesAssumption
  <1> DEFINE p == List(param, w)
             hi == Least(w, param.cursor + PageSize)
             lo == param.cursor + 1
             s == Ascending(lo, hi)
  <1>1. param.cursor \in 1..w /\ w \in 1..MaxId
    BY DEF Valid, Ids
  <1>2. hi \in 1..w /\ lo \in 2..(w + 1) /\ lo <= hi + 1
        /\ (w - param.cursor > PageSize => hi < w /\ lo <= hi)
        /\ (~(w - param.cursor > PageSize) => hi = w)
    BY <1>1 DEF Least
  <1>3. p = [param |-> param, msgs |-> s, more |-> w - param.cursor > PageSize,
             newer |-> FALSE]
    BY DEF List, ListAfter, Page, HasMore
  <1> HIDE DEF hi, p
  <1> HIDE DEF lo
  <1>4. w \in Nat /\ lo \in 1..(w + 1) /\ hi \in 0..w /\ lo <= hi + 1
    BY <1>1, <1>2
  <1>5. /\ s \in Seq(1..w) /\ ToSet(s) = lo..hi
        /\ lo <= hi => s # <<>> /\ Last(s) = hi
    BY <1>4, AscendingSpan
  <1> HIDE DEF s
  <1>6. s \in Seq(Ids)
    <2>1. 1..w \subseteq Ids
      BY <1>1 DEF Ids
    <2> QED
      BY <1>5, <2>1, SeqMonotonic
  <1>7. p \in PageRecords
    <2>1. param \in [dir : {"before", "after", "around"}, cursor : 0..MaxId]
      BY <1>1 DEF Valid
    <2> QED
      BY <1>1, <1>3, <1>6, <2>1 DEF PageRecords
  <1>8. (Newer(p) <=> w - param.cursor > PageSize) /\ (Newer(p) => Edge(p) = hi)
    <2>1. Newer(p) <=> s # <<>> /\ w - param.cursor > PageSize
      BY <1>3, <1>7, EdgeOf
    <2>2. Newer(p) => Edge(p) = Last(s)
      BY <1>3, <1>7, EdgeOf
    <2> QED
      BY <1>2, <1>5, <2>1, <2>2
  <1>9. OlderOK(p)
    <2>1. 1 \notin ToSet(s)
      BY <1>2, <1>4, <1>5
    <2>2. w - param.cursor > PageSize => s # <<>> /\ Last(s) > 1
      BY <1>1, <1>2, <1>5
    <2> QED
      BY <1>3, <2>1, <2>2 DEF OlderOK
  <1>10. PageOf(p, w)
    <2>1. ToSet(s) \subseteq 1..w
      BY <1>2, <1>4, <1>5
    <2> QED
      BY <1>3, <1>7, <1>9, <2>1 DEF PageOf
  <1>11. Interval(p, lo, hi, w)
    BY <1>1, <1>2, <1>3, <1>4, <1>5, <1>8 DEF Interval
  <1>12. p.param = param
    BY <1>3
  <1>13. \E a \in 1..(w + 1), b \in 0..w : Interval(p, a, b, w) /\ a = param.cursor + 1
    BY <1>4, <1>11 DEF lo
  <1> QED
    BY <1>10, <1>12, <1>13 DEF p

LEMMA ListedAround ==
  ASSUME NEW w \in Ids, NEW param, Valid(param, w), param.dir = "around"
  PROVE  LET p == List(param, w)
         IN  /\ p.param = param /\ PageOf(p, w)
             /\ \E lo \in 1..(w + 1), hi \in 0..w : Interval(p, lo, hi, w)
  <1> USE PagesAssumption
  <1> DEFINE p == List(param, w)
             hi == Least(w, param.cursor + Half)
             lo == Greatest(1, param.cursor - Half + 1)
             s == Descending(hi, lo)
  <1>1. param.cursor \in 1..w /\ w \in 1..MaxId
    BY DEF Valid, Ids
  <1>2. Half \in Nat \ {0}
    BY DEF Half
  <1>3. hi \in 1..w /\ lo \in 1..hi /\ (lo > 1 <=> param.cursor > Half)
        /\ (w - param.cursor > Half <=> hi < w)
    BY <1>1, <1>2 DEF Least, Greatest
  <1>4. p = [param |-> param, msgs |-> s, more |-> param.cursor > Half,
             newer |-> w - param.cursor > Half]
    BY DEF List, ListAround, Page, HasMore
  <1> HIDE DEF hi, lo, p
  <1>5. w \in Nat /\ lo \in 1..(w + 1) /\ hi \in 0..w /\ lo <= hi + 1 /\ lo <= hi
    BY <1>1, <1>3
  <1>6. s \in Seq(1..w) /\ ToSet(s) = lo..hi /\ s # <<>> /\ s[1] = hi /\ Last(s) = lo
    BY <1>5, DescendingSpan
  <1> HIDE DEF s
  <1>7. s \in Seq(Ids)
    <2>1. 1..w \subseteq Ids
      BY <1>1 DEF Ids
    <2> QED
      BY <1>6, <2>1, SeqMonotonic
  <1>8. p \in PageRecords
    <2>1. param \in [dir : {"before", "after", "around"}, cursor : 0..MaxId]
      BY <1>1 DEF Valid
    <2> QED
      BY <1>1, <1>2, <1>4, <1>7, <2>1 DEF PageRecords
  <1>9. (Newer(p) <=> hi < w) /\ (Newer(p) => Edge(p) = hi)
    BY <1>3, <1>4, <1>6, <1>8, EdgeOf
  <1>10. OlderOK(p)
    <2>1. 1 \in ToSet(s) => lo = 1
      BY <1>5, <1>6
    <2> QED
      BY <1>3, <1>4, <1>6, <2>1 DEF OlderOK
  <1>11. PageOf(p, w)
    <2>1. ToSet(s) \subseteq 1..w
      BY <1>5, <1>6
    <2> QED
      BY <1>4, <1>8, <1>10, <2>1 DEF PageOf
  <1>12. Interval(p, lo, hi, w)
    BY <1>1, <1>3, <1>4, <1>5, <1>6, <1>9 DEF Interval
  <1>13. p.param = param
    BY <1>4
  <1>14. \E a \in 1..(w + 1), b \in 0..w : Interval(p, a, b, w)
    BY <1>5, <1>12
  <1> QED
    BY <1>11, <1>13, <1>14 DEF p

LEMMA Listed ==
  ASSUME NEW w \in Ids, NEW param, Valid(param, w)
  PROVE  LET p == List(param, w)
         IN  /\ p.param = param /\ PageOf(p, w)
             /\ \E lo \in 1..(w + 1), hi \in 0..w : Interval(p, lo, hi, w)
  <1>1. param.dir \in {"before", "after", "around"}
    BY DEF Valid
  <1> QED
    BY <1>1, ListedBefore, ListedAfter, ListedAround

-----------------------------------------------------------------------------
(* The window: a chain of pages, each joined to the one before it.         *)

LEMMA OnScreenOf ==
  ASSUME NEW ps \in Seq(PageRecords)
  PROVE  /\ \A x : x \in OnScreen(ps)
                     <=> \E k \in 1..Len(ps) : x \in ToSet(ps[k].msgs)
         /\ OnScreen(ps) \subseteq Ids
  <1>1. DOMAIN ps = 1..Len(ps) /\ \A k \in 1..Len(ps) : ps[k] \in PageRecords
    BY ElementOfSeq, LenProperties
  <1>2. \A k \in 1..Len(ps) : ToSet(ps[k].msgs) \subseteq Ids
    <2> TAKE k \in 1..Len(ps)
    <2>1. ps[k].msgs \in Seq(Ids)
      BY <1>1 DEF PageRecords
    <2>2. DOMAIN ps[k].msgs = 1..Len(ps[k].msgs)
          /\ \A l \in 1..Len(ps[k].msgs) : ps[k].msgs[l] \in Ids
      BY <2>1, ElementOfSeq, LenProperties
    <2> QED
      BY <2>2 DEF ToSet
  <1> QED
    BY <1>1, <1>2 DEF OnScreen

LEMMA OldestOf ==
  ASSUME NEW S, S \subseteq Ids, S # {}
  PROVE  Oldest(S) \in S /\ \A j \in S : Oldest(S) <= j
  <1>1. \E m \in S : \A n \in S : m <= n
    <2>1. S \subseteq Nat
      BY DEF Ids
    <2> QED
      BY <2>1, LeastOf
  <1> QED
    BY <1>1 DEF Oldest

\* Every message in K that is newer than one shown is in L as well.
Keeps(L, K, ps) == \A i \in K : (\E j \in OnScreen(ps) : j < i) => i \in L

LEMMA RelevantKeeps ==
  ASSUME NEW ps \in Seq(PageRecords), NEW K, K \subseteq Ids
  PROVE  Keeps(Relevant(K, ps), K, ps) /\ Relevant(K, ps) \subseteq K
  <1>1. Relevant(K, ps) \subseteq K
    BY DEF Relevant
  <1>2. ASSUME NEW i \in K, NEW j \in OnScreen(ps), j < i
        PROVE  i \in Relevant(K, ps)
    <2>1. OnScreen(ps) \subseteq Ids /\ OnScreen(ps) # {}
      BY OnScreenOf
    <2>2. Oldest(OnScreen(ps)) \in Ids /\ Oldest(OnScreen(ps)) <= j
      BY <2>1, OldestOf
    <2>3. i > Oldest(OnScreen(ps))
      BY <1>2, <2>1, <2>2 DEF Ids
    <2> QED
      BY <2>1, <2>3 DEF Relevant
  <1> QED
    BY <1>1, <1>2 DEF Keeps

\* Between its oldest message and its edge a page lacks only what K explains.
PageSound(p, K) ==
    Newer(p) => \A i \in Ids :
        (i <= Edge(p) /\ \E j \in ToSet(p.msgs) : j <= i)
            => (i \in ToSet(p.msgs) \/ i \in K)

\* The page q, one further back than p, ends no earlier than p begins.
Joined(p, q) ==
    /\ Newer(q)
    /\ Newer(p) => \E j \in ToSet(p.msgs) : j <= Edge(q) + 1

ChainOK(ps, K) ==
    /\ \A k \in 1..Len(ps) : PageSound(ps[k], K)
    /\ \A k \in 1..(Len(ps) - 1) : Joined(ps[k], ps[k + 1])

\* At the live edge nothing is missing up to the newest message heard of.
EdgeOK(ps, K, h) ==
    (ps # <<>> /\ ~Newer(ps[1])) => \A i \in Ids :
        (i <= h /\ \E j \in OnScreen(ps) : j <= i)
            => (i \in OnScreen(ps) \/ i \in K)

Window(ps, K, h) == ChainOK(ps, K) /\ EdgeOK(ps, K, h)

LEMMA WindowKept ==
  ASSUME NEW ps \in Seq(PageRecords), NEW K, NEW L, NEW h, Keeps(L, K, ps),
         Window(ps, K, h), K \subseteq Ids
  PROVE  Window(ps, L, h)
  <1>1. OnScreen(ps) \subseteq Ids
    BY OnScreenOf
  <1>2. ASSUME NEW k \in 1..Len(ps)
        PROVE  PageSound(ps[k], L)
    <2>1. ToSet(ps[k].msgs) \subseteq OnScreen(ps)
      BY OnScreenOf
    <2>2. PageSound(ps[k], K)
      BY DEF Window, ChainOK
    <2>3. ASSUME NEW i \in Ids, NEW j \in ToSet(ps[k].msgs), j <= i, i \in K
          PROVE  i \in ToSet(ps[k].msgs) \/ i \in L
      <3>1. i = j \/ j < i
        BY <1>1, <2>1, <2>3 DEF Ids
      <3> QED
        BY <2>1, <2>3, <3>1 DEF Keeps
    <2> QED
      BY <2>2, <2>3 DEF PageSound
  <1>3. EdgeOK(ps, L, h)
    <2>1. EdgeOK(ps, K, h)
      BY DEF Window
    <2>2. ASSUME NEW i \in Ids, NEW j \in OnScreen(ps), j <= i, i \in K
          PROVE  i \in OnScreen(ps) \/ i \in L
      <3>1. i = j \/ j < i
        BY <1>1, <2>2 DEF Ids
      <3> QED
        BY <2>2, <3>1 DEF Keeps
    <2> QED
      BY <2>1, <2>2 DEF EdgeOK
  <1> QED
    BY <1>2, <1>3 DEF Window, ChainOK

\* Along a chain nothing is missing below the edge of its first page.
LEMMA ChainCovers ==
  ASSUME NEW ps \in Seq(PageRecords), NEW K, ChainOK(ps, K),
         NEW a \in 1..Len(ps), NEW b \in a..Len(ps), Newer(ps[a]),
         NEW i \in Ids, i <= Edge(ps[a]),
         \E k \in a..b : \E j \in ToSet(ps[k].msgs) : j <= i
  PROVE  i \in K \/ \E k \in a..b : i \in ToSet(ps[k].msgs)
  <1> DEFINE T == {k \in a..b : \E j \in ToSet(ps[k].msgs) : j <= i}
  <1>1. Len(ps) \in Nat /\ \A k \in 1..Len(ps) : ps[k] \in PageRecords
    BY ElementOfSeq, LenProperties
  <1>2. PICK m \in T : \A n \in T : m <= n
    <2>1. T \subseteq Nat /\ T # {}
      BY <1>1
    <2> HIDE DEF T
    <2> QED
      BY <2>1, LeastOf
  <1>3. m \in a..b /\ \E j \in ToSet(ps[m].msgs) : j <= i
    OBVIOUS
  <1>4. Newer(ps[m]) /\ i <= Edge(ps[m])
    <2>1. CASE m = a
      BY <2>1
    <2>2. CASE m # a
      <3>1. PICK l \in a..b : m = l + 1
        <4>1. m - 1 \in a..b /\ m = (m - 1) + 1
          BY <1>1, <1>3, <2>2
        <4> QED
          BY <4>1
      <3>2. l \in 1..(Len(ps) - 1) /\ l \in 1..Len(ps) /\ m \in 1..Len(ps)
        BY <1>1, <1>3, <3>1
      <3>3. Joined(ps[l], ps[m])
        BY <3>1, <3>2 DEF ChainOK
      <3>4. Newer(ps[l])
        <4>1. CASE l = a
          BY <4>1
        <4>2. CASE l # a
          <5>1. l - 1 \in 1..(Len(ps) - 1) /\ l = (l - 1) + 1
            BY <1>1, <3>1, <3>2, <4>2
          <5>2. Joined(ps[l - 1], ps[l])
            BY <5>1 DEF ChainOK
          <5> QED
            BY <5>2 DEF Joined
        <4> QED
          BY <4>1, <4>2
      <3>5. PICK j \in ToSet(ps[l].msgs) : j <= Edge(ps[m]) + 1
        BY <3>3, <3>4 DEF Joined
      <3>6. ~(j <= i)
        <4>1. l \notin T
          <5> HIDE DEF T
          <5>1. l < m
            BY <1>1, <1>3, <3>1
          <5>2. ~(m <= l)
            BY <1>1, <1>3, <3>1
          <5> QED
            BY <1>2, <5>2
        <4> QED
          BY <4>1
      <3>7. j \in Ids /\ Edge(ps[m]) \in Ids
        <4>1. j \in OnScreen(ps)
          BY <3>2, OnScreenOf
        <4>2. ps[m] \in PageRecords /\ Newer(ps[m])
          BY <1>1, <3>2, <3>3 DEF Joined
        <4> QED
          BY <4>1, <4>2, OnScreenOf, EdgeOf
      <3>8. i <= Edge(ps[m])
        BY <3>5, <3>6, <3>7 DEF Ids
      <3> QED
        BY <3>3, <3>8 DEF Joined
    <2> QED
      BY <2>1, <2>2
  <1>5. PageSound(ps[m], K)
    <2>1. m \in 1..Len(ps)
      BY <1>1, <1>3
    <2> QED
      BY <2>1 DEF ChainOK
  <1>6. i \in ToSet(ps[m].msgs) \/ i \in K
    BY <1>3, <1>4, <1>5 DEF PageSound
  <1> QED
    BY <1>3, <1>6

\* What is not on the screen though it should be has an explanation.
LEMMA WindowHasNoHole ==
  ASSUME NEW ps \in Seq(PageRecords), NEW K, NEW h \in Nat, Window(ps, K, h),
         NEW i \in Ids, i <= h, \E j \in OnScreen(ps) : j <= i,
         HasPrevious(ps) => i <= Edge(ps[1])
  PROVE  i \in OnScreen(ps) \/ i \in K
  <1>1. Len(ps) \in Nat /\ ps # <<>> /\ 1 \in 1..Len(ps)
    <2>1. \E k \in 1..Len(ps) : k \in 1..Len(ps)
      BY OnScreenOf
    <2>2. Len(ps) \in Nat /\ Len(ps) # 0
      BY <2>1, LenProperties
    <2> QED
      BY <2>2
  <1>2. HasPrevious(ps) <=> Newer(ps[1])
    BY <1>1 DEF HasPrevious, Newer
  <1>3. CASE Newer(ps[1])
    <2>1. \E k \in 1..Len(ps) : \E j \in ToSet(ps[k].msgs) : j <= i
      BY OnScreenOf
    <2>2. i \in K \/ \E k \in 1..Len(ps) : i \in ToSet(ps[k].msgs)
      <3>1. Len(ps) \in 1..Len(ps) /\ ChainOK(ps, K) /\ i <= Edge(ps[1])
        BY <1>1, <1>2, <1>3 DEF Window
      <3> QED
        BY <1>1, <1>3, <2>1, <3>1, ChainCovers
    <2> QED
      BY <2>2, OnScreenOf
  <1>4. CASE ~Newer(ps[1])
    BY <1>1, <1>4 DEF Window, EdgeOK
  <1> QED
    BY <1>3, <1>4

-----------------------------------------------------------------------------
(* What a fetch makes of a window.                                          *)

\* All pages are as the server lists them, and only a page fetched towards
\* the newer end may be followed by another without announcing it.
Older(ps, w) ==
    /\ \A k \in 1..Len(ps) : PageOf(ps[k], w)
    /\ \A k \in 1..(Len(ps) - 1) : ps[k].more \/ ps[k].param.dir = "after"

LEMMA IntervalSound ==
  ASSUME NEW p, NEW w \in Ids, NEW lo, NEW hi, Interval(p, lo, hi, w), NEW K
  PROVE  PageSound(p, K)
  <1>1. lo \in Int /\ hi \in Int
    BY DEF Interval, Ids
  <1>2. ASSUME Newer(p), NEW i \in Ids, i <= Edge(p), NEW j \in ToSet(p.msgs), j <= i
        PROVE  i \in ToSet(p.msgs)
    <2>1. j \in lo..hi /\ Edge(p) = hi /\ ToSet(p.msgs) = lo..hi
      BY <1>2 DEF Interval
    <2> QED
      BY <1>1, <1>2, <2>1 DEF Ids
  <1> QED
    BY <1>2 DEF PageSound

LEMMA AddedToEnd ==
  ASSUME NEW ps \in Seq(PageRecords), ps # <<>>, Len(ps) <= MaxPages,
         NEW p \in PageRecords
  PROVE  LET r == AddToEnd(ps, p)
         IN  /\ r \in Seq(PageRecords) /\ Len(r) \in 1..MaxPages /\ r[Len(r)] = p
             /\ \E d \in {0, 1} :
                    /\ Len(r) = Len(ps) + 1 - d
                    /\ \A k \in 1..(Len(r) - 1) : r[k] = ps[k + d]
  <1> USE PagesAssumption
  <1>1. Len(ps) \in 1..MaxPages /\ MaxPages \in Nat
    BY EmptySeq, LenProperties
  <1>2. CASE Len(ps) = MaxPages
    <2> DEFINE t == Tail(ps)
               r == Append(t, p)
    <2>1. t \in Seq(PageRecords) /\ Len(t) = Len(ps) - 1
          /\ \A k \in 1..Len(t) : t[k] = ps[k + 1]
      BY HeadTailProperties
    <2> HIDE DEF t
    <2>2. r \in Seq(PageRecords) /\ Len(r) = Len(t) + 1 /\ r[Len(t) + 1] = p
          /\ \A k \in 1..Len(t) : r[k] = t[k]
      BY <2>1, AppendProperties
    <2> HIDE DEF r
    <2>3. r[Len(r)] = p /\ Len(r) = Len(ps) + 1 - 1
          /\ \A k \in 1..(Len(r) - 1) : r[k] = ps[k + 1]
      BY <1>1, <2>1, <2>2
    <2>4. AddToEnd(ps, p) = r
      BY <1>2 DEF AddToEnd, t, r
    <2>5. Len(r) \in 1..MaxPages
      BY <1>1, <2>3
    <2> QED
      BY <2>2, <2>3, <2>4, <2>5
  <1>3. CASE Len(ps) # MaxPages
    <2> DEFINE r == Append(ps, p)
    <2>1. r \in Seq(PageRecords) /\ Len(r) = Len(ps) + 1 /\ r[Len(ps) + 1] = p
          /\ \A k \in 1..Len(ps) : r[k] = ps[k]
      BY AppendProperties
    <2> HIDE DEF r
    <2>2. r[Len(r)] = p /\ Len(r) = Len(ps) + 1 - 0
          /\ \A k \in 1..(Len(r) - 1) : r[k] = ps[k + 0]
      BY <1>1, <2>1
    <2>3. AddToEnd(ps, p) = r
      BY <1>3 DEF AddToEnd, r
    <2>4. Len(r) \in 1..MaxPages
      BY <1>1, <1>3, <2>2
    <2> QED
      BY <2>1, <2>2, <2>3, <2>4
  <1> QED
    BY <1>2, <1>3

LEMMA AddedToStart ==
  ASSUME NEW ps \in Seq(PageRecords), ps # <<>>, Len(ps) <= MaxPages,
         NEW p \in PageRecords
  PROVE  LET r == AddToStart(ps, p)
         IN  /\ r \in Seq(PageRecords) /\ Len(r) \in 1..MaxPages /\ r[1] = p
             /\ Len(r) <= Len(ps) + 1
             /\ \A k \in 1..(Len(r) - 1) : r[k + 1] = ps[k]
  <1> USE PagesAssumption
  <1>1. Len(ps) \in 1..MaxPages /\ MaxPages \in Nat
    BY EmptySeq, LenProperties
  <1>2. ASSUME NEW t \in Seq(PageRecords), Len(t) < MaxPages, Len(t) <= Len(ps),
               \A k \in 1..Len(t) : t[k] = ps[k], AddToStart(ps, p) = <<p>> \o t
        PROVE  LET r == AddToStart(ps, p)
               IN  /\ r \in Seq(PageRecords) /\ Len(r) \in 1..MaxPages /\ r[1] = p
                   /\ Len(r) <= Len(ps) + 1
                   /\ \A k \in 1..(Len(r) - 1) : r[k + 1] = ps[k]
    <2> DEFINE o == <<p>>
               r == o \o t
    <2>1. o \in Seq(PageRecords) /\ Len(o) = 1 /\ o[1] = p /\ Len(t) \in Nat
      BY LenProperties
    <2> HIDE DEF o
    <2>2. /\ r \in Seq(PageRecords) /\ Len(r) = Len(o) + Len(t)
          /\ \A i \in 1..(Len(o) + Len(t)) :
                 r[i] = IF i <= Len(o) THEN o[i] ELSE t[i - Len(o)]
      BY <2>1, ConcatProperties
    <2> HIDE DEF r
    <2>3. r[1] = p
      BY <2>1, <2>2
    <2>4. \A k \in 1..(Len(r) - 1) : r[k + 1] = ps[k]
      <3> TAKE k \in 1..(Len(r) - 1)
      <3>1. k \in 1..Len(t) /\ k + 1 \in 1..(Len(o) + Len(t)) /\ ~(k + 1 <= Len(o))
            /\ (k + 1) - Len(o) = k
        BY <2>1, <2>2
      <3> QED
        BY <1>2, <2>2, <3>1
    <2>5. Len(r) \in 1..MaxPages /\ Len(r) <= Len(ps) + 1
      BY <1>1, <1>2, <2>1, <2>2
    <2>6. AddToStart(ps, p) = r
      BY <1>2 DEF r, o
    <2> QED
      BY <2>2, <2>3, <2>4, <2>5, <2>6
  <1>3. CASE Len(ps) = MaxPages
    <2> DEFINE t == Front(ps)
    <2>1. \A i \in 1..(Len(ps) - 1) : ps[i] \in PageRecords
      BY <1>1, ElementOfSeq
    <2>2. /\ t \in Seq(PageRecords) /\ Len(t) = Len(ps) - 1
          /\ \A k \in 1..Len(t) : t[k] = ps[k]
      <3> DEFINE n == Len(ps) - 1
                 u == SubSeq(ps, 1, n)
      <3>1. n \in Nat /\ \A i \in 1..n : ps[i] \in PageRecords
        BY <1>1, <2>1
      <3> HIDE DEF n
      <3>2. /\ u \in Seq(PageRecords)
            /\ Len(u) = IF 1 <= n THEN n - 1 + 1 ELSE 0
            /\ \A i \in 1..(n - 1 + 1) : u[i] = ps[1 + i - 1]
        BY <3>1, SubSeqProperties
      <3> HIDE DEF u
      <3>3. Len(u) = n /\ \A k \in 1..n : u[k] = ps[k]
        BY <3>1, <3>2
      <3>4. t = u
        BY DEF Front, u, n
      <3> QED
        BY <3>2, <3>3, <3>4 DEF n
    <2>3. AddToStart(ps, p) = <<p>> \o t
      BY <1>3 DEF AddToStart
    <2> HIDE DEF t
    <2>4. Len(t) < MaxPages /\ Len(t) <= Len(ps)
      BY <1>1, <2>2
    <2> QED
      BY <1>2, <2>2, <2>3, <2>4
  <1>4. CASE Len(ps) # MaxPages
    <2>1. AddToStart(ps, p) = <<p>> \o ps
      BY <1>4 DEF AddToStart
    <2>2. Len(ps) < MaxPages /\ Len(ps) <= Len(ps)
      BY <1>1, <1>4
    <2> QED
      BY <1>2, <2>1, <2>2
  <1> QED
    BY <1>3, <1>4

\* The parameter of the page after p, and that page.
LEMMA NextListed ==
  ASSUME NEW w \in Ids, NEW p, PageOf(p, w), p.more
  PROVE  LET q == List(Param("before", Last(p.msgs)), w)
         IN  /\ PageOf(q, w) /\ Newer(q) /\ Edge(q) = Last(p.msgs) - 1
             /\ \E lo \in 1..(w + 1), hi \in 0..w : Interval(q, lo, hi, w)
             /\ Last(p.msgs) \in ToSet(p.msgs) /\ Last(p.msgs) \in Ids
  <1> DEFINE c == Last(p.msgs)
             param == Param("before", c)
  <1>1. p.msgs \in Seq(Ids) /\ p.msgs # <<>> /\ c > 1
    BY DEF PageOf, OlderOK, PageRecords
  <1>2. c \in ToSet(p.msgs)
    <2>1. DOMAIN p.msgs = 1..Len(p.msgs) /\ Len(p.msgs) \in 1..Len(p.msgs)
      BY <1>1, EmptySeq, LenProperties
    <2> QED
      BY <2>1 DEF ToSet, Last
  <1>3. c \in 1..w /\ w \in 1..MaxId
    BY <1>2 DEF PageOf, Ids
  <1>4. Valid(param, w) /\ param.dir = "before" /\ param.cursor = c
    BY <1>1, <1>3 DEF Valid, Param
  <1> HIDE DEF c, param
  <1>5. c # 0 /\ c \in Ids
    BY <1>3, PagesAssumption DEF Ids
  <1>6. /\ PageOf(List(param, w), w)
        /\ \E lo \in 1..(w + 1), hi \in 0..w : Interval(List(param, w), lo, hi, w)
        /\ Newer(List(param, w)) /\ Edge(List(param, w)) = c - 1
    BY <1>4, <1>5, ListedBefore
  <1> QED
    BY <1>2, <1>5, <1>6 DEF c, param

\* The next page: what was heard of since the fetch began is missing at the edge.
LEMMA NextFetched ==
  ASSUME NEW ps \in Seq(PageRecords), Len(ps) <= MaxPages, HasNext(ps),
         NEW w \in Ids, Older(ps, w), NEW h \in Nat, NEW K, Window(ps, K, h),
         NEW n \in Nat, NEW L, K \subseteq L, (h + 1)..n \subseteq L
  PROVE  LET r == AddToEnd(ps, List(Only(NextPageParam(Last(ps))), w))
         IN  /\ r \in Seq(PageRecords) /\ Len(r) \in 1..MaxPages
             /\ Older(r, w) /\ Window(r, L, n)
  <1> DEFINE q == ps[Len(ps)]
             c == Last(q.msgs)
             p == List(Param("before", c), w)
             r == AddToEnd(ps, p)
  <1>1. ps # <<>> /\ Len(ps) \in Nat /\ Len(ps) \in 1..Len(ps)
    BY EmptySeq, LenProperties DEF HasNext
  <1>2. q \in PageRecords /\ q.more /\ PageOf(q, w)
    <2>1. q \in PageRecords
      BY <1>1, ElementOfSeq
    <2>2. q.more
      BY <2>1, NextOf DEF HasNext, Last
    <2> QED
      BY <1>1, <2>1, <2>2 DEF Older
  <1>3. AddToEnd(ps, List(Only(NextPageParam(Last(ps))), w)) = r
    <2>1. Only(NextPageParam(q)) = Param("before", c)
      BY <1>2, NextOf
    <2> QED
      BY <2>1 DEF Last
  <1>4. /\ PageOf(p, w) /\ Newer(p) /\ Edge(p) = c - 1
        /\ \E lo \in 1..(w + 1), hi \in 0..w : Interval(p, lo, hi, w)
        /\ c \in ToSet(q.msgs) /\ c \in Ids
    <2> HIDE DEF q
    <2> QED
      BY <1>2, NextListed
  <1> HIDE DEF c, p
  <1>5. p \in PageRecords
    BY <1>4 DEF PageOf
  <1>6. PICK d \in {0, 1} :
            /\ r \in Seq(PageRecords) /\ Len(r) \in 1..MaxPages /\ r[Len(r)] = p
            /\ Len(r) = Len(ps) + 1 - d
            /\ \A k \in 1..(Len(r) - 1) : r[k] = ps[k + d]
    BY <1>1, <1>5, AddedToEnd
  <1> HIDE DEF r
  <1>7. \A k \in 1..(Len(r) - 1) : k + d \in 1..Len(ps)
    BY <1>1, <1>6
  <1>8. \A k \in 1..Len(r) : k = Len(r) \/ k \in 1..(Len(r) - 1)
    BY <1>6
  <1>9. \A k \in 1..(Len(r) - 1) :
            \/ k + 1 = Len(r) /\ r[k] = q /\ r[k + 1] = p
            \/ k + d \in 1..(Len(ps) - 1) /\ r[k] = ps[k + d] /\ r[k + 1] = ps[(k + d) + 1]
    <2> TAKE k \in 1..(Len(r) - 1)
    <2>1. CASE k + 1 = Len(r)
      <3>1. k + d = Len(ps)
        BY <1>1, <1>6, <2>1
      <3> QED
        BY <1>6, <2>1, <3>1
    <2>2. CASE k + 1 # Len(r)
      <3>1. Len(r) \in Nat /\ Len(ps) \in Nat /\ d \in Nat
        BY <1>1, <1>6
      <3>2. k + 1 \in 1..(Len(r) - 1) /\ (k + 1) + d = (k + d) + 1
        BY <2>2, <3>1
      <3>3. k + d \in 1..(Len(ps) - 1)
        BY <1>6, <2>2, <3>1
      <3> QED
        BY <1>6, <3>2, <3>3
    <2> QED
      BY <2>1, <2>2
  <1>10. Older(r, w)
    <2>1. \A k \in 1..Len(r) : PageOf(r[k], w)
      BY <1>4, <1>6, <1>7, <1>8 DEF Older
    <2>2. ASSUME NEW k \in 1..(Len(r) - 1) PROVE r[k].more \/ r[k].param.dir = "after"
      <3>1. CASE r[k] = q
        BY <1>2, <3>1
      <3>2. CASE k + d \in 1..(Len(ps) - 1) /\ r[k] = ps[k + d]
        BY <3>2 DEF Older
      <3> QED
        BY <1>9, <3>1, <3>2
    <2> QED
      BY <2>1, <2>2 DEF Older
  <1>11. ChainOK(r, L)
    <2>1. PageSound(p, L)
      BY <1>4, IntervalSound
    <2>2. \A k \in 1..Len(ps) : PageSound(ps[k], L)
      BY DEF Window, ChainOK, PageSound
    <2>3. \A k \in 1..Len(r) : PageSound(r[k], L)
      BY <1>6, <1>7, <1>8, <2>1, <2>2
    <2>4. Joined(q, p)
      <3>1. c <= Edge(p) + 1
        BY <1>4 DEF Ids
      <3> QED
        BY <1>4, <3>1 DEF Joined
    <2>5. \A k \in 1..(Len(r) - 1) : Joined(r[k], r[k + 1])
      BY <1>9, <2>4 DEF Window, ChainOK
    <2> QED
      BY <2>3, <2>5 DEF ChainOK
  <1>12. EdgeOK(r, L, n)
    <2> SUFFICES ASSUME ~Newer(r[1]), NEW i \in Ids, i <= n,
                        NEW j \in OnScreen(r), j <= i
                 PROVE  i \in OnScreen(r) \/ i \in L
      BY DEF EdgeOK
    <2>1. d = 0 /\ Len(r) > 1 /\ r[1] = ps[1]
      <3>1. Len(r) # 1
        BY <1>4, <1>6
      <3>2. 1 \in 1..(Len(r) - 1)
        BY <1>6, <3>1
      <3>3. d # 1
        <4> SUFFICES ASSUME d = 1 PROVE FALSE
          OBVIOUS
        <4>1. 1 \in 1..(Len(ps) - 1) /\ r[1] = ps[1 + 1]
          BY <1>1, <1>6, <3>2
        <4>2. Joined(ps[1], ps[1 + 1])
          BY <4>1 DEF Window, ChainOK
        <4> QED
          BY <4>1, <4>2 DEF Joined
      <3> QED
        BY <1>6, <3>2, <3>3
    <2>2. \A x \in OnScreen(ps) : x \in OnScreen(r)
      <3> TAKE x \in OnScreen(ps)
      <3>1. PICK k \in 1..Len(ps) : x \in ToSet(ps[k].msgs)
        BY OnScreenOf
      <3>2. k \in 1..(Len(r) - 1) /\ k \in 1..Len(r) /\ r[k] = ps[k]
        BY <1>1, <1>6, <2>1, <3>1
      <3> QED
        BY <1>6, <3>1, <3>2, OnScreenOf
    <2>3. ASSUME i <= h, NEW l \in OnScreen(ps), l <= i
          PROVE  i \in OnScreen(r) \/ i \in L
      BY <1>1, <2>1, <2>2, <2>3 DEF Window, EdgeOK
    <2>4. ASSUME i <= h, \A l \in OnScreen(ps) : ~(l <= i)
          PROVE  i \in OnScreen(r) \/ i \in L
      <3>1. c \in OnScreen(ps)
        BY <1>1, <1>4, OnScreenOf
      <3>2. i <= Edge(p)
        BY <1>4, <2>4, <3>1 DEF Ids
      <3>3. PICK k \in 1..Len(r) : j \in ToSet(r[k].msgs)
        BY <1>6, OnScreenOf
      <3>4. k = Len(r)
        <4> SUFFICES ASSUME k # Len(r) PROVE FALSE
          OBVIOUS
        <4>1. k \in 1..(Len(r) - 1) /\ k \in 1..Len(ps) /\ r[k] = ps[k]
          BY <1>1, <1>6, <2>1
        <4>2. j \in OnScreen(ps)
          BY <3>3, <4>1, OnScreenOf
        <4> QED
          BY <2>4, <4>2
      <3>5. i \in ToSet(p.msgs) \/ i \in L
        <4>1. PageSound(p, L)
          BY <1>4, IntervalSound
        <4> QED
          BY <1>4, <1>6, <3>2, <3>3, <3>4, <4>1 DEF PageSound
      <3>6. ToSet(p.msgs) \subseteq OnScreen(r)
        BY <1>6, <1>8, <3>3, <3>4, OnScreenOf
      <3> QED
        BY <3>5, <3>6
    <2>5. ~(i <= h) => i \in L
      BY DEF Ids
    <2> QED
      BY <2>3, <2>4, <2>5
  <1> QED
    BY <1>3, <1>6, <1>10, <1>11, <1>12 DEF Window

\* The previous page: what was heard of since the answer is missing at the edge.
LEMMA PreviousFetched ==
  ASSUME NEW ps \in Seq(PageRecords), Len(ps) <= MaxPages, HasPrevious(ps),
         NEW w \in Ids, Older(ps, w), NEW K, ChainOK(ps, K),
         NEW n \in Nat, NEW L, K \subseteq L, (w + 1)..n \subseteq L
  PROVE  LET r == AddToStart(ps, List(Only(PreviousPageParam(ps[1])), w))
         IN  /\ r \in Seq(PageRecords) /\ Len(r) \in 1..MaxPages
             /\ Older(r, w) /\ Window(r, L, n)
  <1> USE PagesAssumption
  <1> DEFINE q == ps[1]
             c == Edge(q)
             param == Param("after", c)
             p == List(param, w)
             r == AddToStart(ps, p)
  <1>1. ps # <<>> /\ Len(ps) \in Nat /\ 1 \in 1..Len(ps)
    BY EmptySeq, LenProperties DEF HasPrevious
  <1>2. q \in PageRecords /\ Newer(q) /\ PageOf(q, w)
    <2>1. q \in PageRecords /\ Newer(q)
      BY <1>1, ElementOfSeq DEF HasPrevious, Newer
    <2> QED
      BY <1>1, <2>1 DEF Older
  <1>3. Only(PreviousPageParam(q)) = param /\ c \in 1..w
    <2> HIDE DEF q
    <2>1. Only(PreviousPageParam(q)) = Param("after", Edge(q)) /\ Edge(q) \in ToSet(q.msgs)
      BY <1>2, EdgeOf
    <2> QED
      BY <1>2, <2>1 DEF PageOf
  <1> HIDE DEF c, q
  <1>4. Valid(param, w) /\ param.dir = "after" /\ param.cursor = c
    BY <1>3 DEF Valid, Param
  <1> HIDE DEF param
  <1>5. /\ PageOf(p, w)
        /\ \E lo \in 1..(w + 1), hi \in 0..w : Interval(p, lo, hi, w) /\ lo = c + 1
    BY <1>4, ListedAfter
  <1> HIDE DEF p
  <1>6. PICK lo \in 1..(w + 1), hi \in 0..w : Interval(p, lo, hi, w) /\ lo = c + 1
    BY <1>5
  <1>7. p \in PageRecords /\ p.param = param
    <2>1. p.param = param
      BY <1>4, ListedAfter DEF p
    <2> QED
      BY <1>5, <2>1 DEF PageOf
  <1>8. /\ r \in Seq(PageRecords) /\ Len(r) \in 1..MaxPages /\ r[1] = p
        /\ Len(r) <= Len(ps) + 1
        /\ \A k \in 1..(Len(r) - 1) : r[k + 1] = ps[k]
    BY <1>1, <1>7, AddedToStart
  <1> HIDE DEF r
  <1>9. \A k \in 1..Len(r) : k = 1 \/ \E l \in 1..(Len(r) - 1) :
                                       k = l + 1 /\ l \in 1..Len(ps) /\ r[k] = ps[l]
    <2> SUFFICES ASSUME NEW k \in 1..Len(r), k # 1
                 PROVE  \E l \in 1..(Len(r) - 1) :
                            k = l + 1 /\ l \in 1..Len(ps) /\ r[k] = ps[l]
      OBVIOUS
    <2>1. k - 1 \in 1..(Len(r) - 1) /\ k = (k - 1) + 1 /\ k - 1 \in 1..Len(ps)
      BY <1>1, <1>8
    <2> QED
      BY <1>8, <2>1
  <1>10. \A k \in 1..(Len(r) - 1) :
            \/ k = 1 /\ r[k] = p /\ r[k + 1] = q
            \/ \E l \in 1..(Len(ps) - 1) : r[k] = ps[l] /\ r[k + 1] = ps[l + 1]
    <2> TAKE k \in 1..(Len(r) - 1)
    <2>1. CASE k = 1
      BY <1>8, <2>1 DEF q
    <2>2. CASE k # 1
      <3>1. k \in 1..Len(r)
        BY <1>8
      <3>2. PICK l \in 1..(Len(r) - 1) : k = l + 1 /\ l \in 1..Len(ps) /\ r[k] = ps[l]
        BY <1>9, <2>2, <3>1
      <3>3. l \in 1..(Len(ps) - 1) /\ r[k + 1] = ps[l + 1]
        BY <1>1, <1>8, <3>2
      <3> QED
        BY <3>2, <3>3
    <2> QED
      BY <2>1, <2>2
  <1>11. Older(r, w)
    <2>1. \A k \in 1..Len(r) : PageOf(r[k], w)
      BY <1>5, <1>8, <1>9 DEF Older
    <2>2. p.param.dir = "after"
      BY <1>4, <1>7
    <2>3. \A k \in 1..(Len(r) - 1) : r[k].more \/ r[k].param.dir = "after"
      BY <1>10, <2>2 DEF Older
    <2> QED
      BY <2>1, <2>3 DEF Older
  <1>12. ChainOK(r, L)
    <2>1. PageSound(p, L)
      BY <1>6, IntervalSound
    <2>2. \A k \in 1..Len(ps) : PageSound(ps[k], L)
      BY DEF ChainOK, PageSound
    <2>3. \A k \in 1..Len(r) : PageSound(r[k], L)
      BY <1>8, <1>9, <2>1, <2>2
    <2>4. Joined(p, q)
      <3>1. ASSUME Newer(p) PROVE \E j \in ToSet(p.msgs) : j <= Edge(q) + 1
        <4>1. Edge(p) \in lo..hi /\ ToSet(p.msgs) = lo..hi
          BY <1>6, <1>7, <3>1, EdgeOf DEF Interval
        <4>2. lo \in ToSet(p.msgs) /\ lo <= c + 1
          BY <1>3, <1>6, <4>1
        <4> QED
          BY <4>2 DEF c
      <3> QED
        BY <1>2, <3>1 DEF Joined
    <2>5. \A k \in 1..(Len(r) - 1) : Joined(r[k], r[k + 1])
      BY <1>10, <2>4 DEF ChainOK
    <2> QED
      BY <2>3, <2>5 DEF ChainOK
  <1>13. EdgeOK(r, L, n)
    <2> SUFFICES ASSUME ~Newer(p), NEW i \in Ids, i <= n,
                        NEW j \in OnScreen(r), j <= i
                 PROVE  i \in OnScreen(r) \/ i \in L
      BY <1>8 DEF EdgeOK
    <2>1. ToSet(p.msgs) = lo..w /\ i \in Nat /\ j \in Nat /\ w \in Nat
      <3>1. OnScreen(r) \subseteq Ids
        BY <1>8, OnScreenOf
      <3> QED
        BY <1>6, <3>1 DEF Interval, Ids
    <2>2. CASE i > w
      BY <2>1, <2>2
    <2>3. CASE i <= w /\ lo <= i
      <3>1. i \in ToSet(p.msgs)
        BY <1>6, <2>1, <2>3
      <3>2. 1 \in 1..Len(r)
        BY <1>8
      <3> QED
        BY <1>8, <3>1, <3>2, OnScreenOf
    <2>4. CASE i < lo
      <3>1. PICK k \in 1..Len(r) : j \in ToSet(r[k].msgs)
        BY <1>8, OnScreenOf
      <3>2. k # 1
        <4> SUFFICES ASSUME k = 1 PROVE FALSE
          OBVIOUS
        <4>1. j \in lo..w
          BY <1>8, <2>1, <3>1
        <4> QED
          BY <1>6, <2>1, <2>4, <4>1
      <3>3. PICK l \in 1..(Len(r) - 1) : k = l + 1 /\ l \in 1..Len(ps) /\ r[k] = ps[l]
        BY <1>9, <3>2
      <3> DEFINE b == Len(r) - 1
      <3>4. b \in 1..Len(ps) /\ l \in 1..b /\ j \in ToSet(ps[l].msgs)
        BY <1>1, <1>8, <3>1, <3>3
      <3>5. i <= Edge(ps[1]) /\ Newer(ps[1])
        BY <1>2, <1>3, <1>6, <2>1, <2>4 DEF c, q
      <3>6. i \in K \/ \E m \in 1..b : i \in ToSet(ps[m].msgs)
        <4> HIDE DEF b
        <4> QED
          BY <1>1, <3>4, <3>5, ChainCovers
      <3>7. ASSUME NEW m \in 1..b PROVE ToSet(ps[m].msgs) \subseteq OnScreen(r)
        <4>1. m + 1 \in 1..Len(r) /\ r[m + 1] = ps[m]
          BY <1>8, <3>7
        <4> QED
          BY <1>8, <4>1, OnScreenOf
      <3> QED
        BY <3>6, <3>7
    <2> QED
      BY <1>6, <2>1, <2>2, <2>3, <2>4
  <1>14. AddToStart(ps, List(Only(PreviousPageParam(ps[1])), w)) = r
    BY <1>3 DEF r, p, q
  <1> QED
    BY <1>8, <1>11, <1>12, <1>13, <1>14 DEF Window

\* Pages fetched one after the other, each next from the last.
Fetched(ps, w) ==
    /\ ps \in Seq(PageRecords) /\ ps # <<>>
    /\ \A k \in 1..Len(ps) :
           PageOf(ps[k], w) /\ \E lo \in 1..(w + 1), hi \in 0..w : Interval(ps[k], lo, hi, w)
    /\ \A k \in 1..(Len(ps) - 1) :
           ps[k].more /\ ps[k + 1] = List(Param("before", Last(ps[k].msgs)), w)

LEMMA FetchedWindow ==
  ASSUME NEW w \in Ids, NEW ps, Fetched(ps, w), NEW n \in Nat, NEW L, (w + 1)..n \subseteq L
  PROVE  Older(ps, w) /\ Window(ps, L, n)
  <1> USE PagesAssumption
  <1>1. ps \in Seq(PageRecords) /\ Len(ps) \in Nat /\ 1 \in 1..Len(ps)
    BY EmptySeq, LenProperties DEF Fetched
  <1>2. Older(ps, w)
    BY DEF Older, Fetched
  <1>3. ASSUME NEW k \in 1..(Len(ps) - 1)
        PROVE  /\ Newer(ps[k + 1]) /\ Edge(ps[k + 1]) = Last(ps[k].msgs) - 1
               /\ Last(ps[k].msgs) \in ToSet(ps[k].msgs) /\ Last(ps[k].msgs) \in Ids
    <2>1. k \in 1..Len(ps)
      BY <1>1
    <2>2. PageOf(ps[k], w) /\ ps[k].more
          /\ ps[k + 1] = List(Param("before", Last(ps[k].msgs)), w)
      BY <2>1 DEF Fetched
    <2> QED
      BY <2>2, NextListed
  <1>4. ChainOK(ps, L)
    <2>1. \A k \in 1..Len(ps) : PageSound(ps[k], L)
      BY IntervalSound DEF Fetched
    <2>2. ASSUME NEW k \in 1..(Len(ps) - 1) PROVE Joined(ps[k], ps[k + 1])
      <3>1. Last(ps[k].msgs) <= Edge(ps[k + 1]) + 1
        BY <1>3 DEF Ids
      <3> QED
        BY <1>3, <3>1 DEF Joined
    <2> QED
      BY <2>1, <2>2 DEF ChainOK
  <1>5. EdgeOK(ps, L, n)
    <2> SUFFICES ASSUME ~Newer(ps[1]), NEW i \in Ids, i <= n,
                        NEW j \in OnScreen(ps), j <= i
                 PROVE  i \in OnScreen(ps) \/ i \in L
      BY DEF EdgeOK
    <2>1. PICK lo \in 1..(w + 1), hi \in 0..w : Interval(ps[1], lo, hi, w)
      BY <1>1 DEF Fetched
    <2>2. ToSet(ps[1].msgs) = lo..w /\ i \in Nat /\ j \in Nat /\ w \in Nat
      <3>1. OnScreen(ps) \subseteq Ids
        BY <1>1, OnScreenOf
      <3> QED
        BY <2>1, <3>1 DEF Interval, Ids
    <2>3. CASE i > w
      BY <2>2, <2>3
    <2>4. CASE i <= w /\ lo <= i
      <3>1. i \in ToSet(ps[1].msgs)
        BY <2>1, <2>2, <2>4
      <3> QED
        BY <1>1, <3>1, OnScreenOf
    <2>5. CASE i < lo
      <3>1. PICK k \in 1..Len(ps) : j \in ToSet(ps[k].msgs)
        BY <1>1, OnScreenOf
      <3>2. k # 1
        <4> SUFFICES ASSUME k = 1 PROVE FALSE
          OBVIOUS
        <4>1. j \in lo..w
          BY <2>2, <3>1
        <4> QED
          BY <2>1, <2>2, <2>5, <4>1
      <3>3. 1 \in 1..(Len(ps) - 1) /\ 2 \in 1..Len(ps) /\ k \in 2..Len(ps)
            /\ Len(ps) \in 2..Len(ps) /\ 1 + 1 = 2
        BY <1>1, <3>2
      <3>4. Newer(ps[2]) /\ Edge(ps[2]) = Last(ps[1].msgs) - 1
            /\ Last(ps[1].msgs) \in lo..w
        BY <1>3, <2>2, <3>3
      <3>5. i <= Edge(ps[2])
        BY <2>1, <2>2, <2>5, <3>4
      <3>6. i \in L \/ \E m \in 2..Len(ps) : i \in ToSet(ps[m].msgs)
        BY <1>1, <1>4, <3>1, <3>3, <3>4, <3>5, ChainCovers
      <3>7. \A m \in 2..Len(ps) : m \in 1..Len(ps)
        BY <1>1
      <3> QED
        BY <1>1, <3>6, <3>7, OnScreenOf
    <2> QED
      BY <2>1, <2>2, <2>3, <2>4, <2>5
  <1> QED
    BY <1>2, <1>4, <1>5 DEF Window

\* The recursion of a refetch, up to m pages.
FirstPage(ps, w) == List(IF ps = <<>> THEN InitialPageParam ELSE ps[1].param, w)

Further(s, n, w) ==
    IF Len(s) < n - 1 \/ ~HasNext(s) THEN s
    ELSE Append(s, List(Only(NextPageParam(Last(s))), w))

Refetching(g, ps, w, m) ==
    g = [n \in 1..m |-> IF n = 1 THEN <<FirstPage(ps, w)>> ELSE Further(g[n - 1], n, w)]

LEMMA RefetchingExists ==
  ASSUME NEW ps, NEW w, NEW m \in Nat \ {0}
  PROVE  \E g : Refetching(g, ps, w, m)
  <1> DEFINE T == {k \in Nat \ {0} : ~\E g : Refetching(g, ps, w, k)}
  <1> SUFFICES ASSUME m \in T PROVE FALSE
    OBVIOUS
  <1>1. PICK l \in T : \A k \in T : l <= k
    <2>1. T \subseteq Nat /\ T # {}
      OBVIOUS
    <2> HIDE DEF T
    <2> QED
      BY <2>1, LeastOf
  <1>2. l \in Nat \ {0} /\ ~\E g : Refetching(g, ps, w, l)
    OBVIOUS
  <1>3. CASE l = 1
    <2> DEFINE g == [n \in 1..1 |-> <<FirstPage(ps, w)>>]
    <2>1. g = [n \in 1..1 |-> IF n = 1 THEN <<FirstPage(ps, w)>>
                                       ELSE Further(g[n - 1], n, w)]
      OBVIOUS
    <2> HIDE DEF g
    <2>2. Refetching(g, ps, w, 1)
      BY <2>1 DEF Refetching
    <2> QED
      BY <1>2, <1>3, <2>2
  <1>4. CASE l # 1
    <2>1. PICK k \in Nat \ {0} : l = k + 1
      <3>1. l - 1 \in Nat \ {0} /\ l = (l - 1) + 1
        BY <1>2, <1>4
      <3> QED
        BY <3>1
    <2>2. k \notin T
      <3>1. ~(l <= k)
        BY <2>1
      <3> HIDE DEF T
      <3> QED
        BY <1>1, <3>1
    <2>3. PICK f : Refetching(f, ps, w, k)
      BY <2>1, <2>2
    <2> DEFINE x == Further(f[k], k + 1, w)
    <2> HIDE DEF x
    <2> DEFINE g == [n \in 1..(k + 1) |-> IF n = k + 1 THEN x ELSE f[n]]
    <2>4. \A n \in 1..k : g[n] = f[n] /\ n \in 1..(k + 1)
      BY <2>1
    <2>5. g[k + 1] = x
      BY <2>1
    <2>6. \A n \in 1..k : f[n] = IF n = 1 THEN <<FirstPage(ps, w)>>
                                          ELSE Further(f[n - 1], n, w)
      BY <2>3 DEF Refetching
    <2>7. ASSUME NEW n \in 1..(k + 1)
          PROVE  g[n] = IF n = 1 THEN <<FirstPage(ps, w)>> ELSE Further(g[n - 1], n, w)
      <3>1. CASE n = k + 1
        <4>1. n # 1 /\ n - 1 = k /\ k \in 1..k
          BY <2>1, <3>1
        <4>2. g[n] = Further(f[k], k + 1, w) /\ g[n - 1] = f[k]
          BY <2>4, <2>5, <3>1, <4>1 DEF x
        <4> HIDE DEF g
        <4> QED
          BY <3>1, <4>1, <4>2
      <3>2. CASE n # k + 1
        <4>1. n \in 1..k /\ (n # 1 => n - 1 \in 1..k)
          BY <2>1, <3>2
        <4>2. g[n] = f[n] /\ (n # 1 => g[n - 1] = f[n - 1])
          BY <2>4, <4>1
        <4> HIDE DEF g
        <4> QED
          BY <2>6, <4>1, <4>2
      <3> QED
        BY <3>1, <3>2
    <2>8. g = [n \in 1..(k + 1) |-> g[n]]
      OBVIOUS
    <2> HIDE DEF g
    <2>9. Refetching(g, ps, w, k + 1)
      BY <2>7, <2>8 DEF Refetching
    <2> QED
      BY <1>2, <2>1, <2>9
  <1> QED
    BY <1>3, <1>4

LEMMA FurtherFetched ==
  ASSUME NEW w \in Ids, NEW s, Fetched(s, w), NEW n
  PROVE  Fetched(Further(s, n, w), w)
         /\ Len(s) \in Nat /\ Len(Further(s, n, w)) \in 1..(Len(s) + 1)
  <1>1. s \in Seq(PageRecords) /\ s # <<>> /\ Len(s) \in Nat /\ Len(s) \in 1..Len(s)
    BY EmptySeq, LenProperties DEF Fetched
  <1>2. CASE Len(s) < n - 1 \/ ~HasNext(s)
    <2>1. Further(s, n, w) = s
      BY <1>2 DEF Further
    <2> QED
      BY <1>1, <2>1
  <1>3. CASE ~(Len(s) < n - 1) /\ HasNext(s)
    <2> DEFINE q == s[Len(s)]
               p == List(Param("before", Last(q.msgs)), w)
               r == Append(s, p)
    <2>1. q \in PageRecords /\ PageOf(q, w)
      BY <1>1 DEF Fetched, PageOf
    <2>2. q.more /\ Only(NextPageParam(Last(s))) = Param("before", Last(q.msgs))
      BY <1>3, <2>1, NextOf DEF HasNext, Last
    <2>3. PageOf(p, w) /\ \E lo \in 1..(w + 1), hi \in 0..w : Interval(p, lo, hi, w)
      <3> HIDE DEF q
      <3> QED
        BY <2>1, <2>2, NextListed
    <2>4. Further(s, n, w) = r
      BY <1>3, <2>2 DEF Further
    <2>5. p = List(Param("before", Last(q.msgs)), w)
      OBVIOUS
    <2> HIDE DEF p
    <2>6. p \in PageRecords
      BY <2>3 DEF PageOf
    <2>7. /\ r \in Seq(PageRecords) /\ r # <<>> /\ Len(r) = Len(s) + 1
          /\ r[Len(s) + 1] = p /\ \A k \in 1..Len(s) : r[k] = s[k]
      BY <1>1, <2>6, AppendProperties
    <2> HIDE DEF r
    <2>8. \A k \in 1..Len(r) : k \in 1..Len(s) \/ k = Len(s) + 1
      BY <1>1, <2>7
    <2>9. ASSUME NEW k \in 1..Len(r)
          PROVE  PageOf(r[k], w)
                 /\ \E lo \in 1..(w + 1), hi \in 0..w : Interval(r[k], lo, hi, w)
      <3>1. CASE k \in 1..Len(s)
        BY <2>7, <3>1 DEF Fetched
      <3>2. CASE k = Len(s) + 1
        BY <2>3, <2>7, <3>2
      <3> QED
        BY <2>8, <3>1, <3>2
    <2>10. ASSUME NEW k \in 1..(Len(r) - 1)
           PROVE  r[k].more /\ r[k + 1] = List(Param("before", Last(r[k].msgs)), w)
      <3>1. CASE k = Len(s)
        <4>1. r[k] = q /\ r[k + 1] = p
          BY <1>1, <2>7, <3>1
        <4> HIDE DEF q
        <4> QED
          BY <2>2, <2>5, <4>1
      <3>2. CASE k # Len(s)
        <4>1. k \in 1..(Len(s) - 1) /\ r[k] = s[k] /\ r[k + 1] = s[k + 1]
          BY <1>1, <2>7, <3>2
        <4> QED
          BY <4>1 DEF Fetched
      <3> QED
        BY <3>1, <3>2
    <2>11. Fetched(r, w)
      BY <2>7, <2>9, <2>10 DEF Fetched
    <2> QED
      BY <1>1, <2>4, <2>7, <2>11
  <1> QED
    BY <1>2, <1>3

LEMMA OneFetched ==
  ASSUME NEW w \in Ids, NEW param, Valid(param, w)
  PROVE  Fetched(<<List(param, w)>>, w) /\ Len(<<List(param, w)>>) = 1
  <1> DEFINE p == List(param, w)
             o == <<p>>
  <1>1. PageOf(p, w) /\ \E lo \in 1..(w + 1), hi \in 0..w : Interval(p, lo, hi, w)
    BY Listed
  <1> HIDE DEF p
  <1>2. p \in PageRecords
    BY <1>1 DEF PageOf
  <1>3. o \in Seq(PageRecords) /\ Len(o) = 1 /\ o[1] = p /\ o # <<>>
    BY <1>2
  <1> HIDE DEF o
  <1>4. \A k \in 1..Len(o) : k = 1
    BY <1>3
  <1>5. \A k \in 1..Len(o) :
            PageOf(o[k], w) /\ \E lo \in 1..(w + 1), hi \in 0..w : Interval(o[k], lo, hi, w)
    BY <1>1, <1>3, <1>4
  <1>6. \A k \in 1..(Len(o) - 1) : FALSE
    BY <1>3
  <1>7. Fetched(o, w)
    BY <1>3, <1>5, <1>6 DEF Fetched
  <1> QED
    BY <1>3, <1>7 DEF o, p

\* A refetch rebuilds no more pages than there were, one after the other.
LEMMA RefetchedIsFetched ==
  ASSUME NEW w \in Ids, NEW v \in Ids, v <= w, NEW ps \in Seq(PageRecords), Older(ps, v)
  PROVE  LET r == Refetched(ps, w)
         IN  Fetched(r, w) /\ Len(r) \in 1..Greatest(1, Len(ps))
  <1> USE PagesAssumption
  <1> DEFINE G == Greatest(1, Len(ps))
             R == CHOOSE R : Refetching(R, ps, w, G)
             Good(n) == Fetched(R[n], w) /\ Len(R[n]) \in 1..n
             T == {n \in 1..G : ~Good(n)}
  <1>1. Len(ps) \in Nat /\ G \in Nat \ {0} /\ G \in 1..G
    BY LenProperties DEF Greatest
  <1>2. Refetched(ps, w) = R[G]
    BY DEF Refetched, Refetching, FirstPage, Further
  <1>3. Refetching(R, ps, w, G)
    <2>1. \E g : Refetching(g, ps, w, G)
      <3> HIDE DEF G
      <3> QED
        BY <1>1, RefetchingExists
    <2> HIDE DEF G
    <2> QED
      BY <2>1
  <1> HIDE DEF G, R
  <1>4. \A n \in 1..G : R[n] = IF n = 1 THEN <<FirstPage(ps, w)>>
                                        ELSE Further(R[n - 1], n, w)
    BY <1>3 DEF Refetching
  <1>5. Good(1)
    <2> DEFINE param == IF ps = <<>> THEN InitialPageParam ELSE ps[1].param
    <2>1. Valid(param, w)
      <3>1. CASE ps = <<>>
        BY <3>1 DEF Valid, InitialPageParam, Param, NoCursor, Ids
      <3>2. CASE ps # <<>>
        <4>1. 1 \in 1..Len(ps)
          BY <3>2, EmptySeq, LenProperties
        <4>2. Valid(ps[1].param, v)
          BY <4>1 DEF Older, PageOf
        <4>3. 0..v \subseteq 0..w
          BY DEF Ids
        <4> QED
          BY <3>2, <4>2, <4>3 DEF Valid
      <3> QED
        BY <3>1, <3>2
    <2>2. R[1] = <<List(param, w)>>
      <3>1. 1 \in 1..G
        BY <1>1
      <3> QED
        BY <1>4, <3>1 DEF FirstPage
    <2> HIDE DEF param
    <2> QED
      BY <2>1, <2>2, OneFetched
  <1>6. T = {}
    <2> SUFFICES ASSUME T # {} PROVE FALSE
      OBVIOUS
    <2>1. PICK m \in T : \A n \in T : m <= n
      <3>1. T \subseteq Nat
        BY <1>1
      <3> HIDE DEF T
      <3> QED
        BY <3>1, LeastOf
    <2>2. m \in 1..G /\ ~Good(m)
      OBVIOUS
    <2>3. m # 1
      BY <1>5, <2>2
    <2>4. PICK k \in 1..G : m = k + 1
      <3>1. m - 1 \in 1..G /\ m = (m - 1) + 1
        BY <1>1, <2>2, <2>3
      <3> QED
        BY <3>1
    <2>5. Good(k)
      <3>1. k \notin T
        <4>1. ~(m <= k)
          BY <1>1, <2>4
        <4> HIDE DEF T
        <4> QED
          BY <2>1, <4>1
      <3> QED
        BY <3>1
    <2>6. R[m] = Further(R[k], m, w)
      <3>1. m - 1 = k
        BY <1>1, <2>4
      <3> QED
        BY <1>4, <2>2, <2>3, <3>1
    <2>7. Fetched(R[m], w) /\ Len(R[k]) \in Nat /\ Len(R[m]) \in 1..(Len(R[k]) + 1)
      BY <2>5, <2>6, FurtherFetched
    <2>8. Len(R[m]) \in 1..m
      BY <1>1, <2>4, <2>5, <2>7
    <2> QED
      BY <2>2, <2>7, <2>8
  <1>7. Good(G)
    BY <1>1, <1>6
  <1> QED
    BY <1>2, <1>7 DEF G

-----------------------------------------------------------------------------
(* What an event makes of a window.                                         *)

\* A live message at the front of a page.
LEMMA LivePage ==
  ASSUME NEW w \in Ids, NEW p, PageOf(p, w), NEW id \in 2..w
  PROVE  LET q == [p EXCEPT !.msgs = <<id>> \o @]
         IN  /\ PageOf(q, w) /\ q.more = p.more /\ q.param = p.param
             /\ ToSet(q.msgs) = ToSet(p.msgs) \cup {id}
             /\ Newer(q) <=> Newer(p)
             /\ Newer(p) => Edge(q) = IF p.param.dir = "after" THEN Edge(p) ELSE id
  <1> USE PagesAssumption
  <1> DEFINE s == p.msgs
             o == <<id>>
             t == o \o s
  <1>1. s \in Seq(Ids) /\ id \in Ids /\ Len(s) \in Nat /\ DOMAIN s = 1..Len(s)
        /\ p \in PageRecords
    <2>1. s \in Seq(Ids) /\ p \in PageRecords
      BY DEF PageOf, PageRecords
    <2>2. id \in Ids
      BY DEF Ids
    <2> QED
      BY <2>1, <2>2, LenProperties
  <1> HIDE DEF s
  <1>2. o \in Seq(Ids) /\ Len(o) = 1 /\ o[1] = id
    BY <1>1
  <1> HIDE DEF o
  <1>3. /\ t \in Seq(Ids) /\ Len(t) = Len(o) + Len(s)
        /\ \A i \in 1..(Len(o) + Len(s)) : t[i] = IF i <= Len(o) THEN o[i] ELSE s[i - Len(o)]
    BY <1>1, <1>2, ConcatProperties
  <1> HIDE DEF t
  <1>4. t[1] = id /\ DOMAIN t = 1..Len(t) /\ Len(t) = Len(s) + 1 /\ t # <<>>
    BY <1>1, <1>2, <1>3, EmptySeq, LenProperties
  <1>5. \A k \in 1..Len(s) : t[k + 1] = s[k]
    <2> TAKE k \in 1..Len(s)
    <2>1. k + 1 \in 1..(Len(o) + Len(s)) /\ ~(k + 1 <= Len(o)) /\ (k + 1) - Len(o) = k
      BY <1>1, <1>2
    <2> QED
      BY <1>3, <2>1
  <1>6. ToSet(t) = ToSet(s) \cup {id}
    <2>1. \A i \in 1..Len(t) : i = 1 \/ \E k \in 1..Len(s) : i = k + 1
      <3> SUFFICES ASSUME NEW i \in 1..Len(t), i # 1
                   PROVE  \E k \in 1..Len(s) : i = k + 1
        OBVIOUS
      <3>1. i - 1 \in 1..Len(s) /\ i = (i - 1) + 1
        BY <1>1, <1>4
      <3> QED
        BY <3>1
    <2>2. 1 \in 1..Len(t) /\ \A k \in 1..Len(s) : k + 1 \in 1..Len(t)
      BY <1>1, <1>4
    <2>3. \A i \in 1..Len(t) : t[i] = id \/ t[i] \in ToSet(s)
      BY <1>1, <1>4, <1>5, <2>1 DEF ToSet
    <2>4. \A k \in 1..Len(s) : s[k] \in ToSet(t)
      BY <1>4, <1>5, <2>2 DEF ToSet
    <2>5. id \in ToSet(t)
      BY <1>4, <2>2 DEF ToSet
    <2>6. \A x \in ToSet(s) : x \in ToSet(t)
      BY <1>1, <2>4 DEF ToSet
    <2>7. \A x \in ToSet(t) : x = id \/ x \in ToSet(s)
      BY <1>4, <2>3 DEF ToSet
    <2> QED
      BY <2>5, <2>6, <2>7
  <1>7. s # <<>> => Last(t) = Last(s)
    <2> SUFFICES ASSUME s # <<>> PROVE t[Len(t)] = s[Len(s)]
      BY DEF Last
    <2>1. Len(s) \in 1..Len(s)
      BY <1>1, EmptySeq
    <2> QED
      BY <1>4, <1>5, <2>1
  <1> DEFINE q == [p EXCEPT !.msgs = t]
  <1>8. q \in PageRecords /\ q.param = p.param /\ q.more = p.more /\ q.newer = p.newer
        /\ q.msgs = t
    BY <1>1, <1>3 DEF PageRecords
  <1> HIDE DEF q
  <1>9. s = <<>> => p.param.dir = "after" /\ ~p.more /\ ~p.newer
    <2>1. OlderOK(p) /\ Valid(p.param, w)
      BY DEF PageOf
    <2> QED
      BY <2>1 DEF OlderOK, s
  <1>10. Newer(q) <=> Newer(p)
    <2>1. CASE s = <<>>
      BY <1>1, <1>8, <1>9, <2>1, EdgeOf DEF s
    <2>2. CASE s # <<>>
      BY <1>1, <1>4, <1>8, <2>2, EdgeOf DEF s
    <2> QED
      BY <2>1, <2>2
  <1>11. ASSUME Newer(p)
         PROVE  Edge(q) = IF p.param.dir = "after" THEN Edge(p) ELSE id
    <2>1. s # <<>> /\ Edge(p) = IF p.param.dir = "after" THEN Last(s) ELSE s[1]
      BY <1>1, <1>11, EdgeOf DEF s
    <2>2. Edge(q) = IF p.param.dir = "after" THEN Last(t) ELSE t[1]
      BY <1>8, <1>10, <1>11, EdgeOf
    <2> QED
      BY <1>4, <1>7, <2>1, <2>2
  <1>12. OlderOK(q)
    <2>1. OlderOK(p) /\ id # 1
      BY DEF PageOf
    <2>2. CASE s = <<>>
      <3>1. 1 \notin ToSet(t)
        BY <1>1, <1>6, <2>1, <2>2 DEF ToSet
      <3> QED
        BY <1>8, <1>9, <2>2, <3>1 DEF OlderOK
    <2>3. CASE s # <<>>
      BY <1>4, <1>6, <1>7, <1>8, <2>1, <2>3 DEF OlderOK, s
    <2> QED
      BY <2>2, <2>3
  <1>13. PageOf(q, w)
    <2>1. ToSet(t) \subseteq 1..w
      <3>1. ToSet(s) \subseteq 1..w /\ id \in 1..w
        BY DEF PageOf, s, Ids
      <3> QED
        BY <1>6, <3>1
    <2> QED
      BY <1>8, <1>12, <2>1 DEF PageOf
  <1>14. [p EXCEPT !.msgs = <<id>> \o @] = q
    BY DEF q, t, o, s
  <1> QED
    BY <1>6, <1>8, <1>10, <1>11, <1>13, <1>14 DEF s

\* A live message put on the first page leaves out only what is in P.
LEMMA LiveWindow ==
  ASSUME NEW ps \in Seq(PageRecords), ps # <<>>, NEW w \in Ids, Older(ps, w),
         NEW h \in Nat \ {0}, h < w, NEW K, Window(ps, K, h), NEW P,
         HasPrevious(ps) => \A i \in Ids : (Edge(ps[1]) < i /\ i <= h) => i \in P,
         \A i \in Ids : (h + 1 < i /\ i <= w /\ \E j \in OnScreen(ps) : i < j) => i \in P
  PROVE  LET r == [ps EXCEPT ![1].msgs = <<h + 1>> \o @]
         IN  /\ r \in Seq(PageRecords) /\ Len(r) = Len(ps)
             /\ Older(r, w) /\ Window(r, K \cup P, h + 1)
             /\ OnScreen(r) = OnScreen(ps) \cup {h + 1}
  <1> USE PagesAssumption
  <1> DEFINE id == h + 1
             p == ps[1]
             q == [p EXCEPT !.msgs = <<id>> \o @]
             r == [ps EXCEPT ![1] = q]
  <1>1. Len(ps) \in Nat /\ DOMAIN ps = 1..Len(ps) /\ 1 \in 1..Len(ps)
        /\ \A k \in 1..Len(ps) : ps[k] \in PageRecords
    BY EmptySeq, LenProperties, ElementOfSeq
  <1>2. PageOf(p, w) /\ p \in PageRecords /\ (HasPrevious(ps) <=> Newer(p))
    BY <1>1 DEF Older, HasPrevious, Newer
  <1>3. id \in 2..w /\ id \in Ids /\ w \in Nat
    BY DEF Ids
  <1>4. [ps EXCEPT ![1].msgs = <<h + 1>> \o @] = r
    BY <1>1
  <1> HIDE DEF id, p
  <1>5. /\ PageOf(q, w) /\ q.more = p.more /\ q.param = p.param
        /\ ToSet(q.msgs) = ToSet(p.msgs) \cup {id}
        /\ Newer(q) <=> Newer(p)
        /\ Newer(p) => Edge(q) = IF p.param.dir = "after" THEN Edge(p) ELSE id
    BY <1>2, <1>3, LivePage
  <1> HIDE DEF q
  <1>6. q \in PageRecords
    BY <1>5 DEF PageOf
  <1>7. r \in Seq(PageRecords) /\ Len(r) = Len(ps) /\ r[1] = q
        /\ \A k \in 1..Len(ps) : k # 1 => r[k] = ps[k]
    BY <1>1, <1>6, ExceptSeq
  <1> HIDE DEF r
  <1>8. Older(r, w)
    <2>1. \A k \in 1..Len(r) : PageOf(r[k], w)
      BY <1>5, <1>7 DEF Older
    <2>2. ASSUME NEW k \in 1..(Len(r) - 1)
          PROVE  r[k].more \/ r[k].param.dir = "after"
      <3>1. k \in 1..Len(ps) /\ (ps[k].more \/ ps[k].param.dir = "after")
        BY <1>1, <1>7 DEF Older
      <3>2. r[k].more = ps[k].more /\ r[k].param = ps[k].param
        BY <1>5, <1>7, <3>1 DEF p
      <3> QED
        BY <3>1, <3>2
    <2> QED
      BY <2>1, <2>2 DEF Older
  <1>9. OnScreen(r) = OnScreen(ps) \cup {id}
    <2>1. ASSUME NEW x \in OnScreen(r) PROVE x \in OnScreen(ps) \cup {id}
      <3>1. PICK k \in 1..Len(r) : x \in ToSet(r[k].msgs)
        BY <1>7, OnScreenOf
      <3>2. x \in ToSet(ps[k].msgs) \/ x = id
        BY <1>5, <1>7, <3>1 DEF p
      <3> QED
        BY <1>7, <3>2, OnScreenOf
    <2>2. ASSUME NEW x \in OnScreen(ps) PROVE x \in OnScreen(r)
      <3>1. PICK k \in 1..Len(ps) : x \in ToSet(ps[k].msgs)
        BY OnScreenOf
      <3>2. x \in ToSet(r[k].msgs)
        BY <1>5, <1>7, <3>1 DEF p
      <3> QED
        BY <1>7, <3>2, OnScreenOf
    <2>3. id \in OnScreen(r)
      <3>1. 1 \in 1..Len(r) /\ id \in ToSet(r[1].msgs)
        BY <1>1, <1>5, <1>7
      <3> QED
        BY <1>7, <3>1, OnScreenOf
    <2> QED
      BY <2>1, <2>2, <2>3
  <1>10. OnScreen(ps) \subseteq Ids /\ ToSet(p.msgs) \subseteq OnScreen(ps)
    BY <1>1, OnScreenOf DEF p
  <1>11. ChainOK(r, K \cup P)
    <2>1. PageSound(p, K)
      BY <1>1 DEF Window, ChainOK, p
    <2>2. ASSUME Newer(q), NEW i \in Ids, i <= Edge(q), NEW j \in ToSet(q.msgs), j <= i
          PROVE  i \in ToSet(q.msgs) \/ i \in K \cup P
      <3>1. Newer(p) /\ Edge(p) \in ToSet(p.msgs) /\ Edge(p) \in Ids
        BY <1>2, <1>5, <2>2, EdgeOf
      <3>2. i \in Nat /\ j \in Nat /\ id \in Nat /\ Edge(p) \in Nat /\ Edge(p) <= w
        <4>1. Edge(p) \in 1..w
          BY <1>2, <3>1 DEF PageOf
        <4>2. j \in Ids
          BY <1>3, <1>5, <1>10, <2>2
        <4> QED
          BY <1>3, <3>1, <4>1, <4>2 DEF Ids
      <3>3. CASE j \in ToSet(p.msgs) /\ i <= Edge(p)
        BY <1>5, <2>1, <2>2, <3>1, <3>3 DEF PageSound
      <3>4. CASE i = id
        BY <1>5, <3>4
      <3>5. CASE Edge(p) < i /\ i # id
        <4>1. i <= h
          <5>1. i <= id
            BY <1>5, <2>2, <3>1, <3>2, <3>5
          <5> QED
            BY <3>2, <3>5, <5>1 DEF id
        <4> QED
          BY <1>2, <3>1, <3>5, <4>1 DEF p
      <3>6. CASE j = id /\ i <= Edge(p) /\ i # id
        <4>1. CASE i = Edge(p)
          BY <1>5, <3>1, <4>1
        <4>2. CASE i # Edge(p)
          <5>1. i < Edge(p) /\ h + 1 < i /\ i <= w /\ Edge(p) \in OnScreen(ps)
            BY <1>3, <1>10, <2>2, <3>1, <3>2, <3>6, <4>2 DEF id
          <5> QED
            BY <5>1
        <4> QED
          BY <4>1, <4>2
      <3>7. j \in ToSet(p.msgs) \/ j = id
        BY <1>5, <2>2
      <3> QED
        BY <3>2, <3>3, <3>4, <3>5, <3>6, <3>7
    <2>3. PageSound(q, K \cup P)
      BY <2>2 DEF PageSound
    <2>4. \A k \in 1..Len(ps) : PageSound(ps[k], K \cup P)
      BY DEF Window, ChainOK, PageSound
    <2>5. \A k \in 1..Len(r) : PageSound(r[k], K \cup P)
      BY <1>7, <2>3, <2>4
    <2>6. ASSUME NEW k \in 1..(Len(r) - 1) PROVE Joined(r[k], r[k + 1])
      <3>1. k \in 1..Len(ps) /\ k + 1 \in 1..Len(ps) /\ k + 1 # 1 /\ r[k + 1] = ps[k + 1]
        BY <1>1, <1>7
      <3>2. Joined(ps[k], ps[k + 1])
        BY <1>7 DEF Window, ChainOK
      <3>3. CASE k = 1
        <4>1. Joined(p, r[k + 1]) /\ r[k] = q
          BY <1>7, <3>1, <3>2, <3>3 DEF p
        <4> QED
          BY <1>5, <4>1 DEF Joined
      <3>4. CASE k # 1
        BY <1>7, <3>1, <3>2, <3>4
      <3> QED
        BY <3>3, <3>4
    <2> QED
      BY <2>5, <2>6 DEF ChainOK
  <1>12. EdgeOK(r, K \cup P, id)
    <2> SUFFICES ASSUME ~Newer(r[1]), NEW i \in Ids, i <= id,
                        NEW j \in OnScreen(r), j <= i
                 PROVE  i \in OnScreen(r) \/ i \in K \cup P
      BY DEF EdgeOK
    <2>1. i \in Nat /\ j \in Nat /\ id \in Nat
      BY <1>3, <1>9, <1>10 DEF Ids
    <2>2. CASE i = id
      BY <1>9, <2>2
    <2>3. CASE i # id
      <3>1. i <= h /\ j \in OnScreen(ps)
        BY <1>9, <2>1, <2>3 DEF id
      <3>2. ~Newer(ps[1])
        BY <1>5, <1>7 DEF p
      <3>3. i \in OnScreen(ps) \/ i \in K
        BY <3>1, <3>2 DEF Window, EdgeOK
      <3> QED
        BY <1>9, <3>3
    <2> QED
      BY <2>2, <2>3
  <1>13. Window(r, K \cup P, id)
    BY <1>11, <1>12 DEF Window
  <1> QED
    BY <1>4, <1>7, <1>8, <1>9, <1>13 DEF id

\* A message that is shown already, or that is noted down as missing.
LEMMA HeardOf ==
  ASSUME NEW ps \in Seq(PageRecords), NEW h \in Nat, NEW K, Window(ps, K, h),
         NEW L, K \subseteq L, h + 1 \in OnScreen(ps) \/ h + 1 \in L \/ ps = <<>>
  PROVE  Window(ps, L, h + 1)
  <1>1. ChainOK(ps, L)
    BY DEF Window, ChainOK, PageSound
  <1>2. EdgeOK(ps, L, h + 1)
    <2>1. \A i \in Ids : i <= h + 1 => i <= h \/ i = h + 1
      BY DEF Ids
    <2> QED
      BY <2>1 DEF Window, EdgeOK
  <1> QED
    BY <1>1, <1>2 DEF Window

-----------------------------------------------------------------------------
(* The inductive invariant.                                                 *)

PageFetches ==
    [kind : {"none", "all", "next", "previous"}, old : Seq(PageRecords),
     read : 0..MaxId, from : 0..MaxId, lost : SUBSET Ids, skipped : SUBSET Ids]

\* The pages shown.
ShownOK ==
    /\ written \in Ids /\ handled \in 1..written
    /\ pages \in Seq(PageRecords) /\ Len(pages) <= MaxPages
    /\ isDetached \in BOOLEAN /\ lost \subseteq Ids /\ skipped \subseteq Ids
    /\ Older(pages, written) /\ Window(pages, lost \cup skipped, handled)

\* The server that a fetch has read or is going to read.
ReadBy == IF fetch.read = 0 THEN written ELSE fetch.read

\* The pages a fetch started from.
FetchOK ==
    /\ fetch \in PageFetches /\ Len(fetch.old) <= MaxPages
    /\ fetch.read <= written /\ fetch.from <= handled
    /\ fetch.kind = "none" => fetch = NoPageFetch
    /\ Older(fetch.old, ReadBy)
    /\ fetch.kind \in {"next", "previous"} =>
           Window(fetch.old, fetch.lost \cup fetch.skipped, fetch.from)
    /\ fetch.kind = "next" => HasNext(fetch.old)
    /\ fetch.kind = "previous" => HasPrevious(fetch.old)

\* The message a jump goes to.
JumpOK ==
    /\ jump \in [target : 0..MaxId, read : 0..MaxId]
    /\ jump.target <= written /\ jump.read <= written
    /\ jump.read # 0 => (jump.target # 0 /\ jump.target <= jump.read)

PagesInv == ShownOK /\ FetchOK /\ JumpOK

LEMMA OlderLater ==
  ASSUME NEW ps, NEW v \in Ids, NEW w \in Ids, v <= w, Older(ps, v)
  PROVE  Older(ps, w)
  <1>1. 0..v \subseteq 0..w /\ 1..v \subseteq 1..w
    BY DEF Ids
  <1>2. ASSUME NEW k \in 1..Len(ps) PROVE PageOf(ps[k], w)
    <2>1. PageOf(ps[k], v)
      BY DEF Older
    <2>2. Valid(ps[k].param, w)
      BY <1>1, <2>1 DEF PageOf, Valid
    <2> QED
      BY <1>1, <2>1, <2>2 DEF PageOf
  <1> QED
    BY <1>2 DEF Older

LEMMA NoPages ==
  /\ <<>> \in Seq(PageRecords) /\ Len(<<>>) = 0 /\ OnScreen(<<>>) = {}
  /\ \A w : Older(<<>>, w)
  /\ \A K, h : Window(<<>>, K, h)
  <1>1. <<>> \in Seq(PageRecords) /\ Len(<<>>) = 0
    BY EmptySeq
  <1>2. OnScreen(<<>>) = {}
    BY DEF OnScreen
  <1>3. (\A k \in 1..Len(<<>>) : FALSE) /\ (\A k \in 1..(Len(<<>>) - 1) : FALSE)
    BY <1>1
  <1> QED
    BY <1>1, <1>2, <1>3 DEF Older, Window, ChainOK, EdgeOK

LEMMA RelevantWindow ==
  ASSUME NEW ps \in Seq(PageRecords), NEW A, NEW B, A \subseteq Ids, B \subseteq Ids,
         NEW h, Window(ps, A \cup B, h)
  PROVE  /\ Window(ps, Relevant(A, ps) \cup Relevant(B, ps), h)
         /\ Relevant(A, ps) \subseteq Ids /\ Relevant(B, ps) \subseteq Ids
  <1>1. Keeps(Relevant(A, ps), A, ps) /\ Relevant(A, ps) \subseteq A
    BY RelevantKeeps
  <1>2. Keeps(Relevant(B, ps), B, ps) /\ Relevant(B, ps) \subseteq B
    BY RelevantKeeps
  <1> DEFINE L == Relevant(A, ps) \cup Relevant(B, ps)
  <1>3. Keeps(L, A \cup B, ps)
    BY <1>1, <1>2 DEF Keeps
  <1> HIDE DEF L
  <1>4. A \cup B \subseteq Ids
    OBVIOUS
  <1>5. Window(ps, L, h)
    BY <1>3, <1>4, WindowKept
  <1> QED
    BY <1>1, <1>2, <1>5 DEF L

LEMMA FetchStays ==
  ASSUME FetchOK, fetch' = fetch, written \in Ids, written' \in Ids, written <= written',
         handled \in Nat, handled' \in Nat, handled <= handled'
  PROVE  FetchOK'
  <1>1. /\ fetch' \in PageFetches /\ Len(fetch'.old) <= MaxPages
        /\ fetch'.kind = "none" => fetch' = NoPageFetch
        /\ fetch'.kind \in {"next", "previous"} =>
               Window(fetch'.old, fetch'.lost \cup fetch'.skipped, fetch'.from)
        /\ fetch'.kind = "next" => HasNext(fetch'.old)
        /\ fetch'.kind = "previous" => HasPrevious(fetch'.old)
    BY DEF FetchOK
  <1>2. fetch'.read <= written' /\ fetch'.from <= handled'
    <2>1. fetch.read \in Int /\ fetch.from \in Int
      BY DEF FetchOK, PageFetches
    <2> QED
      BY <2>1 DEF FetchOK, Ids
  <1>3. Older(fetch'.old, ReadBy')
    <2>1. CASE fetch.read = 0
      BY <2>1, OlderLater DEF FetchOK, ReadBy
    <2>2. CASE fetch.read # 0
      BY <2>2 DEF FetchOK, ReadBy
    <2> QED
      BY <2>1, <2>2
  <1> QED
    BY <1>1, <1>2, <1>3 DEF FetchOK

LEMMA JumpStays ==
  ASSUME JumpOK, jump' = jump, written \in Ids, written' \in Ids, written <= written'
  PROVE  JumpOK'
  <1>1. jump.target \in Int /\ jump.read \in Int
    BY DEF JumpOK
  <1> QED
    BY <1>1 DEF JumpOK, Ids

LEMMA ShownStays ==
  ASSUME ShownOK, UNCHANGED <<handled, pages, lost, skipped>>, isDetached' \in BOOLEAN,
         written' \in Ids, written <= written'
  PROVE  ShownOK'
  <1>1. Older(pages', written')
    BY OlderLater DEF ShownOK
  <1>2. handled' \in 1..written'
    BY DEF ShownOK, Ids
  <1> QED
    BY <1>1, <1>2 DEF ShownOK

\* A fetch of the pages cached.
LEMMA FetchStarts ==
  ASSUME ShownOK, NEW kind \in {"all", "next", "previous"},
         kind = "next" => HasNext(pages), kind = "previous" => HasPrevious(pages),
         fetch' = Fetch(kind, pages), UNCHANGED <<written, handled>>
  PROVE  FetchOK'
  <1> USE PagesAssumption
  <1>1. /\ fetch' = [kind |-> kind, old |-> pages, read |-> 0, from |-> handled,
                     lost |-> lost, skipped |-> skipped]
    BY DEF Fetch
  <1>2. handled \in 0..MaxId /\ 0 <= written' /\ handled <= handled'
    BY DEF ShownOK, Ids
  <1>3. fetch' \in PageFetches
    BY <1>1, <1>2 DEF ShownOK, PageFetches, Ids
  <1>4. ReadBy' = written
    BY <1>1 DEF ReadBy
  <1> QED
    BY <1>1, <1>2, <1>3, <1>4 DEF FetchOK, ShownOK

\* Without a fetch, or with one that starts from nothing.
LEMMA FetchOfNothing ==
  ASSUME ShownOK, NEW kind \in {"none", "all"}, NEW n \in 0..handled,
         kind = "none" => n = 0,
         fetch' = [kind |-> kind, old |-> <<>>, read |-> 0, from |-> n,
                   lost |-> {}, skipped |-> {}],
         UNCHANGED <<written, handled>>
  PROVE  FetchOK'
  <1> USE PagesAssumption
  <1>1. n \in 0..MaxId /\ 0 <= written' /\ n <= handled' /\ 0 <= MaxPages
    BY DEF ShownOK, Ids
  <1>2. fetch' \in PageFetches
    BY <1>1, NoPages DEF PageFetches, Ids
  <1>3. Older(fetch'.old, ReadBy') /\ Len(fetch'.old) <= MaxPages
    BY <1>1, NoPages
  <1>4. fetch'.kind = "none" => fetch' = NoPageFetch
    BY DEF NoPageFetch
  <1> QED
    BY <1>1, <1>2, <1>3, <1>4 DEF FetchOK

\* What a fetch puts in place of the pages, with what it does not know of.
LEMMA ResultWindow ==
  ASSUME ShownOK, FetchOK, fetch.read # 0,
         NEW A, (fetch.kind # "all" => fetch.lost \cup fetch.skipped \subseteq A),
         ((IF fetch.kind = "next" THEN fetch.from ELSE fetch.read) + 1)..handled \subseteq A
  PROVE  /\ Result \in Seq(PageRecords) /\ Len(Result) \in 1..MaxPages
         /\ Older(Result, written) /\ Window(Result, A, handled)
  <1> USE PagesAssumption
  <1> DEFINE w == fetch.read
             ps == fetch.old
  <1>1. /\ w \in Ids /\ written \in Ids /\ w <= written /\ handled \in Nat
        /\ ps \in Seq(PageRecords) /\ Len(ps) <= MaxPages /\ Older(ps, w)
        /\ fetch.from \in Nat /\ fetch.kind \in {"all", "next", "previous"}
    BY DEF ShownOK, FetchOK, PageFetches, ReadBy, NoPageFetch, Ids
  <1>2. CASE fetch.kind = "all"
    <2> DEFINE r == Refetched(ps, w)
    <2>1. Result = r
      BY <1>2 DEF Result
    <2>2. Fetched(r, w) /\ Len(r) \in 1..Greatest(1, Len(ps))
      <3> HIDE DEF w, ps
      <3>1. w <= w
        BY <1>1 DEF Ids
      <3> QED
        BY <1>1, <3>1, RefetchedIsFetched
    <2>3. Len(r) \in 1..MaxPages /\ r \in Seq(PageRecords)
      <3>1. Len(ps) \in Nat
        BY <1>1, LenProperties
      <3>2. Greatest(1, Len(ps)) \in 1..MaxPages
        BY <1>1, <3>1 DEF Greatest
      <3> HIDE DEF r
      <3> QED
        BY <2>2, <3>2 DEF Fetched
    <2>4. (w + 1)..handled \subseteq A
      BY <1>2
    <2>5. Older(r, w) /\ Window(r, A, handled)
      <3> HIDE DEF r, w
      <3> QED
        BY <1>1, <2>2, <2>4, FetchedWindow
    <2> HIDE DEF r, w, ps
    <2>6. Older(r, written)
      BY <1>1, <2>5, OlderLater
    <2> QED
      BY <2>1, <2>3, <2>5, <2>6
  <1>3. CASE fetch.kind = "next"
    <2> DEFINE r == AddToEnd(ps, List(Only(NextPageParam(Last(ps))), w))
               K == fetch.lost \cup fetch.skipped
               h == fetch.from
    <2>1. Result = r
      BY <1>3 DEF Result
    <2>2. HasNext(ps) /\ Window(ps, K, h) /\ h \in Nat
      BY <1>1, <1>3 DEF FetchOK
    <2>3. K \subseteq A /\ (h + 1)..handled \subseteq A
      BY <1>3
    <2> HIDE DEF K, w, ps, h
    <2>4. /\ r \in Seq(PageRecords) /\ Len(r) \in 1..MaxPages
          /\ Older(r, w) /\ Window(r, A, handled)
      BY <1>1, <2>2, <2>3, NextFetched
    <2> HIDE DEF r
    <2>5. Older(r, written)
      BY <1>1, <2>4, OlderLater
    <2> QED
      BY <2>1, <2>4, <2>5
  <1>4. CASE fetch.kind = "previous"
    <2> DEFINE r == AddToStart(ps, List(Only(PreviousPageParam(ps[1])), w))
               K == fetch.lost \cup fetch.skipped
    <2>1. Result = r
      BY <1>4 DEF Result
    <2>2. HasPrevious(ps) /\ ChainOK(ps, K)
      BY <1>4 DEF FetchOK, Window
    <2>3. K \subseteq A /\ (w + 1)..handled \subseteq A
      BY <1>4
    <2> HIDE DEF K, w, ps
    <2>4. /\ r \in Seq(PageRecords) /\ Len(r) \in 1..MaxPages
          /\ Older(r, w) /\ Window(r, A, handled)
      BY <1>1, <2>2, <2>3, PreviousFetched
    <2> HIDE DEF r
    <2>5. Older(r, written)
      BY <1>1, <2>4, OlderLater
    <2> QED
      BY <2>1, <2>4, <2>5
  <1> QED
    BY <1>1, <1>2, <1>3, <1>4

\* Pages that take the place of those shown.
LEMMA PagesReplaced ==
  ASSUME ShownOK, NEW r \in Seq(PageRecords), Len(r) <= MaxPages, Older(r, written),
         NEW A, NEW B, A \subseteq Ids, B \subseteq Ids, NEW n \in 1..written,
         Window(r, A \cup B, n),
         written' = written, handled' = n, pages' = r, isDetached' \in BOOLEAN,
         lost' = Relevant(A, r), skipped' = Relevant(B, r)
  PROVE  ShownOK'
  <1>1. /\ Window(r, Relevant(A, r) \cup Relevant(B, r), n)
        /\ Relevant(A, r) \subseteq Ids /\ Relevant(B, r) \subseteq Ids
    BY RelevantWindow
  <1> QED
    BY <1>1 DEF ShownOK

LEMMA FetchArrivesStep ==
  ASSUME PagesInv, FetchArrives
  PROVE  PagesInv'
  <1> USE PagesAssumption
  <1> DEFINE base == IF fetch.kind = "next" THEN fetch.from ELSE fetch.read
             kept == fetch.kind # "all"
             A == (IF kept THEN fetch.lost ELSE {}) \cup (base + 1)..handled
             B == IF kept THEN fetch.skipped ELSE {}
  <1>1. /\ fetch.read # 0 /\ pages' = Result /\ fetch' = NoPageFetch
        /\ lost' = Relevant(A, pages') /\ skipped' = Relevant(B, pages')
        /\ written' = written /\ handled' = handled
        /\ isDetached' = isDetached /\ jump' = jump
    BY DEF FetchArrives
  <1>2. fetch.lost \subseteq Ids /\ fetch.skipped \subseteq Ids /\ base \in Nat
        /\ handled \in 1..written /\ handled \in 0..MaxId
        /\ written \in Ids /\ isDetached \in BOOLEAN
    BY DEF PagesInv, ShownOK, FetchOK, PageFetches, Ids
  <1>3. A \subseteq Ids /\ B \subseteq Ids
    <2>1. (base + 1)..handled \subseteq Ids
      <3> HIDE DEF base
      <3> QED
        BY <1>2 DEF Ids
    <2> HIDE DEF base
    <2> QED
      BY <1>2, <2>1
  <1>4. /\ kept => fetch.lost \cup fetch.skipped \subseteq A \cup B
        /\ (base + 1)..handled \subseteq A \cup B
    OBVIOUS
  <1>5. /\ Result \in Seq(PageRecords) /\ Len(Result) \in 1..MaxPages
        /\ Older(Result, written) /\ Window(Result, A \cup B, handled)
    <2> HIDE DEF A, B
    <2> QED
      BY <1>1, <1>4, ResultWindow DEF PagesInv
  <1>6. Len(Result) <= MaxPages
    BY <1>5
  <1> HIDE DEF A, B, base, kept
  <1>7. ShownOK'
    BY <1>1, <1>2, <1>3, <1>5, <1>6, PagesReplaced DEF PagesInv
  <1>8. FetchOK'
    <2>1. 0 \in 0..handled
      BY <1>2
    <2> QED
      BY <1>1, <2>1, FetchOfNothing DEF PagesInv, NoPageFetch
  <1>9. JumpOK'
    BY <1>1, <1>2, JumpStays DEF PagesInv, Ids
  <1> QED
    BY <1>7, <1>8, <1>9 DEF PagesInv

LEMMA HandleNewStep ==
  ASSUME PagesInv, HandleNewOnFirstPage
  PROVE  PagesInv'
  <1> USE PagesAssumption
  <1> DEFINE id == handled + 1
  <1>1. /\ handled < written /\ handled' = id
        /\ UNCHANGED <<written, isDetached, fetch, jump>>
        /\ lost' = Relevant(lost, pages')
    BY DEF HandleNewOnFirstPage
  <1>2. /\ written \in Ids /\ handled \in Nat \ {0} /\ handled \in 1..written
        /\ id \in 1..written /\ id \in Ids
        /\ pages \in Seq(PageRecords) /\ Len(pages) <= MaxPages
        /\ isDetached \in BOOLEAN /\ lost \subseteq Ids /\ skipped \subseteq Ids
        /\ Older(pages, written) /\ Window(pages, lost \cup skipped, handled)
    BY <1>1 DEF PagesInv, ShownOK, Ids
  <1>3. ShownOK'
    <2>1. CASE pages # <<>> /\ id \notin OnScreen(pages)
      <3> DEFINE P == PassedBy(id)
                 r == [pages EXCEPT ![1].msgs = <<handled + 1>> \o @]
      <3>1. pages' = r /\ skipped' = Relevant(skipped \cup P, pages')
        BY <2>1 DEF HandleNewOnFirstPage
      <3>2. HasPrevious(pages) =>
               /\ Newer(pages[1]) /\ Edge(pages[1]) \in Ids
               /\ Only(PreviousPageParam(pages[1])).cursor = Edge(pages[1])
        <4>1. pages[1] \in PageRecords
          <5>1. 1 \in 1..Len(pages)
            BY <1>2, <2>1, EmptySeq, LenProperties
          <5> QED
            BY <1>2, <5>1, ElementOfSeq
        <4>2. HasPrevious(pages) => Newer(pages[1])
          BY DEF HasPrevious, Newer
        <4> QED
          BY <4>1, <4>2, EdgeOf DEF Edge
      <3>3. HasPrevious(pages) =>
               \A i \in Ids : (Edge(pages[1]) < i /\ i <= handled) => i \in P
        <4> SUFFICES ASSUME HasPrevious(pages), NEW i \in Ids, Edge(pages[1]) < i,
                            i <= handled
                     PROVE  i \in P
          OBVIOUS
        <4>1. i \in (Edge(pages[1]) + 1)..(id - 1)
          BY <1>2, <3>2 DEF Ids
        <4> QED
          BY <3>2, <4>1 DEF PassedBy
      <3>4. \A i \in Ids :
               (handled + 1 < i /\ i <= written /\ \E j \in OnScreen(pages) : i < j) => i \in P
        <4> SUFFICES ASSUME NEW i \in Ids, handled + 1 < i, i <= written,
                            \E j \in OnScreen(pages) : i < j
                     PROVE  i \in P
          OBVIOUS
        <4>1. i \in (id + 1)..written
          BY <1>2 DEF Ids
        <4> QED
          BY <4>1 DEF PassedBy
      <3>5. P \subseteq Ids
        <4>1. (id + 1)..written \subseteq Ids
          BY <1>2 DEF Ids
        <4>2. HasPrevious(pages) => (Edge(pages[1]) + 1)..(id - 1) \subseteq Ids
          BY <1>2, <3>2 DEF Ids
        <4> HIDE DEF id
        <4> QED
          BY <3>2, <4>1, <4>2 DEF PassedBy
      <3> HIDE DEF P
      <3>6. /\ r \in Seq(PageRecords) /\ Len(r) = Len(pages)
            /\ Older(r, written) /\ Window(r, (lost \cup skipped) \cup P, handled + 1)
        <4>1. pages # <<>>
          BY <2>1
        <4> QED
          BY <1>1, <1>2, <3>3, <3>4, <4>1, LiveWindow
      <3> HIDE DEF r
      <3>7. (lost \cup skipped) \cup P = lost \cup (skipped \cup P)
            /\ skipped \cup P \subseteq Ids /\ Len(r) <= MaxPages
        BY <1>2, <3>5, <3>6
      <3>8. Window(r, lost \cup (skipped \cup P), id)
        BY <3>6, <3>7
      <3> HIDE DEF id
      <3> QED
        BY <1>1, <1>2, <3>1, <3>6, <3>7, <3>8, PagesReplaced DEF PagesInv
    <2>2. CASE ~(pages # <<>> /\ id \notin OnScreen(pages))
      <3>1. pages' = pages /\ skipped' = skipped
        BY <2>2 DEF HandleNewOnFirstPage
      <3>2. Window(pages, lost \cup skipped, id)
        BY <1>2, <2>2, HeardOf
      <3>3. Keeps(Relevant(lost, pages), lost, pages) /\ Relevant(lost, pages) \subseteq lost
        BY <1>2, RelevantKeeps
      <3>4. Keeps(Relevant(lost, pages) \cup skipped, lost \cup skipped, pages)
        BY <3>3 DEF Keeps
      <3>5. lost \cup skipped \subseteq Ids
        BY <1>2
      <3> HIDE DEF id
      <3>6. Window(pages, Relevant(lost, pages) \cup skipped, id)
        BY <1>2, <3>2, <3>4, <3>5, WindowKept
      <3> QED
        BY <1>1, <1>2, <3>1, <3>3, <3>6 DEF ShownOK
    <2> QED
      BY <2>1, <2>2
  <1>4. FetchOK'
    BY <1>1, <1>2, FetchStays DEF PagesInv, Ids
  <1>5. JumpOK'
    BY <1>1, <1>2, JumpStays DEF PagesInv, Ids
  <1> QED
    BY <1>3, <1>4, <1>5 DEF PagesInv

LEMMA MissStep ==
  ASSUME PagesInv, MissMessage
  PROVE  PagesInv'
  <1> USE PagesAssumption
  <1> DEFINE id == handled + 1
  <1>1. /\ handled < written /\ handled' = id
        /\ UNCHANGED <<written, pages, isDetached, fetch, jump, skipped>>
        /\ lost' = Relevant(lost \cup {id}, pages)
    BY DEF MissMessage
  <1>2. /\ written \in Ids /\ handled \in Nat \ {0} /\ handled \in 1..written
        /\ id \in 1..written /\ id \in Ids
        /\ pages \in Seq(PageRecords) /\ Len(pages) <= MaxPages
        /\ isDetached \in BOOLEAN /\ lost \subseteq Ids /\ skipped \subseteq Ids
        /\ Older(pages, written) /\ Window(pages, lost \cup skipped, handled)
    BY <1>1 DEF PagesInv, ShownOK, Ids
  <1>3. ShownOK'
    <2> DEFINE A == lost \cup {id}
    <2>1. A \subseteq Ids /\ id \in A /\ lost \subseteq A
      BY <1>2
    <2>2. Window(pages, A \cup skipped, id)
      <3>1. lost \cup skipped \subseteq A \cup skipped /\ id \in A \cup skipped
        OBVIOUS
      <3> HIDE DEF A
      <3> QED
        BY <1>2, <3>1, HeardOf
    <2> HIDE DEF A
    <2>3. Keeps(Relevant(A, pages), A, pages) /\ Relevant(A, pages) \subseteq A
      BY <1>2, <2>1, RelevantKeeps
    <2>4. Keeps(Relevant(A, pages) \cup skipped, A \cup skipped, pages)
      BY <2>3 DEF Keeps
    <2>5. A \cup skipped \subseteq Ids
      BY <1>2, <2>1
    <2>6. Window(pages, Relevant(A, pages) \cup skipped, id)
      BY <1>2, <2>2, <2>4, <2>5, WindowKept
    <2>7. lost' = Relevant(A, pages) /\ Relevant(A, pages) \subseteq Ids
      BY <1>1, <2>1, <2>3 DEF A
    <2> HIDE DEF id
    <2> QED
      BY <1>1, <1>2, <2>6, <2>7 DEF ShownOK
  <1>4. FetchOK'
    BY <1>1, <1>2, FetchStays DEF PagesInv, Ids
  <1>5. JumpOK'
    BY <1>1, <1>2, JumpStays DEF PagesInv, Ids
  <1> QED
    BY <1>3, <1>4, <1>5 DEF PagesInv

LEMMA JumpArrivesStep ==
  ASSUME PagesInv, JumpArrives
  PROVE  PagesInv'
  <1> USE PagesAssumption
  <1> DEFINE w == jump.read
             param == Param("around", jump.target)
             r == <<List(param, w)>>
             A == (w + 1)..handled
  <1>1. /\ w # 0 /\ pages' = r /\ isDetached' = TRUE /\ jump' = NoJump
        /\ lost' = Relevant(A, pages') /\ skipped' = {}
        /\ UNCHANGED <<written, handled, fetch>>
    BY DEF JumpArrives
  <1>2. /\ written \in Ids /\ handled \in 1..written /\ handled \in Nat
        /\ w \in Ids /\ w <= written /\ jump.target \in 1..w
    BY <1>1 DEF PagesInv, ShownOK, JumpOK, Ids
  <1>3. Valid(param, w)
    BY <1>2 DEF Valid, Param, Ids
  <1>4. A \subseteq Ids
    BY <1>2 DEF Ids
  <1> HIDE DEF param, w, A
  <1>5. Fetched(r, w) /\ Len(r) = 1
    BY <1>2, <1>3, OneFetched
  <1> HIDE DEF r
  <1>6. Older(r, w) /\ Window(r, A \cup {}, handled)
    <2>1. (w + 1)..handled \subseteq A \cup {}
      BY DEF A
    <2> QED
      BY <1>2, <1>5, <2>1, FetchedWindow
  <1>7. Older(r, written) /\ r \in Seq(PageRecords) /\ Len(r) <= MaxPages
    BY <1>2, <1>5, <1>6, OlderLater DEF Fetched
  <1>8. ShownOK'
    <2>1. skipped' = Relevant({}, r) /\ isDetached' \in BOOLEAN
      BY <1>1 DEF Relevant
    <2> QED
      BY <1>1, <1>2, <1>4, <1>6, <1>7, <2>1, PagesReplaced DEF PagesInv
  <1>9. FetchOK'
    BY <1>1, <1>2, FetchStays DEF PagesInv, Ids
  <1>10. JumpOK'
    BY <1>1, <1>2 DEF JumpOK, NoJump, Ids
  <1> QED
    BY <1>8, <1>9, <1>10 DEF PagesInv

LEMMA PagesInitOK == PagesInit => PagesInv
  <1> SUFFICES ASSUME PagesInit PROVE PagesInv
    OBVIOUS
  <1> USE PagesAssumption
  <1>1. /\ written = Backlog /\ handled = Backlog /\ pages = <<>> /\ isDetached = FALSE
        /\ jump = NoJump /\ lost = {} /\ skipped = {}
        /\ fetch = [kind |-> "all", old |-> <<>>, read |-> 0, from |-> Backlog,
                    lost |-> {}, skipped |-> {}]
    BY DEF PagesInit, NoPageFetch
  <1>2. ShownOK
    <2>1. written \in Ids /\ handled \in 1..written /\ 0 <= MaxPages
      BY <1>1 DEF Ids
    <2> QED
      BY <1>1, <2>1, NoPages DEF ShownOK
  <1>3. FetchOK
    <2>1. fetch \in PageFetches /\ 0 <= written /\ Backlog <= handled /\ 0 <= MaxPages
      BY <1>1, NoPages DEF PageFetches, Ids
    <2> QED
      BY <1>1, <2>1, NoPages DEF FetchOK
  <1>4. JumpOK
    BY <1>1 DEF JumpOK, NoJump
  <1> QED
    BY <1>2, <1>3, <1>4 DEF PagesInv

\* The steps that leave the pages shown as they are.
LEMMA QuietSteps ==
  ASSUME PagesInv,
         \/ Post \/ FetchNextPage \/ FetchPreviousPage \/ Refetch
         \/ ServerAnswersFetch \/ FetchFails \/ (\E m \in 1..MaxId : JumpToMessage(m))
         \/ ServerAnswersJump \/ OnReachBottom \/ UNCHANGED pagesVars
  PROVE  PagesInv'
  <1> USE PagesAssumption
  <1>1. /\ UNCHANGED <<handled, pages, lost, skipped>> /\ isDetached' \in BOOLEAN
        /\ written' \in Ids /\ written <= written' /\ written \in Ids
        /\ handled \in Nat /\ handled <= handled' /\ handled' \in Nat
    <2>1. written \in Ids /\ handled \in 1..written /\ isDetached \in BOOLEAN
      BY DEF PagesInv, ShownOK
    <2>2. written' = written \/ (written < MaxId /\ written' = written + 1)
      BY DEF Post, FetchNextPage, FetchPreviousPage, Refetch, ServerAnswersFetch,
             FetchFails, JumpToMessage, ServerAnswersJump, OnReachBottom, pagesVars
    <2>3. UNCHANGED <<handled, pages, lost, skipped>>
          /\ (isDetached' = isDetached \/ isDetached' = FALSE)
      BY DEF Post, FetchNextPage, FetchPreviousPage, Refetch, ServerAnswersFetch,
             FetchFails, JumpToMessage, ServerAnswersJump, OnReachBottom, pagesVars
    <2>4. isDetached' \in BOOLEAN
      BY <2>1, <2>3, Zenon
    <2>5. written' \in Ids /\ written <= written'
      BY <2>1, <2>2 DEF Ids
    <2>6. handled \in Nat /\ handled' = handled
      BY <2>1, <2>3 DEF Ids
    <2>7. handled <= handled' /\ handled' \in Nat
      BY <2>6
    <2> QED
      BY <2>1, <2>3, <2>4, <2>5, <2>6, <2>7
  <1>2. ShownOK'
    BY <1>1, ShownStays DEF PagesInv
  <1>3. CASE UNCHANGED <<fetch, jump>>
    BY <1>1, <1>2, <1>3, FetchStays, JumpStays DEF PagesInv
  <1>4. CASE FetchNextPage \/ FetchPreviousPage \/ Refetch
    <2>1. UNCHANGED <<written, handled, jump>>
      BY <1>4 DEF FetchNextPage, FetchPreviousPage, Refetch
    <2>2. \E kind \in {"all", "next", "previous"} :
              /\ fetch' = Fetch(kind, pages)
              /\ kind = "next" => HasNext(pages)
              /\ kind = "previous" => HasPrevious(pages)
      BY <1>4 DEF FetchNextPage, FetchPreviousPage, Refetch
    <2>3. FetchOK'
      BY <2>1, <2>2, FetchStarts DEF PagesInv
    <2> QED
      BY <1>1, <1>2, <2>1, <2>3, JumpStays DEF PagesInv
  <1>5. CASE ServerAnswersFetch
    <2>1. /\ fetch # NoPageFetch /\ fetch.read = 0
          /\ fetch' = [fetch EXCEPT !.read = written] /\ UNCHANGED <<written, handled, jump>>
      BY <1>5 DEF ServerAnswersFetch
    <2>2. FetchOK /\ fetch \in PageFetches
      BY DEF PagesInv, FetchOK
    <2>3. /\ fetch' \in PageFetches /\ fetch'.kind = fetch.kind /\ fetch'.old = fetch.old
          /\ fetch'.from = fetch.from /\ fetch'.read = written
          /\ fetch'.lost = fetch.lost /\ fetch'.skipped = fetch.skipped
      <3>1. PICK f, n : /\ f \in PageFetches /\ f = fetch /\ n = written
                        /\ fetch' = [f EXCEPT !.read = n]
        BY <2>1, <2>2
      <3>2. n \in 0..MaxId
        BY <1>1, <3>1, PagesAssumption DEF Ids
      <3>3. /\ [f EXCEPT !.read = n] \in PageFetches
            /\ [f EXCEPT !.read = n].kind = f.kind /\ [f EXCEPT !.read = n].old = f.old
            /\ [f EXCEPT !.read = n].from = f.from /\ [f EXCEPT !.read = n].read = n
            /\ [f EXCEPT !.read = n].lost = f.lost /\ [f EXCEPT !.read = n].skipped = f.skipped
        BY <3>1, <3>2 DEF PageFetches
      <3> QED
        BY <3>1, <3>3
    <2>4. ReadBy' = written /\ ReadBy = written /\ written <= written'
      BY <1>1, <2>1, <2>3 DEF ReadBy, Ids
    <2>5. fetch.kind # "none"
      BY <2>1, <2>2 DEF FetchOK
    <2>6. FetchOK'
      BY <1>1, <2>1, <2>2, <2>3, <2>4, <2>5 DEF FetchOK
    <2> QED
      BY <1>1, <1>2, <2>1, <2>6, JumpStays DEF PagesInv
  <1>6. CASE FetchFails
    <2>1. fetch' = NoPageFetch /\ UNCHANGED <<written, handled, jump>>
      BY <1>6 DEF FetchFails
    <2>2. FetchOK'
      <3>1. 0 \in 0..handled
        BY <1>1
      <3> QED
        BY <2>1, <3>1, FetchOfNothing DEF PagesInv, NoPageFetch
    <2> QED
      BY <1>1, <1>2, <2>1, <2>2, JumpStays DEF PagesInv
  <1>7. CASE (\E m \in 1..MaxId : JumpToMessage(m))
    <2>1. PICK m \in 1..MaxId : JumpToMessage(m)
      BY <1>7
    <2>2. jump' = [target |-> m, read |-> 0] /\ m <= written /\ UNCHANGED <<written, fetch>>
      BY <2>1 DEF JumpToMessage
    <2>3. JumpOK'
      BY <1>1, <2>2 DEF JumpOK, Ids
    <2> QED
      BY <1>1, <1>2, <2>2, <2>3, FetchStays DEF PagesInv
  <1>8. CASE ServerAnswersJump
    <2>1. /\ jump # NoJump /\ jump.read = 0 /\ jump' = [jump EXCEPT !.read = written]
          /\ UNCHANGED <<written, fetch>>
      BY <1>8 DEF ServerAnswersJump
    <2>2. jump \in [target : 0..MaxId, read : 0..MaxId] /\ jump.target <= written
      BY DEF PagesInv, JumpOK
    <2>3. jump.target # 0
      BY <2>1, <2>2 DEF NoJump
    <2>4. /\ jump' \in [target : 0..MaxId, read : 0..MaxId]
          /\ jump'.target = jump.target /\ jump'.read = written
      BY <1>1, <2>1, <2>2 DEF Ids
    <2>5. JumpOK'
      BY <1>1, <2>1, <2>2, <2>3, <2>4 DEF JumpOK, Ids
    <2> QED
      BY <1>1, <1>2, <2>1, <2>5, FetchStays DEF PagesInv
  <1>9. CASE Post \/ OnReachBottom \/ UNCHANGED pagesVars
    <2>1. UNCHANGED <<fetch, jump>>
      BY <1>9 DEF Post, OnReachBottom, pagesVars
    <2> QED
      BY <1>3, <2>1
  <1> QED
    BY <1>4, <1>5, <1>6, <1>7, <1>8, <1>9

LEMMA JumpToLatestStep ==
  ASSUME PagesInv, JumpToLatest
  PROVE  PagesInv'
  <1> USE PagesAssumption
  <1>1. /\ isDetached' = FALSE /\ pages' = <<>> /\ lost' = {} /\ skipped' = {}
        /\ fetch' = [kind |-> "all", old |-> <<>>, read |-> 0, from |-> handled,
                     lost |-> {}, skipped |-> {}]
        /\ UNCHANGED <<written, handled, jump>>
    BY DEF JumpToLatest, NoPageFetch
  <1>2. written \in Ids /\ handled \in 1..written /\ handled \in 0..handled
        /\ 0 <= MaxPages /\ written <= written'
    BY <1>1 DEF PagesInv, ShownOK, Ids
  <1>3. ShownOK'
    BY <1>1, <1>2, NoPages DEF ShownOK
  <1>4. FetchOK'
    BY <1>1, <1>2, FetchOfNothing DEF PagesInv
  <1>5. JumpOK'
    BY <1>1, <1>2, JumpStays DEF PagesInv
  <1> QED
    BY <1>3, <1>4, <1>5 DEF PagesInv

LEMMA PagesStep == PagesInv /\ [PagesNext]_pagesVars => PagesInv'
  BY FetchArrivesStep, HandleNewStep, MissStep, JumpArrivesStep, QuietSteps,
     JumpToLatestStep DEF PagesNext

\* The window keeps its invariant: pages as the server lists them, each joined
\* to the next, and complete but for the messages whose absence has a cause
\* (useMessages.ts, useVirtualMessages.ts, cacheUpdaters.ts).
THEOREM PagesInvariant == PagesSpec => []PagesInv
  BY PagesInitOK, PagesStep, PTL DEF PagesSpec

\* No cache ever holds more pages than maxPages of useMessages.ts, nor a
\* message, parameter or flag of another type.
THEOREM PagesTypes == PagesSpec => []PagesTypeOK
  <1>1. PagesInv => PagesTypeOK
    <2> SUFFICES ASSUME PagesInv PROVE PagesTypeOK
      OBVIOUS
    <2>1. \A ps \in Seq(PageRecords) : Len(ps) <= MaxPages => PagesOK(ps)
      <3> TAKE ps \in Seq(PageRecords)
      <3>1. \A k \in DOMAIN ps : ps[k] \in PageRecords
        BY LenProperties, ElementOfSeq
      <3>2. \A p \in PageRecords : PageOK(p)
        BY DEF PageRecords, PageOK
      <3> QED
        BY <3>1, <3>2 DEF PagesOK
    <2>2. written \in Ids /\ handled \in 0..written /\ isDetached \in BOOLEAN
          /\ lost \subseteq Ids /\ skipped \subseteq Ids /\ PagesOK(pages)
      BY <2>1 DEF PagesInv, ShownOK
    <2>3. fetch.kind \in {"none", "all", "next", "previous"} /\ PagesOK(fetch.old)
          /\ fetch.read \in 0..written /\ fetch.from \in 0..handled
      BY <2>1, <2>2 DEF PagesInv, FetchOK, PageFetches, Ids
    <2>4. jump.target \in 0..written /\ jump.read \in 0..written
      BY <2>2 DEF PagesInv, JumpOK, Ids
    <2> QED
      BY <2>2, <2>3, <2>4 DEF PagesTypeOK
  <1> QED
    BY <1>1, PagesInvariant, PTL

\* However the user scrolls, jumps and comes back, and whatever is evicted or
\* fetched again, each hole in the list has a cause that is named: getPrevious-
\* PageParam of useMessages.ts sees that the live edge was evicted.
THEOREM HolesHaveCauses == PagesSpec => []HolesAreKnown
  <1>1. PagesInv => HolesAreKnown
    <2> SUFFICES ASSUME PagesInv, NEW i \in Holes
                 PROVE  i \in lost \cup skipped
      BY DEF HolesAreKnown
    <2> DEFINE S == OnScreen(pages)
               K == lost \cup skipped
    <2>1. /\ pages \in Seq(PageRecords) /\ handled \in 1..written /\ written \in Ids
          /\ Window(pages, K, handled)
      BY DEF PagesInv, ShownOK
    <2>2. S # {} /\ i \notin S
      BY DEF Holes
    <2>3. S \subseteq Ids /\ Oldest(S) \in S
      BY <2>1, <2>2, OnScreenOf, OldestOf
    <2>4. 1 \in 1..Len(pages) /\ pages # <<>>
      <3>1. \E k \in 1..Len(pages) : TRUE
        BY <2>1, <2>2, OnScreenOf
      <3>2. Len(pages) \in Nat
        BY <2>1, LenProperties
      <3> QED
        BY <3>1, <3>2
    <2>5. HasPrevious(pages) =>
             /\ Only(PreviousPageParam(pages[1])).cursor = Edge(pages[1])
             /\ Edge(pages[1]) \in Ids
      <3>1. pages[1] \in PageRecords
        BY <2>1, <2>4, ElementOfSeq
      <3>2. HasPrevious(pages) => Newer(pages[1])
        BY DEF HasPrevious, Newer
      <3> QED
        BY <3>1, <3>2, EdgeOf DEF Edge
    <2>6. /\ i \in Int /\ Oldest(S) <= i /\ i <= handled
          /\ HasPrevious(pages) => i <= Edge(pages[1])
      <3>1. CASE HasPrevious(pages)
        <4>1. i \in Oldest(S)..Least(Edge(pages[1]), handled)
          BY <2>2, <2>5, <3>1 DEF Holes
        <4>2. /\ Least(Edge(pages[1]), handled) <= Edge(pages[1])
              /\ Least(Edge(pages[1]), handled) <= handled
              /\ Least(Edge(pages[1]), handled) \in Int
          BY <2>1, <2>5, <3>1, IntegerSpans DEF Ids
        <4> HIDE DEF S
        <4> QED
          BY <2>1, <2>3, <2>5, <3>1, <4>1, <4>2 DEF Ids
      <3>2. CASE ~HasPrevious(pages)
        <4>1. i \in Oldest(S)..handled
          BY <2>2, <3>2 DEF Holes
        <4> HIDE DEF S
        <4> QED
          BY <2>1, <2>3, <3>2, <4>1 DEF Ids
      <3> QED
        BY <3>1, <3>2
    <2> HIDE DEF S, K
    <2>7. i \in Ids /\ handled \in Nat
      <3>1. Oldest(S) \in Ids
        BY <2>3
      <3> QED
        BY <2>1, <2>6, <3>1, PagesAssumption DEF Ids
    <2>8. i \in S \/ i \in K
      BY <2>1, <2>3, <2>6, <2>7, WindowHasNoHole DEF S
    <2> QED
      BY <2>2, <2>8 DEF K
  <1> QED
    BY <1>1, PagesInvariant, PTL

\* The client offers older messages exactly when there are some, and loads
\* them without a gap: has_more and next_cursor of message/repository.go, as
\* getNextPageParam of useMessages.ts reads them.
THEOREM OlderStaysReachable == PagesSpec => []OlderReachable
  <1>1. PagesInv => OlderReachable
    <2> SUFFICES ASSUME PagesInv, pages # <<>>, Last(pages).param.dir # "after"
                 PROVE  /\ HasNext(pages) <=> Oldest(OnScreen(pages)) > 1
                        /\ HasNext(pages) => Only(NextPageParam(Last(pages))).cursor
                                               >= Oldest(OnScreen(pages))
      BY DEF OlderReachable
    <2> DEFINE q == pages[Len(pages)]
               S == OnScreen(pages)
    <2>1. /\ pages \in Seq(PageRecords) /\ Older(pages, written)
          /\ Len(pages) \in Nat /\ Len(pages) \in 1..Len(pages)
      BY EmptySeq, LenProperties DEF PagesInv, ShownOK
    <2>2. Last(pages) = q
      BY DEF Last
    <2>3. q \in PageRecords /\ OlderOK(q) /\ q.param.dir # "after"
      BY <2>1, <2>2 DEF Older, PageOf
    <2>4. HasNext(pages) <=> q.more
      BY <2>2, <2>3, NextOf DEF HasNext
    <2>5. q.msgs # <<>> /\ (q.more <=> Last(q.msgs) > 1)
          /\ (1 \in ToSet(q.msgs) => Last(q.msgs) = 1)
      BY <2>3 DEF OlderOK
    <2>6. Last(q.msgs) \in ToSet(q.msgs) /\ Last(q.msgs) \in S
      <3>1. q.msgs \in Seq(Ids)
        BY <2>3 DEF PageRecords
      <3>2. DOMAIN q.msgs = 1..Len(q.msgs) /\ Len(q.msgs) \in 1..Len(q.msgs)
        BY <2>5, <3>1, EmptySeq, LenProperties
      <3>3. Last(q.msgs) \in ToSet(q.msgs)
        BY <3>2 DEF Last, ToSet
      <3> QED
        BY <2>1, <3>3, OnScreenOf
    <2>7. S \subseteq Ids /\ S # {}
      BY <2>1, <2>6, OnScreenOf
    <2>8. Oldest(S) \in S /\ \A j \in S : Oldest(S) <= j
      BY <2>7, OldestOf
    <2>9. ASSUME q.more PROVE 1 \notin S
      <3> SUFFICES ASSUME NEW k \in 1..Len(pages), 1 \in ToSet(pages[k].msgs)
                   PROVE  FALSE
        BY <2>1, OnScreenOf
      <3>1. CASE k = Len(pages)
        <4>1. Last(q.msgs) > 1 /\ Last(q.msgs) = 1
          BY <2>5, <2>9, <3>1
        <4> QED
          BY <4>1
      <3>2. CASE k # Len(pages)
        <4>1. k \in 1..(Len(pages) - 1)
          BY <2>1, <3>2
        <4>2. OlderOK(pages[k]) /\ (pages[k].more \/ pages[k].param.dir = "after")
          BY <2>1, <4>1 DEF Older, PageOf
        <4>3. pages[k].param.dir # "after" /\ pages[k].more
          BY <4>2 DEF OlderOK
        <4>4. Last(pages[k].msgs) > 1 /\ Last(pages[k].msgs) = 1
          BY <4>2, <4>3 DEF OlderOK
        <4> QED
          BY <4>4
      <3> QED
        BY <3>1, <3>2
    <2> HIDE DEF q, S
    <2>10. Last(q.msgs) \in Ids /\ Oldest(S) \in Ids
      BY <2>6, <2>7, <2>8
    <2>11. q.more <=> Oldest(S) > 1
      <3>1. CASE q.more
        <4>1. Oldest(S) # 1
          BY <2>8, <2>9, <3>1
        <4> QED
          BY <2>10, <3>1, <4>1 DEF Ids
      <3>2. CASE ~q.more
        <4>1. ~(Last(q.msgs) > 1) /\ Oldest(S) <= Last(q.msgs)
          BY <2>5, <2>6, <2>8, <3>2
        <4> QED
          BY <2>10, <3>2, <4>1 DEF Ids
      <3> QED
        BY <3>1, <3>2
    <2>12. q.more => Only(NextPageParam(Last(pages))).cursor >= Oldest(S)
      <3> SUFFICES ASSUME q.more
                   PROVE  Only(NextPageParam(Last(pages))).cursor >= Oldest(S)
        OBVIOUS
      <3>1. Only(NextPageParam(q)).cursor = Last(q.msgs)
        BY <2>3, NextOf DEF Param
      <3>2. Last(pages) = q /\ Oldest(S) <= Last(q.msgs)
        BY <2>2, <2>6, <2>8 DEF q
      <3> QED
        BY <2>10, <3>1, <3>2 DEF Ids
    <2> QED
      BY <2>4, <2>11, <2>12 DEF S
  <1> QED
    BY <1>1, PagesInvariant, PTL
=============================================================================
