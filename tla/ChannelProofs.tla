--------------------------- MODULE ChannelProofs ----------------------------
(***************************************************************************)
(* Theorems about ChannelList, for any number of changes and any habits:   *)
(* an open channel's unread messages are on their way to be marked, a star *)
(* settles, and the row follows the server's.  The first two need of a row *)
(* its fields, its star and its membership, and no meaning of the count.   *)
(***************************************************************************)
EXTENDS ChannelList, FiniteSetTheorems, SequenceTheorems, WellFoundedInduction,
        TLAPS

-----------------------------------------------------------------------------
(* The fields of rows, whatever their numbers. *)

IsRow(r) ==
    /\ r = [unread |-> r.unread, type |-> r.type, lastRead |-> r.lastRead,
            starred |-> r.starred, member |-> r.member]
    /\ r.starred \in BOOLEAN /\ r.member \in BOOLEAN

Shaped(R) == \A r \in R : IsRow(r)

MineShaped ==
    /\ mine = [member |-> mine.member, lastRead |-> mine.lastRead,
               starred |-> mine.starred]
    /\ mine.starred \in BOOLEAN /\ mine.member \in BOOLEAN

ShapeInv ==
    /\ MineShaped
    /\ Shaped(row)
    /\ fetch.stage = "answered" => Shaped(fetch.rows)
    /\ \A req \in reqs : Shaped(req.prev) /\ req.op \in habit.asks

LEMMA UnreadField ==
  ASSUME NEW r, IsRow(r), NEW n
  PROVE  /\ IsRow([r EXCEPT !.unread = n])
         /\ [r EXCEPT !.unread = n].unread = n
         /\ [r EXCEPT !.unread = n].type = r.type
         /\ [r EXCEPT !.unread = n].lastRead = r.lastRead
         /\ [r EXCEPT !.unread = n].starred = r.starred
         /\ [r EXCEPT !.unread = n].member = r.member
  <1>1. [r EXCEPT !.unread = n] =
          [unread |-> n, type |-> r.type, lastRead |-> r.lastRead,
           starred |-> r.starred, member |-> r.member]
    BY DEF IsRow
  <1> QED
    BY <1>1 DEF IsRow

LEMMA TypeField ==
  ASSUME NEW r, IsRow(r), NEW t
  PROVE  /\ IsRow([r EXCEPT !.type = t])
         /\ [r EXCEPT !.type = t].unread = r.unread
         /\ [r EXCEPT !.type = t].type = t
         /\ [r EXCEPT !.type = t].lastRead = r.lastRead
         /\ [r EXCEPT !.type = t].starred = r.starred
         /\ [r EXCEPT !.type = t].member = r.member
  <1>1. [r EXCEPT !.type = t] =
          [unread |-> r.unread, type |-> t, lastRead |-> r.lastRead,
           starred |-> r.starred, member |-> r.member]
    BY DEF IsRow
  <1> QED
    BY <1>1 DEF IsRow

LEMMA StarField ==
  ASSUME NEW r, IsRow(r), NEW yes \in BOOLEAN
  PROVE  /\ IsRow([r EXCEPT !.starred = yes])
         /\ [r EXCEPT !.starred = yes].starred = yes
         /\ [r EXCEPT !.starred = yes].member = r.member
  <1>1. [r EXCEPT !.starred = yes] =
          [unread |-> r.unread, type |-> r.type, lastRead |-> r.lastRead,
           starred |-> yes, member |-> r.member]
    BY DEF IsRow
  <1> QED
    BY <1>1 DEF IsRow

LEMMA ReadField ==
  ASSUME NEW r, IsRow(r), NEW id
  PROVE  /\ IsRow(ReadRow(r, id))
         /\ ReadRow(r, id).unread = 0
         /\ ReadRow(r, id).type = r.type
         /\ ReadRow(r, id).lastRead = id
         /\ ReadRow(r, id).starred = r.starred
         /\ ReadRow(r, id).member = r.member
  <1>1. ReadRow(r, id) =
          [unread |-> 0, type |-> r.type, lastRead |-> id,
           starred |-> r.starred, member |-> r.member]
    <2>1. PICK u, t, l, s, m : r = [unread |-> u, type |-> t, lastRead |-> l,
                                    starred |-> s, member |-> m]
      BY DEF IsRow
    <2>2. [r EXCEPT !.unread = 0] =
            [unread |-> 0, type |-> t, lastRead |-> l, starred |-> s,
             member |-> m]
      BY <2>1
    <2>3. ReadRow(r, id) = [[r EXCEPT !.unread = 0] EXCEPT !.lastRead = id]
      BY DEF ReadRow
    <2>4. ReadRow(r, id) =
            [unread |-> 0, type |-> t, lastRead |-> id, starred |-> s,
             member |-> m]
      BY <2>2, <2>3
    <2> QED
      BY <2>1, <2>4
  <1> QED
    BY <1>1 DEF IsRow

\* What the server does to the membership keeps its fields; only leaving ends
\* it, and only starring changes the star of one who stays.
LEMMA MineField ==
  ASSUME MineShaped
  PROVE  /\ \A id, at : ReadUpTo(id, at) =>
                /\ MineShaped'
                /\ mine'.member = mine.member /\ mine'.starred = mine.starred
         /\ \A yes \in BOOLEAN : SetMember(yes) =>
                /\ MineShaped'
                /\ yes => mine'.member = TRUE
                /\ ~(yes /\ mine.member) => mine'.starred = FALSE
                /\ yes /\ mine.member => mine' = mine
         /\ \A yes \in BOOLEAN : SetStar(yes) =>
                MineShaped' /\ mine'.member = mine.member
  <1>1. ASSUME NEW id, NEW at, ReadUpTo(id, at)
        PROVE  /\ MineShaped'
               /\ mine'.member = mine.member /\ mine'.starred = mine.starred
    <2>1. CASE mine.member
      <3>1. mine' = [member |-> mine.member, lastRead |-> id,
                     starred |-> mine.starred]
        BY <1>1, <2>1 DEF ReadUpTo, MineShaped
      <3> QED
        BY <3>1 DEF MineShaped
    <2>2. CASE ~mine.member
      BY <1>1, <2>2 DEF ReadUpTo, MineShaped
    <2> QED
      BY <2>1, <2>2
  <1>2. ASSUME NEW yes \in BOOLEAN, SetMember(yes)
        PROVE  /\ MineShaped'
               /\ yes => mine'.member = TRUE
               /\ ~(yes /\ mine.member) => mine'.starred = FALSE
               /\ yes /\ mine.member => mine' = mine
    <2>1. CASE yes /\ mine.member
      BY <1>2, <2>1 DEF SetMember, MineShaped
    <2>2. CASE ~(yes /\ mine.member)
      <3>1. mine' = [member |-> yes, lastRead |-> 0, starred |-> FALSE]
        BY <1>2, <2>2 DEF SetMember, NotMember
      <3> QED
        BY <2>2, <3>1 DEF MineShaped
    <2> QED
      BY <2>1, <2>2
  <1>3. ASSUME NEW yes \in BOOLEAN, SetStar(yes)
        PROVE  MineShaped' /\ mine'.member = mine.member
    <2>1. mine' = [member |-> mine.member, lastRead |-> mine.lastRead,
                   starred |-> yes]
      BY <1>3 DEF SetStar, MineShaped
    <2> QED
      BY <2>1 DEF MineShaped
  <1> QED
    BY <1>1, <1>2, <1>3

LEMMA ServerRowShaped ==
  ASSUME MineShaped
  PROVE  /\ Shaped(ServerRow)
         /\ \A r, s \in ServerRow : r = s
         /\ \A r \in ServerRow : r.member = mine.member /\ r.starred = mine.starred
  BY DEF ServerRow, Shaped, IsRow, MineShaped

-----------------------------------------------------------------------------
(* The membership, request by request. *)

Same == mine'.member = mine.member /\ mine'.starred = mine.starred
Joins == ~mine.member /\ mine'.member = TRUE /\ mine'.starred = FALSE

\* Nobody else makes this user leave, or stars a channel for her.
LEMMA ElsewhereMine ==
  ASSUME MineShaped, Elsewhere
  PROVE  MineShaped' /\ (Same \/ Joins)
  <1>1. CASE UNCHANGED mine
    BY <1>1 DEF MineShaped, Same
  <1>2. CASE ~mine.member /\ SetMember(TRUE)
    BY <1>2, MineField DEF Joins
  <1>3. CASE \E id, at : ReadUpTo(id, at)
    BY <1>3, MineField DEF Same
  <1> QED
    BY <1>1, <1>2, <1>3
       DEF Elsewhere, CreateChannel, PostMessage, DeleteMessage, SetType, Archive

LEMMA DoesMine ==
  ASSUME MineShaped, NEW op, Does(op)
  PROVE  /\ MineShaped'
         /\ op \in Starring => mine.member /\ mine'.member = mine.member
         /\ op \notin Starring /\ op # "leave" => Same \/ Joins
  <1>1. CASE op = "star" /\ mine.member /\ SetStar(TRUE)
    BY <1>1, MineField DEF Starring
  <1>2. CASE op = "unstar" /\ mine.member /\ SetStar(FALSE)
    BY <1>2, MineField DEF Starring
  <1>3. CASE op = "join" /\ SetMember(TRUE)
    BY <1>3, MineField DEF Same, Joins, MineShaped, Starring
  <1>4. CASE op = "leave" /\ SetMember(FALSE)
    BY <1>4, MineField DEF Starring
  <1>5. CASE op \in {"archive", "update"} /\ UNCHANGED mine
    BY <1>5 DEF MineShaped, Same, Starring
  <1> QED
    BY <1>1, <1>2, <1>3, <1>4, <1>5 DEF Does, Archive, SetType

-----------------------------------------------------------------------------
(* Rows keep their fields, action by action. *)

\* Q is R with other counts or types, or with a row less.
Keeps(Q, R) ==
    /\ Shaped(Q)
    /\ \A q \in Q : \E r \in R : q.starred = r.starred /\ q.member = r.member
    /\ (\A r, s \in R : r = s) => \A p, q \in Q : p = q

LEMMA KeepsItself == ASSUME NEW R, Shaped(R) PROVE Keeps(R, R)
  BY DEF Keeps

LEMMA ReadRows ==
  ASSUME NEW R, Shaped(R), NEW id
  PROVE  /\ Keeps({ReadRow(r, id) : r \in R}, R)
         /\ \A q \in {ReadRow(r, id) : r \in R} : q.unread = 0
  <1> DEFINE Q == {ReadRow(r, id) : r \in R}
  <1>1. \A q \in Q : \E r \in R :
          /\ IsRow(q) /\ q.unread = 0
          /\ q.starred = r.starred /\ q.member = r.member
    BY ReadField DEF Shaped
  <1>2. (\A r, s \in R : r = s) => \A p, q \in Q : p = q
    OBVIOUS
  <1> QED
    BY <1>1, <1>2 DEF Keeps, Shaped

LEMMA ZeroRows ==
  ASSUME NEW R, Shaped(R)
  PROVE  /\ Keeps({[r EXCEPT !.unread = 0] : r \in R}, R)
         /\ \A q \in {[r EXCEPT !.unread = 0] : r \in R} : q.unread = 0
  <1> DEFINE Q == {[r EXCEPT !.unread = 0] : r \in R}
  <1>1. \A q \in Q : \E r \in R :
          /\ IsRow(q) /\ q.unread = 0
          /\ q.starred = r.starred /\ q.member = r.member
    <2> TAKE q \in Q
    <2>1. PICK r \in R : q = [r EXCEPT !.unread = 0]
      OBVIOUS
    <2> QED
      BY <2>1, UnreadField DEF Shaped
  <1>2. (\A r, s \in R : r = s) => \A p, q \in Q : p = q
    OBVIOUS
  <1> QED
    BY <1>1, <1>2 DEF Keeps, Shaped

LEMMA TypedRows ==
  ASSUME NEW R, Shaped(R), NEW t
  PROVE  Keeps({[r EXCEPT !.type = t] : r \in R}, R)
  <1> DEFINE Q == {[r EXCEPT !.type = t] : r \in R}
  <1>1. \A q \in Q : \E r \in R :
          IsRow(q) /\ q.starred = r.starred /\ q.member = r.member
    <2> TAKE q \in Q
    <2>1. PICK r \in R : q = [r EXCEPT !.type = t]
      OBVIOUS
    <2> QED
      BY <2>1, TypeField DEF Shaped
  <1>2. (\A r, s \in R : r = s) => \A p, q \in Q : p = q
    OBVIOUS
  <1> QED
    BY <1>1, <1>2 DEF Keeps, Shaped

LEMMA MessageRow ==
  ASSUME Shaped(row), HandleMessage
  PROVE  Keeps(row', row)
  <1> DEFINE Count(r) == IF Counts(Head(stream).by) THEN r.unread + 1
                         ELSE r.unread
             Q == {[r EXCEPT !.unread = Count(r)] : r \in row}
  <1>1. row' = Q
    BY DEF HandleMessage, Show
  <1>2. \A q \in Q : \E r \in row :
          IsRow(q) /\ q.starred = r.starred /\ q.member = r.member
    <2> HIDE DEF Count
    <2> TAKE q \in Q
    <2>1. PICK r \in row : q = [r EXCEPT !.unread = Count(r)]
      OBVIOUS
    <2> QED
      BY <2>1, UnreadField DEF Shaped
  <1>3. (\A r, s \in row : r = s) => \A p, q \in Q : p = q
    <2> HIDE DEF Count
    <2> QED
      OBVIOUS
  <1> HIDE DEF Q
  <1> QED
    BY <1>1, <1>2, <1>3 DEF Keeps, Shaped

LEMMA EventRow ==
  ASSUME Shaped(row), HandleMessage \/ HandleRead \/ HandleUpdated
                      \/ HandleArchived \/ Unheard
  PROVE  Keeps(row', row)
  <1>1. CASE HandleRead
    BY <1>1, ReadRows DEF HandleRead, Show
  <1>2. CASE HandleUpdated
    <2> DEFINE Q == {[x EXCEPT !.type = Head(stream).type] : x \in row}
    <2>1. Keeps(Q, row)
      BY TypedRows
    <2>2. row' = {r \in Q : r.type = "public" \/ r.member}
      BY <1>2 DEF HandleUpdated, Show
    <2> HIDE DEF Q
    <2> QED
      BY <2>1, <2>2 DEF Keeps, Shaped
  <1>3. CASE HandleArchived
    BY <1>3 DEF HandleArchived, Show, Keeps, Shaped
  <1>4. CASE Unheard
    BY <1>4, KeepsItself DEF Unheard, Show
  <1> QED
    BY <1>1, <1>2, <1>3, <1>4, MessageRow

\* The row of a channel that is new here.
LEMMA CreatedRow ==
  ASSUME Shaped(row), HandleCreated
  PROVE  \/ row' = row
         \/ /\ Shaped(row') /\ \A p, q \in row' : p = q
            /\ \A q \in row' : q.starred = FALSE /\ q.member = FALSE
  <1>1. CASE row = {}
    <2>1. PICK t : row' = {[unread |-> 0, lastRead |-> 0, starred |-> FALSE,
                            member |-> FALSE, type |-> t]}
      BY <1>1 DEF HandleCreated, Show, Added
    <2> QED
      BY <2>1 DEF Shaped, IsRow
  <1>2. CASE row # {}
    BY <1>2 DEF HandleCreated, Show, Added
  <1> QED
    BY <1>1, <1>2

-----------------------------------------------------------------------------
(* ShapeInv is inductive. *)

LEMMA InitShaped == ASSUME Init PROVE ShapeInv
  <1>1. MineShaped
    BY DEF Init, MineShaped
  <1>2. Shaped(row)
    BY <1>1, ServerRowShaped DEF Init
  <1>3. fetch.stage = "none" /\ reqs = {}
    BY DEF Init, NoFetch
  <1> QED
    BY <1>1, <1>2, <1>3 DEF ShapeInv

\* The server's side of a step leaves the client's rows alone.
LEMMA ElsewhereShaped ==
  ASSUME ShapeInv, Elsewhere, UNCHANGED habit
  PROVE  ShapeInv'
  <1>1. UNCHANGED <<row, fetch, reqs>>
    BY DEF Elsewhere, client
  <1>2. MineShaped'
    BY ElsewhereMine DEF ShapeInv
  <1> QED
    BY <1>1, <1>2 DEF ShapeInv, Shaped

LEMMA EventShaped ==
  ASSUME ShapeInv, UNCHANGED habit,
         \/ HandleMessage \/ HandleRead \/ HandleUpdated \/ HandleArchived
         \/ HandleCreated \/ Unheard
  PROVE  ShapeInv'
  <1>1. UNCHANGED <<mine, fetch, reqs>>
    BY DEF HandleMessage, HandleRead, HandleUpdated, HandleArchived,
           HandleCreated, Unheard, Pass, server
  <1>2. Shaped(row')
    BY EventRow, CreatedRow DEF Keeps, ShapeInv
  <1> QED
    BY <1>1, <1>2 DEF ShapeInv, MineShaped, Shaped

LEMMA FetchShaped ==
  ASSUME ShapeInv, UNCHANGED habit,
         ServerAnswersFetch \/ FetchArrives \/ FetchFails \/ Invalidate
  PROVE  ShapeInv'
  <1>1. UNCHANGED <<mine, reqs>>
    BY DEF ServerAnswersFetch, FetchArrives, FetchFails, Invalidate, server
  <1>2. CASE ServerAnswersFetch
    <2>1. row' = row /\ fetch'.rows = ServerRow
      BY <1>2 DEF ServerAnswersFetch
    <2> QED
      BY <1>1, <2>1, ServerRowShaped DEF ShapeInv, MineShaped, Shaped
  <1>3. CASE FetchArrives
    <2>1. row' = fetch.rows /\ fetch.stage = "answered" /\ fetch'.stage = "none"
      BY <1>3 DEF FetchArrives, Show, NoFetch
    <2> QED
      BY <1>1, <2>1 DEF ShapeInv, MineShaped, Shaped
  <1>4. CASE FetchFails \/ Invalidate
    <2>1. row' = row /\ fetch'.stage # "answered"
      BY <1>4 DEF FetchFails, Invalidate, NoFetch, Asked
    <2> QED
      BY <1>1, <2>1 DEF ShapeInv, MineShaped, Shaped
  <1> QED
    BY <1>2, <1>3, <1>4

LEMMA NewRequest ==
  ASSUME NEW op, NEW prev
  PROVE  Request(op, prev).op = op /\ Request(op, prev).prev = prev
  BY DEF Request

\* What a star shows at once.
LEMMA ClickedRow ==
  ASSUME Shaped(row), NEW yes \in BOOLEAN, ClickStar(yes)
  PROVE  /\ Shaped(row')
         /\ \A q \in row' : q.starred = yes /\ q.member
         /\ (\A r, s \in row : r = s) => \A p, q \in row' : p = q
  <1> DEFINE Q == {[r EXCEPT !.starred = yes] : r \in row}
  <1>1. row' = Q /\ \A r \in row : r.member
    BY DEF ClickStar, Show
  <1>2. \A q \in Q : IsRow(q) /\ q.starred = yes /\ q.member
    <2> TAKE q \in Q
    <2>1. PICK r \in row : q = [r EXCEPT !.starred = yes]
      OBVIOUS
    <2> QED
      BY <1>1, <2>1, StarField DEF Shaped
  <1>3. (\A r, s \in row : r = s) => \A p, q \in Q : p = q
    OBVIOUS
  <1> HIDE DEF Q
  <1> QED
    BY <1>1, <1>2, <1>3 DEF Shaped

LEMMA UserShaped ==
  ASSUME ShapeInv, UNCHANGED habit,
         \/ \E yes \in BOOLEAN : ClickStar(yes)
         \/ \E op \in Clicks : Click(op)
         \/ AutoMarkAsRead \/ OpenOrLeave
  PROVE  ShapeInv'
  <1>1. CASE \E yes \in BOOLEAN : ClickStar(yes)
    <2>1. PICK yes \in BOOLEAN : ClickStar(yes)
      BY <1>1
    <2>2. Shaped(row')
      BY <2>1, ClickedRow DEF ShapeInv
    <2>3. PICK op \in Starring :
            reqs' = reqs \cup {Request(op, row)} /\ Request(op, row).op \in habit.asks
      BY <2>1 DEF ClickStar, Send, Starring
    <2>4. fetch'.stage # "answered" /\ mine' = mine
      BY <2>1 DEF ClickStar, NoFetch, Send, server
    <2> QED
      BY <2>2, <2>3, <2>4, NewRequest DEF ShapeInv, MineShaped, Shaped
  <1>2. CASE \/ \E op \in Clicks : Click(op)
             \/ AutoMarkAsRead
    <2>1. PICK op : /\ reqs' = reqs \cup {Request(op, {})}
                    /\ Request(op, {}).op \in habit.asks
      BY <1>2 DEF Click, AutoMarkAsRead, Send
    <2>2. UNCHANGED <<row, fetch, mine>>
      BY <1>2 DEF Click, AutoMarkAsRead, Send, server
    <2> QED
      BY <2>1, <2>2, NewRequest DEF ShapeInv, MineShaped, Shaped
  <1>3. CASE OpenOrLeave
    <2>1. UNCHANGED <<row, fetch, mine, reqs>>
      BY <1>3 DEF OpenOrLeave, server
    <2> QED
      BY <2>1 DEF ShapeInv, MineShaped, Shaped
  <1> QED
    BY <1>1, <1>2, <1>3

\* What the server does with a request.
Served(req) ==
    \/ ServerFinds(req) \/ ServerMarks(req) \/ ServerDoes(req)
    \/ ServerAnswers(req) \/ ServerRefuses(req)

LEMMA ServedBy ==
  ASSUME NEW req, Served(req)
  PROVE  \E s, t, i, e, y : Serve(req, s, t, i, e, y)
  <1>1. CASE ServerFinds(req)
    BY <1>1, Zenon DEF ServerFinds
  <1>2. CASE ServerMarks(req)
    BY <1>2, Zenon DEF ServerMarks
  <1>3. CASE ServerDoes(req)
    BY <1>3, Zenon DEF ServerDoes
  <1>4. CASE ServerAnswers(req) \/ ServerRefuses(req)
    BY <1>4, Zenon DEF ServerAnswers, ServerRefuses
  <1> QED
    BY <1>1, <1>2, <1>3, <1>4 DEF Served

\* The server's answer to a request is one to the same request.
LEMMA ServedRequests ==
  ASSUME NEW req \in reqs, Served(req)
  PROVE  /\ UNCHANGED <<row, fetch, failed, viewing, page, skewed>>
         /\ \A q \in reqs' : \E r \in reqs : q.op = r.op /\ q.prev = r.prev
         /\ \A r \in reqs : \E q \in reqs' : q.op = r.op
  <1>1. PICK s, t, i, e, y : Serve(req, s, t, i, e, y)
    BY ServedBy
  <1>2. /\ Answer(req, s, t, i, e, y).op = req.op
        /\ Answer(req, s, t, i, e, y).prev = req.prev
    BY DEF Answer
  <1>3. reqs' = (reqs \ {req}) \cup {Answer(req, s, t, i, e, y)}
    BY <1>1 DEF Serve
  <1>4. UNCHANGED <<row, fetch, failed, viewing, page, skewed>>
    BY <1>1 DEF Serve
  <1> QED
    BY <1>2, <1>3, <1>4

LEMMA ServedMine ==
  ASSUME MineShaped, NEW req \in reqs, Served(req)
  PROVE  /\ MineShaped'
         /\ req.op \notin Starring /\ req.op # "leave" => Same \/ Joins
         /\ req.op \in Starring =>
              Same \/ (mine.member /\ mine'.member = mine.member)
  <1>1. CASE ServerDoes(req)
    BY <1>1, DoesMine DEF ServerDoes
  <1>2. CASE ServerMarks(req)
    BY <1>2, MineField DEF ServerMarks, Same
  <1>3. CASE ServerFinds(req) \/ ServerAnswers(req) \/ ServerRefuses(req)
    BY <1>3 DEF ServerFinds, ServerAnswers, ServerRefuses, server, MineShaped,
                Same
  <1> QED
    BY <1>1, <1>2, <1>3 DEF Served

\* The row after the answer to mark-as-read, and to mark-all-as-read.
LEMMA ReadAnswerRow ==
  ASSUME Shaped(row), NEW req, ReadSucceeds(req)
  PROVE  Keeps(row', row) /\ \A q \in row' : q.unread = 0
  <1>1. CASE req.op = "read"
    <2>1. row' = {ReadRow(r, req.id) : r \in row}
      BY <1>1 DEF ReadSucceeds, Show
    <2> QED
      BY <2>1, ReadRows
  <1>2. CASE req.op # "read"
    <2>1. row' = {[r EXCEPT !.unread = 0] : r \in row}
      BY <1>2 DEF ReadSucceeds, Show
    <2> QED
      BY <2>1, ZeroRows
  <1> QED
    BY <1>1, <1>2

LEMMA UpdateAnswerRow ==
  ASSUME Shaped(row), NEW req, UpdateSucceeds(req)
  PROVE  Keeps(row', row)
  <1>1. row' = {[r EXCEPT !.type = req.type] : r \in row}
    BY DEF UpdateSucceeds, Show
  <1> QED
    BY <1>1, TypedRows

LEMMA SettleShaped ==
  ASSUME ShapeInv, UNCHANGED habit, Settle
  PROVE  ShapeInv'
  <1>1. PICK req \in reqs :
          \/ Served(req) \/ ReadSucceeds(req) \/ UpdateSucceeds(req)
          \/ ChangeSucceeds(req) \/ ChangeFails(req)
          \/ StarSucceeds(req) \/ StarFails(req)
    BY DEF Settle, Served
  <1>2. CASE Served(req)
    BY <1>2, ServedRequests, ServedMine DEF ShapeInv, Shaped
  <1>3. CASE ~Served(req)
    <2>1. mine' = mine /\ reqs' = reqs \ {req}
      BY <1>1, <1>3 DEF ReadSucceeds, UpdateSucceeds, ChangeSucceeds,
                        ChangeFails, StarSucceeds, StarFails, Answered, server
    <2>2. fetch' = fetch \/ fetch'.stage # "answered"
      BY <1>1, <1>3 DEF ReadSucceeds, UpdateSucceeds, ChangeSucceeds,
                        ChangeFails, StarSucceeds, StarFails, StarSettled, Asked
    <2>3. Shaped(row')
      <3>1. CASE ReadSucceeds(req) \/ UpdateSucceeds(req)
        BY <3>1, ReadAnswerRow, UpdateAnswerRow DEF ShapeInv, Keeps
      <3>2. CASE StarFails(req)
        <4>1. row' = req.prev
          BY <3>2 DEF StarFails, Show
        <4> QED
          BY <4>1 DEF ShapeInv
      <3>3. CASE ChangeSucceeds(req) \/ ChangeFails(req) \/ StarSucceeds(req)
        BY <3>3 DEF ChangeSucceeds, ChangeFails, StarSucceeds, ShapeInv
      <3> QED
        BY <1>1, <1>3, <3>1, <3>2, <3>3
    <2> QED
      BY <2>1, <2>2, <2>3 DEF ShapeInv, MineShaped, Shaped
  <1> QED
    BY <1>2, <1>3

\* A broadcast, or a rendered page, changes no row.
LEMMA QuietShaped ==
  ASSUME ShapeInv, UNCHANGED habit, Render \/ \E k : Announce(k)
  PROVE  ShapeInv'
  <1>1. UNCHANGED <<mine, row, fetch, reqs>>
    BY DEF Announce, Render, server, client
  <1> QED
    BY <1>1 DEF ShapeInv, MineShaped, Shaped

LEMMA NextShaped == ASSUME ShapeInv, Next PROVE ShapeInv'
  <1>1. CASE Render \/ \E k \in (sent + 1)..Len(stream) : Announce(k)
    BY <1>1, QuietShaped DEF Next
  <1>2. CASE ~(Render \/ \E k \in (sent + 1)..Len(stream) : Announce(k))
    BY <1>2, ElsewhereShaped, EventShaped, FetchShaped, UserShaped, SettleShaped
       DEF Next, Step
  <1> QED
    BY <1>1, <1>2

-----------------------------------------------------------------------------
(* The mark-as-read timer. *)

Reading == \E r \in reqs : r.op = "read"

\* A row that is shown is rendered later; until then a count other than the
\* rendered one is remembered.
LEMMA ShowKeepsMark ==
  ASSUME MarkIsOnItsWay, NEW r, Show(r), Reading => Reading'
  PROVE  MarkIsOnItsWay'
  BY DEF MarkIsOnItsWay, Show, Reading

LEMMA StillKeepsMark ==
  ASSUME MarkIsOnItsWay, UNCHANGED <<row, rendered, dipped>>,
         Reading => Reading', timer # "off" => timer' # "off"
  PROVE  MarkIsOnItsWay'
  BY DEF MarkIsOnItsWay, Reading

\* The effect runs with every count and screen that is not the last one.
LEMMA RenderKeepsMark ==
  ASSUME Render
  PROVE  MarkIsOnItsWay'
  <1>1. row' = row /\ rendered' = [unread |-> Unread(row), viewing |-> viewing]
    BY DEF Render
  <1>2. timer' = IF viewing /\ Unread(row) > 0 THEN "armed" ELSE "off"
    BY DEF Render, Reruns
  <1>3. rendered'.unread = Unread(row') /\ rendered'.viewing = viewing
    BY <1>1
  <1> QED
    BY <1>1, <1>2, <1>3 DEF MarkIsOnItsWay

LEMMA EventKeepsMark ==
  ASSUME MarkIsOnItsWay,
         \/ HandleMessage \/ HandleRead \/ HandleUpdated \/ HandleArchived
         \/ HandleCreated \/ Unheard \/ FetchArrives
  PROVE  MarkIsOnItsWay'
  <1>1. \E r : Show(r)
    BY DEF HandleMessage, HandleRead, HandleUpdated, HandleArchived,
           HandleCreated, Unheard, FetchArrives
  <1>2. reqs' = reqs
    BY DEF HandleMessage, HandleRead, HandleUpdated, HandleArchived,
           HandleCreated, Unheard, FetchArrives, Pass
  <1>3. PICK r : Show(r)
    BY <1>1
  <1>4. Reading => Reading'
    BY <1>2 DEF Reading
  <1> QED
    BY <1>3, <1>4, ShowKeepsMark

LEMMA ClickKeepsMark ==
  ASSUME MarkIsOnItsWay,
         \/ \E yes \in BOOLEAN : ClickStar(yes)
         \/ \E op \in Clicks : Click(op)
         \/ AutoMarkAsRead
  PROVE  MarkIsOnItsWay'
  <1>1. CASE \E yes \in BOOLEAN : ClickStar(yes)
    <2>1. Reading => Reading'
      BY <1>1 DEF ClickStar, Send, Reading
    <2>2. \E r : Show(r)
      BY <1>1 DEF ClickStar
    <2> QED
      BY <2>1, <2>2, ShowKeepsMark
  <1>2. CASE \E op \in Clicks : Click(op)
    BY <1>2, StillKeepsMark DEF Click, Send, Reading, page
  <1>3. CASE AutoMarkAsRead
    <2>1. Request("read", {}).op = "read"
      BY DEF Request
    <2>2. Request("read", {}) \in reqs'
      BY <1>3 DEF AutoMarkAsRead, Send
    <2>3. UNCHANGED <<row, rendered, dipped>>
      BY <1>3 DEF AutoMarkAsRead
    <2> QED
      BY <2>1, <2>2, <2>3 DEF MarkIsOnItsWay
  <1> QED
    BY <1>1, <1>2, <1>3

LEMMA ServerKeepsMark ==
  ASSUME MarkIsOnItsWay, NEW req \in reqs, Served(req)
  PROVE  MarkIsOnItsWay'
  <1>1. UNCHANGED <<row, rendered, timer, dipped>>
    BY ServedRequests DEF page
  <1>2. Reading => Reading'
    BY ServedRequests DEF Reading
  <1> QED
    BY <1>1, <1>2, StillKeepsMark

\* A row that has just been read has nothing unread.
LEMMA ReadIsRead ==
  ASSUME NEW R, \A r \in R : r.unread = 0
  PROVE  Unread(R) = 0
  BY DEF Unread

LEMMA AnswerKeepsMark ==
  ASSUME MarkIsOnItsWay, NEW req \in reqs,
         \/ UpdateSucceeds(req) \/ ChangeSucceeds(req) \/ ChangeFails(req)
         \/ StarSucceeds(req) \/ StarFails(req)
  PROVE  MarkIsOnItsWay'
  <1>1. reqs' = reqs \ {req}
    BY DEF UpdateSucceeds, ChangeSucceeds, ChangeFails, StarSucceeds, StarFails,
           Answered
  <1>2. CASE ChangeFails(req) /\ req.op = "read"
    BY <1>2 DEF ChangeFails, MarkIsOnItsWay
  <1>3. CASE req.op # "read"
    <2>1. Reading => Reading'
      BY <1>1, <1>3 DEF Reading
    <2>2. CASE UpdateSucceeds(req) \/ StarFails(req)
      BY <2>1, <2>2, ShowKeepsMark DEF UpdateSucceeds, StarFails
    <2>3. CASE ~(UpdateSucceeds(req) \/ StarFails(req))
      BY <1>3, <2>1, <2>3, StillKeepsMark
         DEF ChangeSucceeds, ChangeFails, StarSucceeds, page
    <2> QED
      BY <2>2, <2>3
  <1> QED
    BY <1>2, <1>3
       DEF UpdateSucceeds, ChangeSucceeds, StarSucceeds, StarFails, Starring

\* The answer to mark-as-read takes the count to 0: nothing that is rendered,
\* or something other than what is rendered.
LEMMA ReadKeepsMark ==
  ASSUME MarkIsOnItsWay, ShapeInv, NEW req \in reqs, ReadSucceeds(req)
  PROVE  MarkIsOnItsWay'
  <1>1. \A q \in row' : q.unread = 0
    BY ReadAnswerRow DEF ShapeInv
  <1>2. Unread(row') = 0
    BY <1>1, ReadIsRead
  <1>3. \E r : Show(r)
    BY DEF ReadSucceeds
  <1>4. rendered' = rendered /\ (~dipped' => rendered.unread = 0)
    BY <1>2, <1>3 DEF Show
  <1> QED
    BY <1>4 DEF MarkIsOnItsWay

LEMMA NextKeepsMark ==
  ASSUME MarkIsOnItsWay, ShapeInv, Next
  PROVE  MarkIsOnItsWay'
  <1>1. CASE \/ Elsewhere \/ ServerAnswersFetch \/ FetchFails \/ Invalidate
             \/ OpenOrLeave \/ \E k : Announce(k)
    <2>1. UNCHANGED <<row, reqs, rendered, timer, dipped>>
      BY <1>1 DEF Elsewhere, client, page, ServerAnswersFetch, FetchFails,
                  Invalidate, OpenOrLeave, Announce
    <2> QED
      BY <2>1, StillKeepsMark DEF Reading
  <1>2. CASE Settle
    BY <1>2, ServerKeepsMark, ReadKeepsMark, AnswerKeepsMark DEF Settle, Served
  <1> QED
    BY <1>1, <1>2, EventKeepsMark, ClickKeepsMark, RenderKeepsMark
       DEF Next, Step

\* While the open channel shows unread messages, the timer or a request is there
\* to mark them as read, unless the last request failed or the count has gone
\* and come back between two renders: for any number of changes and any of the
\* user's requests (pages/ChannelPage.tsx).
THEOREM UnreadGetsMarked == Spec => []MarkIsOnItsWay
  <1>1. Init => MarkIsOnItsWay /\ ShapeInv
    <2>1. Init => rendered.viewing = FALSE
      BY DEF Init
    <2> QED
      BY <2>1, InitShaped DEF MarkIsOnItsWay
  <1>2. MarkIsOnItsWay /\ ShapeInv /\ [Next]_vars => (MarkIsOnItsWay /\ ShapeInv)'
    <2> SUFFICES ASSUME MarkIsOnItsWay, ShapeInv, [Next]_vars
                 PROVE  (MarkIsOnItsWay /\ ShapeInv)'
      OBVIOUS
    <2>1. CASE Next
      BY <2>1, NextKeepsMark, NextShaped
    <2>2. CASE UNCHANGED vars
      <3>1. MarkIsOnItsWay'
        BY <2>2 DEF vars, client, page, MarkIsOnItsWay
      <3>2. ShapeInv'
        BY <2>2 DEF vars, client, server, ShapeInv, Shaped, MineShaped
      <3> QED
        BY <3>1, <3>2
    <2> QED
      BY <2>1, <2>2
  <1> QED
    BY <1>1, <1>2, PTL DEF Spec

-----------------------------------------------------------------------------
(* Stars. *)

\* Rows with fewer or other counts are as good, and no more wrong.
LEMMA KeepsCopy ==
  ASSUME NEW Q, NEW R, NEW m, Keeps(Q, R), CopyOK(R, m)
  PROVE  CopyOK(Q, m) /\ (Marred(Q, m) => Marred(R, m))
  BY DEF Keeps, CopyOK, Marred

\* A membership that begins, or stays as it was, keeps every copy as good.
LEMMA MineKeepsCopy ==
  ASSUME MineShaped, Same \/ Joins, NEW R, Shaped(R), CopyOK(R, mine)
  PROVE  CopyOK(R, mine') /\ (Marred(R, mine') => Marred(R, mine))
  BY DEF Same, Joins, CopyOK, Marred, MineShaped, Shaped, IsRow

LEMMA ServerRowFits ==
  ASSUME MineShaped, mine.starred => mine.member
  PROVE  CopyOK(ServerRow, mine) /\ ~Marred(ServerRow, mine)
  BY ServerRowShaped DEF CopyOK, Marred

\* What is left to show when only the membership and the row change, and the
\* stars under way remain.
LEMMA RestStar ==
  ASSUME ShapeInv, CopiesOK, StarIsOnItsWay, Same \/ Joins,
         CopyOK(row', mine'), Marred(row', mine') => Marred(row, mine),
         UNCHANGED <<fetch, failed>>,
         \A q \in reqs' : \E r \in reqs : q.op = r.op /\ q.prev = r.prev,
         StarAsked => StarAsked'
  PROVE  CopiesOK' /\ StarIsOnItsWay'
  <1>1. mine'.starred => mine'.member
    BY DEF Same, Joins, CopiesOK
  <1>2. fetch.stage = "answered" =>
          CopyOK(fetch.rows, mine') /\ (Marred(fetch.rows, mine') => StarAsked)
    BY MineKeepsCopy DEF ShapeInv, CopiesOK, StarIsOnItsWay
  <1>3. \A req \in reqs : req.op \in Starring => CopyOK(req.prev, mine')
    BY MineKeepsCopy DEF ShapeInv, CopiesOK
  <1>4. \A req \in reqs' : req.op \in Starring => CopyOK(req.prev, mine')
    BY <1>3
  <1>5. CopiesOK'
    BY <1>1, <1>2, <1>4 DEF CopiesOK
  <1>6. StarIsOnItsWay'
    BY <1>2 DEF StarIsOnItsWay
  <1> QED
    BY <1>5, <1>6

LEMMA ElsewhereStar ==
  ASSUME ShapeInv, CopiesOK, StarIsOnItsWay, Elsewhere
  PROVE  CopiesOK' /\ StarIsOnItsWay'
  <1>1. UNCHANGED <<row, fetch, reqs, failed>>
    BY DEF Elsewhere, client
  <1>2. Same \/ Joins
    BY ElsewhereMine DEF ShapeInv
  <1>3. CopyOK(row', mine') /\ (Marred(row', mine') => Marred(row, mine))
    BY <1>1, <1>2, MineKeepsCopy DEF ShapeInv, CopiesOK
  <1>4. StarAsked => StarAsked'
    BY <1>1 DEF StarAsked
  <1> QED
    BY <1>1, <1>2, <1>3, <1>4, RestStar

LEMMA EventStar ==
  ASSUME ShapeInv, CopiesOK, StarIsOnItsWay,
         \/ HandleMessage \/ HandleRead \/ HandleUpdated \/ HandleArchived
         \/ HandleCreated \/ Unheard
  PROVE  CopiesOK' /\ StarIsOnItsWay'
  <1>1. UNCHANGED <<mine, fetch, reqs, failed>>
    BY DEF HandleMessage, HandleRead, HandleUpdated, HandleArchived,
           HandleCreated, Unheard, Pass, server
  <1>2. Shaped(row) /\ CopyOK(row, mine)
    BY DEF ShapeInv, CopiesOK
  <1>3. CopyOK(row', mine) /\ (Marred(row', mine) => Marred(row, mine))
    <2>1. CASE HandleCreated
      <3>1. CASE row' = row
        BY <1>2, <3>1
      <3>2. CASE row' # row
        BY <1>2, <2>1, <3>2, CreatedRow
           DEF CopyOK, Marred, CopiesOK, ShapeInv, MineShaped
      <3> QED
        BY <3>1, <3>2
    <2>2. CASE ~HandleCreated
      <3>1. Keeps(row', row)
        BY <1>2, <2>2, EventRow
      <3> QED
        BY <1>2, <3>1, KeepsCopy
    <2> QED
      BY <2>1, <2>2
  <1>4. Same /\ (StarAsked => StarAsked')
    BY <1>1 DEF Same, StarAsked
  <1> QED
    BY <1>1, <1>3, <1>4, RestStar

LEMMA FetchStar ==
  ASSUME ShapeInv, CopiesOK, StarIsOnItsWay,
         ServerAnswersFetch \/ FetchArrives \/ FetchFails \/ Invalidate
  PROVE  CopiesOK' /\ StarIsOnItsWay'
  <1>1. UNCHANGED <<mine, reqs>>
    BY DEF ServerAnswersFetch, FetchArrives, FetchFails, Invalidate, server
  <1>2. StarAsked' <=> StarAsked
    BY <1>1 DEF StarAsked
  <1>3. CASE ServerAnswersFetch
    <2>1. /\ UNCHANGED <<row, failed>>
          /\ fetch'.rows = ServerRow /\ fetch'.stage = "answered"
      BY <1>3 DEF ServerAnswersFetch
    <2>2. CopyOK(ServerRow, mine) /\ ~Marred(ServerRow, mine)
      BY ServerRowFits DEF ShapeInv, CopiesOK
    <2>3. CopiesOK'
      BY <1>1, <2>1, <2>2 DEF CopiesOK
    <2>4. fetch' # NoFetch
      BY <2>1 DEF NoFetch
    <2> QED
      BY <1>1, <2>1, <2>2, <2>3, <2>4 DEF StarIsOnItsWay
  <1>4. CASE FetchArrives
    <2>1. row' = fetch.rows /\ fetch.stage = "answered" /\ fetch'.stage = "none"
      BY <1>4 DEF FetchArrives, Show, NoFetch
    <2>2. CopiesOK'
      BY <1>1, <2>1 DEF CopiesOK
    <2> QED
      BY <1>1, <1>2, <2>1, <2>2 DEF StarIsOnItsWay
  <1>5. CASE FetchFails \/ Invalidate
    <2>1. row' = row /\ fetch'.stage # "answered"
      BY <1>5 DEF FetchFails, Invalidate, NoFetch, Asked
    <2>2. failed' = TRUE \/ fetch' # NoFetch
      BY <1>5 DEF FetchFails, Invalidate, NoFetch, Asked
    <2>3. CopiesOK'
      BY <1>1, <2>1 DEF CopiesOK
    <2> QED
      BY <1>1, <1>2, <2>1, <2>2, <2>3 DEF StarIsOnItsWay
  <1> QED
    BY <1>3, <1>4, <1>5

LEMMA UserStar ==
  ASSUME ShapeInv, CopiesOK, StarIsOnItsWay,
         \/ \E yes \in BOOLEAN : ClickStar(yes)
         \/ \E op \in Clicks : Click(op)
         \/ AutoMarkAsRead \/ OpenOrLeave
  PROVE  CopiesOK' /\ StarIsOnItsWay'
  <1>1. CASE \E yes \in BOOLEAN : ClickStar(yes)
    <2>1. PICK yes \in BOOLEAN : ClickStar(yes)
      BY <1>1
    <2>2. PICK op \in Starring : reqs' = reqs \cup {Request(op, row)}
      BY <2>1 DEF ClickStar, Send, Starring
    <2>3. mine' = mine /\ fetch' = NoFetch /\ fetch'.stage = "none"
      BY <2>1 DEF ClickStar, Send, server, NoFetch
    <2>4. \A r \in row : r.member
      BY <2>1 DEF ClickStar
    <2>5. CopyOK(row', mine)
      <3>1. row = {} \/ mine.member
        BY <2>4 DEF CopiesOK, CopyOK
      <3>2. row # {}
        BY <2>1 DEF ClickStar
      <3> QED
        BY <2>1, <3>1, <3>2, ClickedRow DEF CopiesOK, CopyOK, ShapeInv
    <2>6. CopiesOK'
      BY <2>2, <2>3, <2>5, NewRequest DEF CopiesOK
    <2>7. StarAsked'
      BY <2>2, NewRequest DEF StarAsked
    <2> QED
      BY <2>6, <2>7 DEF StarIsOnItsWay
  <1>2. CASE \/ \E op \in Clicks : Click(op)
             \/ AutoMarkAsRead
    <2>1. PICK op : op \notin Starring /\ reqs' = reqs \cup {Request(op, {})}
      <3>1. \A op \in Clicks : op \notin Starring
        BY DEF Clicks, Reads, Starring
      <3>2. CASE \E op \in Clicks : Click(op)
        BY <3>1, <3>2 DEF Click, Send
      <3>3. CASE AutoMarkAsRead
        BY <3>1, <3>3 DEF AutoMarkAsRead, Send, Clicks, Reads
      <3> QED
        BY <1>2, <3>2, <3>3
    <2>2. UNCHANGED <<row, fetch, failed, mine>>
      BY <1>2 DEF Click, AutoMarkAsRead, Send, server
    <2>3. CopiesOK'
      BY <2>1, <2>2, NewRequest DEF CopiesOK
    <2>4. StarAsked => StarAsked'
      BY <2>1 DEF StarAsked
    <2> QED
      BY <2>2, <2>3, <2>4 DEF StarIsOnItsWay
  <1>3. CASE OpenOrLeave
    <2>1. UNCHANGED <<row, fetch, failed, mine, reqs>>
      BY <1>3 DEF OpenOrLeave, server
    <2> QED
      BY <2>1 DEF CopiesOK, StarIsOnItsWay, StarAsked
  <1> QED
    BY <1>1, <1>2, <1>3

\* The server stars, or unstars, and the request is there to be answered.
LEMMA ServedStar ==
  ASSUME ShapeInv, CopiesOK, StarIsOnItsWay, NEW req \in reqs,
         Served(req), req.op # "leave"
  PROVE  CopiesOK' /\ StarIsOnItsWay'
  <1>1. /\ UNCHANGED <<row, fetch, failed>>
        /\ \A q \in reqs' : \E r \in reqs : q.op = r.op /\ q.prev = r.prev
        /\ \A r \in reqs : \E q \in reqs' : q.op = r.op
    BY ServedRequests
  <1>2. StarAsked => StarAsked'
    BY <1>1 DEF StarAsked
  <1>3. CASE Same \/ Joins
    <2>1. CopyOK(row', mine') /\ (Marred(row', mine') => Marred(row, mine))
      BY <1>1, <1>3, MineKeepsCopy DEF ShapeInv, CopiesOK
    <2> QED
      BY <1>1, <1>2, <1>3, <2>1, RestStar
  <1>4. CASE ~(Same \/ Joins)
    <2>1. req.op \in Starring /\ mine.member /\ mine'.member = mine.member
      BY <1>4, ServedMine DEF ShapeInv
    <2>2. StarAsked'
      BY <1>2, <2>1 DEF StarAsked
    <2>3. \A R : CopyOK(R, mine) => CopyOK(R, mine')
      BY <2>1 DEF CopyOK
    <2>4. \A q \in reqs' : q.op \in Starring => CopyOK(q.prev, mine')
      BY <1>1, <2>3 DEF CopiesOK
    <2>5. CopiesOK'
      BY <1>1, <2>1, <2>3, <2>4 DEF CopiesOK
    <2> QED
      BY <2>2, <2>5 DEF StarIsOnItsWay
  <1> QED
    BY <1>3, <1>4

LEMMA AnswerStar ==
  ASSUME ShapeInv, CopiesOK, StarIsOnItsWay, NEW req \in reqs,
         \/ ReadSucceeds(req) \/ UpdateSucceeds(req) \/ ChangeSucceeds(req)
         \/ ChangeFails(req) \/ StarSucceeds(req) \/ StarFails(req)
  PROVE  CopiesOK' /\ StarIsOnItsWay'
  <1>1. mine' = mine /\ reqs' = reqs \ {req} /\ failed' = failed
    BY DEF ReadSucceeds, UpdateSucceeds, ChangeSucceeds, ChangeFails,
           StarSucceeds, StarFails, Answered, server
  <1>2. CASE ReadSucceeds(req) \/ UpdateSucceeds(req) \/ ChangeFails(req)
    <2>1. fetch' = fetch /\ req.op \notin Starring
      BY <1>2 DEF ReadSucceeds, UpdateSucceeds, ChangeFails, Starring
    <2>2. Keeps(row', row)
      BY <1>2, ReadAnswerRow, UpdateAnswerRow, KeepsItself
         DEF ChangeFails, ShapeInv
    <2>3. CopyOK(row', mine) /\ (Marred(row', mine) => Marred(row, mine))
      BY <2>2, KeepsCopy DEF CopiesOK
    <2>4. Same /\ (StarAsked => StarAsked')
      BY <1>1, <2>1 DEF Same, StarAsked
    <2> QED
      BY <1>1, <2>1, <2>3, <2>4, RestStar
  <1>3. CASE ChangeSucceeds(req) \/ StarSucceeds(req) \/ StarFails(req)
    <2>1. fetch' # NoFetch /\ fetch'.stage = "asked"
      BY <1>3 DEF ChangeSucceeds, StarSucceeds, StarFails, StarSettled, Asked,
                  NoFetch
    <2>2. CopyOK(row', mine)
      <3>1. CASE StarFails(req)
        BY <3>1 DEF StarFails, Show, CopiesOK
      <3>2. CASE ~StarFails(req)
        BY <1>3, <3>2 DEF ChangeSucceeds, StarSucceeds, CopiesOK
      <3> QED
        BY <3>1, <3>2
    <2>3. CopiesOK'
      BY <1>1, <2>1, <2>2 DEF CopiesOK
    <2> QED
      BY <2>1, <2>3 DEF StarIsOnItsWay
  <1> QED
    BY <1>2, <1>3

LEMMA NextStar ==
  ASSUME ShapeInv, CopiesOK, StarIsOnItsWay, Next, "leave" \notin habit.asks
  PROVE  CopiesOK' /\ StarIsOnItsWay'
  <1>1. CASE Settle
    <2>1. PICK req \in reqs :
            \/ Served(req) \/ ReadSucceeds(req) \/ UpdateSucceeds(req)
            \/ ChangeSucceeds(req) \/ ChangeFails(req)
            \/ StarSucceeds(req) \/ StarFails(req)
      BY <1>1 DEF Settle, Served
    <2>2. req.op # "leave"
      BY DEF ShapeInv
    <2> QED
      BY <2>1, <2>2, ServedStar, AnswerStar
  <1>2. CASE Render \/ \E k : Announce(k)
    <2>1. UNCHANGED <<mine, row, fetch, reqs, failed>>
      BY <1>2 DEF Render, Announce, server, client
    <2> QED
      BY <2>1 DEF CopiesOK, StarIsOnItsWay, StarAsked
  <1>3. CASE ~Settle /\ ~(Render \/ \E k : Announce(k))
    BY <1>3, ElsewhereStar, EventStar, FetchStar, UserStar DEF Next, Step
  <1> QED
    BY <1>1, <1>2, <1>3

LEMMA InitStar == ASSUME Init PROVE CopiesOK /\ StarIsOnItsWay
  <1>1. MineShaped /\ mine.starred = FALSE
    BY InitShaped DEF Init, ShapeInv
  <1>2. row = ServerRow /\ fetch.stage = "none" /\ reqs = {}
    BY DEF Init, NoFetch
  <1> QED
    BY <1>1, <1>2, ServerRowFits DEF CopiesOK, StarIsOnItsWay

\* With nothing on its way, the star that is shown is the server's.
LEMMA StillStar ==
  ASSUME ShapeInv, StarInv
  PROVE  StarSettles
  <1> SUFFICES ASSUME Still, ~failed, "leave" \notin habit.asks,
                      NEW r \in row \cup ServerRow,
                      NEW s \in row \cup ServerRow, r.member = s.member
               PROVE  r.starred = s.starred
    BY DEF StarSettles
  <1>1. ~Marred(row, mine) /\ \A p, q \in row : p = q
    BY DEF StarInv, StarIsOnItsWay, CopiesOK, CopyOK, Still, StarAsked
  <1>2. \A q \in ServerRow : q.member = mine.member /\ q.starred = mine.starred
    BY ServerRowShaped DEF ShapeInv
  <1> QED
    BY <1>1, <1>2 DEF Marred

\* A user who does not leave the channel ends up with the server's star, however
\* her stars, their failures and rollbacks, and refetches overlap, for any
\* number of changes of the server (hooks/useChannels.ts).
THEOREM StarsSettle == Spec => []StarSettles
  <1>1. Init => ShapeInv /\ StarInv
    BY InitShaped, InitStar DEF StarInv
  <1>2. ShapeInv /\ StarInv /\ [Next]_vars => (ShapeInv /\ StarInv)'
    <2> SUFFICES ASSUME ShapeInv, StarInv, [Next]_vars
                 PROVE  (ShapeInv /\ StarInv)'
      OBVIOUS
    <2>1. CASE Next
      <3>1. habit' = habit
        BY <2>1 DEF Next
      <3>2. StarInv'
        BY <2>1, <3>1, NextStar DEF StarInv
      <3> QED
        BY <2>1, <3>2, NextShaped
    <2>2. CASE UNCHANGED vars
      <3>1. StarInv'
        BY <2>2 DEF vars, client, server, StarInv, CopiesOK, StarIsOnItsWay,
                    StarAsked
      <3>2. ShapeInv'
        BY <2>2 DEF vars, client, server, ShapeInv, Shaped, MineShaped
      <3> QED
        BY <3>1, <3>2
    <2> QED
      BY <2>1, <2>2
  <1>3. ShapeInv /\ StarInv => StarSettles
    BY StillStar
  <1> QED
    BY <1>1, <1>2, <1>3, PTL DEF Spec

-----------------------------------------------------------------------------
(* The row against the server's.  Between the last entry that has passed   *)
(* and now the server has had one row after another, h[0] to               *)
(* h[Len(stream)]; an entry of the stream either tells how to make the     *)
(* next of the one before, or skews.                                       *)

Entries ==
    [kind : {"message"}, crossed : BOOLEAN, at : Nat,
     by : {"other", "own", "reply"}]
    \cup [kind : {"read"}, crossed : BOOLEAN, at : Nat, id : Nat,
          exact : BOOLEAN]
    \cup [kind : {"updated", "created", "archived"}, crossed : BOOLEAN,
          at : Nat, type : {"public", "private"}]
    \cup [kind : {"unsent"}, crossed : BOOLEAN, at : Nat]

Fresh(type) == [unread |-> 0, lastRead |-> 0, starred |-> FALSE,
                member |-> FALSE, type |-> type]

Read(R, id) == {ReadRow(r, id) : r \in R}
Zeroed(R) == {[r EXCEPT !.unread = 0] : r \in R}
Retyped(R, t) == {[r EXCEPT !.type = t] : r \in R}

\* What the handler of an entry makes of a row, and when it cannot know.
Handled(e, R) ==
    CASE e.kind = "message" -> {[r EXCEPT !.unread = @ + 1] : r \in R}
      [] e.kind = "read" -> Read(R, e.id)
      [] e.kind = "updated" ->
           {r \in {[x EXCEPT !.type = e.type] : x \in R} :
              r.type = "public" \/ r.member}
      [] e.kind = "archived" -> {}
      [] e.kind = "created" -> IF R = {} THEN {Fresh(e.type)} ELSE R
      [] e.kind = "unsent" -> R

Skews(e, R) ==
    \/ e.crossed
    \/ e.kind = "created" /\ e.type = "private"
    \/ e.kind = "message" /\ e.by # "other"
    \/ e.kind = "read" /\ ~e.exact
    \/ e.kind = "updated" /\ R = {}
    \/ e.kind = "unsent"

\* One row at most, with a count.
OneRow(R) ==
    /\ \A r \in R : IsRow(r) /\ r.unread \in Nat
    /\ \A r, s \in R : r = s

\* Two that differ in what is read at most, and that only in the count, which
\* is no higher in the first.
Alike(Q, R) ==
    /\ \A q \in Q, r \in R :
          q.type = r.type /\ q.starred = r.starred /\ q.member = r.member
    /\ Q = {} <=> R = {}

Close(Q, R) ==
    \A q \in Q, r \in R : q.lastRead = r.lastRead /\ q.unread <= r.unread

\* The rows that the server has had.
Past(h) ==
    /\ h[Len(stream)] = ServerRow
    /\ \A i \in 0..Len(stream) : OneRow(h[i])
    /\ \A i \in 1..Len(stream) :
          Skews(stream[i], h[i - 1]) \/ h[i] = Handled(stream[i], h[i - 1])

\* After the entry k something on its way ends what is known of the reading
\* position: what skews, what sets it, a time without a row.
Broken(h, k) ==
    \/ \E i \in (k + 1)..Len(stream) :
          Skews(stream[i], h[i - 1]) \/ stream[i].kind = "read"
    \/ \E i \in k..Len(stream) : h[i] = {}

Steady(h) ==
    \A k \in 0..Len(stream) :
        Broken(h, k) \/ \A r \in h[k] : r.lastRead = mine.lastRead

\* The server's row is going to have no unread messages, and Q is no further
\* from that.
CatchesUp(Q, h) ==
    /\ \E k \in 0..Len(stream) : \A r \in h[k] : r.unread = 0
    /\ Close(Q, h[0])

\* A change of the type is on its way, or something that skews.
TypeComes(h) ==
    \E i \in 1..Len(stream) :
        Skews(stream[i], h[i - 1]) \/ stream[i].kind = "updated"

Known(Q, h) ==
    /\ OneRow(Q) /\ Alike(Q, h[0])
    /\ Q = h[0] \/ Broken(h, 0) \/ CatchesUp(Q, h)

\* The cached row: what is known, or that with the type of an answer that came
\* before its event.
RowOK(h) ==
    ~skewed => \E Q : /\ Known(Q, h)
                      /\ \/ row = Q
                         \/ TypeComes(h) /\ \E t : row = Retyped(Q, t)

ListFetchOK(h) ==
    fetch.stage = "answered" =>
        /\ fetch.at \in Nat /\ fetch.at <= Now
        /\ fetch.at >= passed => fetch.rows = h[fetch.at - passed]

\* A message that a handler has found to read up to is or was there.
FoundOK(req) ==
    req.stage = "found" => req.op \in Reads /\ req.id \in 0..Len(log)

\* An answer that says that all is read: it was, when it was written down.
ReadOK(req, h) ==
    req.stage \in {"written", "done"} /\ req.op \in {"read", "readAll"} =>
        /\ req.at \in Nat /\ req.at <= Now
        /\ req.exact /\ req.at >= passed =>
              \A r \in h[req.at - passed] :
                  /\ r.unread = 0
                  /\ req.op = "read" => r.lastRead = req.id

\* An answer with a type: the channel had it, and the event that says so is on
\* its way, or has passed.
UpdateOK(req, h) ==
    req.stage \in {"written", "done"} /\ req.op = "update" =>
        /\ req.at \in Nat /\ req.at <= Now
        /\ req.at >= passed =>
              \A r \in h[req.at - passed] : r.type = req.type
        /\ req.at > passed =>
              \/ Skews(stream[req.at - passed], h[(req.at - passed) - 1])
              \/ stream[req.at - passed].kind = "updated"

AnswerOK(req, h) == FoundOK(req) /\ ReadOK(req, h) /\ UpdateOK(req, h)

HistoryOK(h) ==
    /\ Past(h) /\ Steady(h) /\ RowOK(h) /\ ListFetchOK(h)
    /\ \A req \in reqs : AnswerOK(req, h)

\* A channel c, a membership m and the messages l.
InOrder(c, m, l) ==
    /\ c \in [state : {"none", "open", "archived"},
              type : {"public", "private"}]
    /\ l \in Seq({"other", "own", "gone"})
    /\ m \in [member : BOOLEAN, lastRead : 0..Len(l), starred : BOOLEAN]

ServerOK ==
    /\ InOrder(chan, mine, log)
    /\ chan.state = "none" => mine = NotMember /\ log = <<>>

FollowInv ==
    /\ ServerOK /\ passed \in Nat /\ stream \in Seq(Entries)
    /\ sent \in Nat /\ sent <= Len(stream)
    /\ \E h : HistoryOK(h)

-----------------------------------------------------------------------------
(* One row at a time. *)

LEMMA SameRow ==
  ASSUME NEW q, NEW r, IsRow(q), IsRow(r), q.unread = r.unread,
         q.type = r.type, q.lastRead = r.lastRead, q.starred = r.starred,
         q.member = r.member
  PROVE  q = r
  BY DEF IsRow

LEMMA SameRows ==
  ASSUME NEW Q, NEW R, OneRow(Q), OneRow(R), Alike(Q, R),
         \A q \in Q, r \in R : q.unread = r.unread /\ q.lastRead = r.lastRead
  PROVE  Q = R
  <1>1. \A q \in Q, r \in R : q = r
    BY SameRow DEF OneRow, Alike
  <1> QED
    BY <1>1 DEF OneRow, Alike

\* A row that is close to one without unread messages is that row.
LEMMA CloseToRead ==
  ASSUME NEW Q, NEW R, OneRow(Q), OneRow(R), Alike(Q, R), Close(Q, R),
         \A r \in R : r.unread = 0
  PROVE  Q = R
  <1>1. \A q \in Q, r \in R : q.unread = r.unread /\ q.lastRead = r.lastRead
    BY DEF Close, OneRow
  <1> QED
    BY <1>1, SameRows

LEMMA FreshRow == ASSUME NEW type PROVE OneRow({Fresh(type)})
  BY DEF OneRow, Fresh, IsRow

\* Each kind's handler, for one row.
LEMMA MessageHandled ==
  ASSUME NEW e, e.kind = "message", NEW R, OneRow(R)
  PROVE  /\ OneRow(Handled(e, R)) /\ (Handled(e, R) = {} <=> R = {})
         /\ \A q \in Handled(e, R), r \in R :
               /\ q.unread = r.unread + 1 /\ q.lastRead = r.lastRead
               /\ q.type = r.type /\ q.starred = r.starred /\ q.member = r.member
  <1> DEFINE Q == {[r EXCEPT !.unread = r.unread + 1] : r \in R}
  <1>1. Handled(e, R) = Q
    BY DEF Handled
  <1>2. ASSUME NEW r \in R
        PROVE  LET q == [r EXCEPT !.unread = r.unread + 1]
               IN  /\ IsRow(q) /\ q.unread = r.unread + 1 /\ q.unread \in Nat
                   /\ q.lastRead = r.lastRead /\ q.type = r.type
                   /\ q.starred = r.starred /\ q.member = r.member
    BY UnreadField DEF OneRow
  <1>3. OneRow(Q)
    <2>1. \A q \in Q : IsRow(q) /\ q.unread \in Nat
      BY <1>2
    <2>2. \A p, q \in Q : p = q
      BY DEF OneRow
    <2> QED
      BY <2>1, <2>2 DEF OneRow
  <1>4. \A q \in Q, r \in R : q = [r EXCEPT !.unread = r.unread + 1]
    BY DEF OneRow
  <1>5. Q = {} <=> R = {}
    OBVIOUS
  <1> HIDE DEF Q
  <1> QED
    BY <1>1, <1>2, <1>3, <1>4, <1>5

LEMMA ReadHandled ==
  ASSUME NEW id, NEW R, OneRow(R)
  PROVE  /\ OneRow(Read(R, id))
         /\ Read(R, id) = {} <=> R = {}
         /\ \A q \in Read(R, id), r \in R :
               /\ q.unread = 0 /\ q.lastRead = id
               /\ q.type = r.type /\ q.starred = r.starred /\ q.member = r.member
  <1> DEFINE Q == {ReadRow(r, id) : r \in R}
  <1>1. ASSUME NEW r \in R
        PROVE  /\ IsRow(ReadRow(r, id)) /\ ReadRow(r, id).unread = 0
               /\ ReadRow(r, id).lastRead = id /\ ReadRow(r, id).type = r.type
               /\ ReadRow(r, id).starred = r.starred
               /\ ReadRow(r, id).member = r.member
    BY ReadField DEF OneRow
  <1>2. OneRow(Q)
    <2>1. \A q \in Q : IsRow(q) /\ q.unread \in Nat
      BY <1>1
    <2>2. \A p, q \in Q : p = q
      BY DEF OneRow
    <2> QED
      BY <2>1, <2>2 DEF OneRow
  <1>3. \A q \in Q, r \in R : q = ReadRow(r, id)
    BY DEF OneRow
  <1>4. Read(R, id) = Q /\ (Q = {} <=> R = {})
    BY DEF Read
  <1> HIDE DEF Q
  <1> QED
    BY <1>1, <1>2, <1>3, <1>4

LEMMA ZeroHandled ==
  ASSUME NEW R, OneRow(R)
  PROVE  /\ OneRow(Zeroed(R))
         /\ Zeroed(R) = {} <=> R = {}
         /\ \A q \in Zeroed(R), r \in R :
               /\ q.unread = 0 /\ q.lastRead = r.lastRead
               /\ q.type = r.type /\ q.starred = r.starred /\ q.member = r.member
  <1> DEFINE Q == {[r EXCEPT !.unread = 0] : r \in R}
  <1>1. ASSUME NEW r \in R
        PROVE  LET q == [r EXCEPT !.unread = 0]
               IN  /\ IsRow(q) /\ q.unread = 0 /\ q.unread \in Nat
                   /\ q.lastRead = r.lastRead /\ q.type = r.type
                   /\ q.starred = r.starred /\ q.member = r.member
    BY UnreadField DEF OneRow
  <1>2. OneRow(Q)
    <2>1. \A q \in Q : IsRow(q) /\ q.unread \in Nat
      BY <1>1
    <2>2. \A p, q \in Q : p = q
      BY DEF OneRow
    <2> QED
      BY <2>1, <2>2 DEF OneRow
  <1>3. \A q \in Q, r \in R : q = [r EXCEPT !.unread = 0]
    BY DEF OneRow
  <1>4. Zeroed(R) = Q /\ (Q = {} <=> R = {})
    BY DEF Zeroed
  <1> HIDE DEF Q
  <1> QED
    BY <1>1, <1>2, <1>3, <1>4

LEMMA UpdateHandled ==
  ASSUME NEW e, e.kind = "updated", NEW R, OneRow(R)
  PROVE  /\ OneRow(Handled(e, R))
         /\ \A r \in R : (r.member \/ e.type = "public") <=> Handled(e, R) # {}
         /\ R = {} => Handled(e, R) = {}
         /\ \A q \in Handled(e, R), r \in R :
               /\ q.unread = r.unread /\ q.lastRead = r.lastRead
               /\ q.type = e.type /\ q.starred = r.starred /\ q.member = r.member
  <1> DEFINE P == {[r EXCEPT !.type = e.type] : r \in R}
             Q == {q \in P : q.type = "public" \/ q.member}
  <1>1. Handled(e, R) = Q
    BY DEF Handled
  <1>2. ASSUME NEW r \in R
        PROVE  LET q == [r EXCEPT !.type = e.type]
               IN  /\ IsRow(q) /\ q.unread = r.unread /\ q.unread \in Nat
                   /\ q.lastRead = r.lastRead /\ q.type = e.type
                   /\ q.starred = r.starred /\ q.member = r.member
    BY TypeField DEF OneRow
  <1>3. \A q \in P, r \in R : q = [r EXCEPT !.type = e.type]
    BY DEF OneRow
  <1>4. \A r \in R : [r EXCEPT !.type = e.type] \in P
    OBVIOUS
  <1>5. \A q \in P : \E r \in R : q = [r EXCEPT !.type = e.type]
    OBVIOUS
  <1> HIDE DEF P
  <1>6. OneRow(Q)
    <2>1. \A q \in Q : IsRow(q) /\ q.unread \in Nat
      BY <1>2, <1>5
    <2>2. \A p, q \in Q : p = q
      BY <1>3, <1>5 DEF OneRow
    <2> QED
      BY <2>1, <2>2 DEF OneRow
  <1>7. \A q \in Q, r \in R :
               /\ q.unread = r.unread /\ q.lastRead = r.lastRead
               /\ q.type = e.type /\ q.starred = r.starred /\ q.member = r.member
    BY <1>2, <1>3
  <1>8. ASSUME NEW r \in R
        PROVE  (r.member \/ e.type = "public") <=> Q # {}
    <2> DEFINE q == [r EXCEPT !.type = e.type]
    <2>1. q \in P /\ q.type = e.type /\ q.member = r.member
      BY <1>2, <1>4
    <2>2. \A p \in P : p = q
      BY <1>3
    <2> HIDE DEF q
    <2> QED
      BY <2>1, <2>2
  <1>9. R = {} => Q = {}
    BY <1>5
  <1> QED
    BY <1>1, <1>6, <1>7, <1>8, <1>9

\* A handler brings a cached row as near to the server's next row as it was to
\* the one before.
LEMMA HandledAlike ==
  ASSUME NEW e \in Entries, e.kind # "unsent", NEW Q, NEW R,
         OneRow(Q), OneRow(R), Alike(Q, R)
  PROVE  /\ OneRow(Handled(e, Q)) /\ Alike(Handled(e, Q), Handled(e, R))
         /\ e.kind = "read" \/ R = {} => Handled(e, Q) = Handled(e, R)
         /\ Close(Q, R) => Close(Handled(e, Q), Handled(e, R))
  <1>1. e.kind \in {"message", "read", "updated", "archived", "created"}
    BY DEF Entries
  <1>2. R = {} => Handled(e, Q) = Handled(e, R)
    BY DEF Alike
  <1>3. CASE e.kind = "message"
    BY <1>2, <1>3, MessageHandled DEF Alike, Close, OneRow
  <1>4. CASE e.kind = "read"
    <2>1. Handled(e, Q) = Read(Q, e.id) /\ Handled(e, R) = Read(R, e.id)
      BY <1>4 DEF Handled
    <2>2. OneRow(Handled(e, Q)) /\ OneRow(Handled(e, R))
      BY <2>1, ReadHandled
    <2>3. /\ Alike(Handled(e, Q), Handled(e, R))
          /\ \A q \in Handled(e, Q), r \in Handled(e, R) :
               q.unread = r.unread /\ q.lastRead = r.lastRead
      BY <2>1, ReadHandled DEF Alike
    <2>4. Handled(e, Q) = Handled(e, R)
      BY <2>2, <2>3, SameRows
    <2>5. Close(Handled(e, Q), Handled(e, R))
      BY <2>2, <2>3 DEF Close, OneRow
    <2> QED
      BY <2>2, <2>3, <2>4, <2>5
  <1>5. CASE e.kind = "updated"
    <2>1. CASE R = {}
      <3>1. Q = {} /\ Handled(e, R) = {} /\ Handled(e, Q) = {}
        BY <2>1, <1>5, UpdateHandled DEF Alike
      <3> QED
        BY <3>1 DEF Alike, Close, OneRow
    <2>2. CASE R # {}
      <3>1. PICK q \in Q, r \in R : q.member = r.member
        BY <2>2 DEF Alike
      <3>2. Handled(e, Q) = {} <=> Handled(e, R) = {}
        BY <1>5, <3>1, UpdateHandled
      <3> QED
        BY <1>2, <1>5, <2>2, <3>1, <3>2, UpdateHandled DEF Alike, Close, OneRow
    <2> QED
      BY <2>1, <2>2
  <1>6. CASE e.kind = "archived"
    <2>1. Handled(e, Q) = {} /\ Handled(e, R) = {}
      BY <1>6 DEF Handled
    <2> QED
      BY <1>6, <2>1 DEF Alike, Close, OneRow
  <1>7. CASE e.kind = "created"
    <2>1. \/ Handled(e, Q) = Q /\ Handled(e, R) = R /\ Q # {} /\ R # {}
          \/ Handled(e, Q) = {Fresh(e.type)} /\ Handled(e, R) = {Fresh(e.type)}
      BY <1>7 DEF Handled, Alike
    <2>2. OneRow({Fresh(e.type)})
      BY FreshRow
    <2>3. /\ Alike({Fresh(e.type)}, {Fresh(e.type)})
          /\ Close({Fresh(e.type)}, {Fresh(e.type)})
      BY <2>2 DEF Alike, Close, OneRow
    <2> QED
      BY <1>7, <2>1, <2>2, <2>3
  <1> QED
    BY <1>1, <1>3, <1>4, <1>5, <1>6, <1>7

\* Only reading moves the reading position of a row that stays.
LEMMA HandledKeepsPosition ==
  ASSUME NEW e \in Entries, e.kind \notin {"read", "unsent"}, NEW R, OneRow(R),
         R # {}, NEW q \in Handled(e, R), NEW r \in R
  PROVE  q.lastRead = r.lastRead
  <1>1. e.kind \in {"message", "updated", "archived", "created"}
    BY DEF Entries
  <1>2. CASE e.kind = "created" \/ e.kind = "archived"
    BY <1>2 DEF Handled, OneRow
  <1> QED
    BY <1>1, <1>2, MessageHandled, UpdateHandled

\* A row whose type came early.
LEMMA RetypedRow ==
  ASSUME NEW R, OneRow(R), NEW t
  PROVE  /\ OneRow(Retyped(R, t))
         /\ Retyped(R, t) = {} <=> R = {}
         /\ \A q \in Retyped(R, t), r \in R :
               /\ q.unread = r.unread /\ q.lastRead = r.lastRead
               /\ q.type = t /\ q.starred = r.starred /\ q.member = r.member
  <1> DEFINE Q == {[r EXCEPT !.type = t] : r \in R}
  <1>1. ASSUME NEW r \in R
        PROVE  LET q == [r EXCEPT !.type = t]
               IN  /\ IsRow(q) /\ q.unread = r.unread /\ q.unread \in Nat
                   /\ q.lastRead = r.lastRead /\ q.type = t
                   /\ q.starred = r.starred /\ q.member = r.member
    BY TypeField DEF OneRow
  <1>2. OneRow(Q)
    <2>1. \A q \in Q : IsRow(q) /\ q.unread \in Nat
      BY <1>1
    <2>2. \A p, q \in Q : p = q
      BY DEF OneRow
    <2> QED
      BY <2>1, <2>2 DEF OneRow
  <1>3. \A q \in Q, r \in R : q = [r EXCEPT !.type = t]
    BY DEF OneRow
  <1>4. Retyped(R, t) = Q /\ (Q = {} <=> R = {})
    BY DEF Retyped
  <1> HIDE DEF Q
  <1> QED
    BY <1>1, <1>2, <1>3, <1>4

\* A type that is set twice is the later one, one that is right changes nothing.
LEMMA RetypedOnce ==
  ASSUME NEW R, OneRow(R), NEW t
  PROVE  /\ \A s : Retyped(Retyped(R, s), t) = Retyped(R, t)
         /\ (\A r \in R : r.type = t) => Retyped(R, t) = R
  <1>1. ASSUME NEW s PROVE Retyped(Retyped(R, s), t) = Retyped(R, t)
    <2>1. OneRow(Retyped(R, s)) /\ OneRow(Retyped(R, t))
      BY RetypedRow
    <2>2. PICK P : P = Retyped(R, s)
      OBVIOUS
    <2>3. OneRow(P) /\ OneRow(Retyped(P, t))
      BY <2>1, <2>2, RetypedRow
    <2>4. /\ P = {} <=> R = {}
          /\ \A p \in P, r \in R :
               /\ p.unread = r.unread /\ p.lastRead = r.lastRead
               /\ p.starred = r.starred /\ p.member = r.member
      BY <2>2, RetypedRow
    <2>5. /\ Retyped(P, t) = {} <=> P = {}
          /\ \A q \in Retyped(P, t), p \in P :
               /\ q.unread = p.unread /\ q.lastRead = p.lastRead
               /\ q.type = t /\ q.starred = p.starred /\ q.member = p.member
      BY <2>3, RetypedRow
    <2>6. /\ Retyped(R, t) = {} <=> R = {}
          /\ \A q \in Retyped(R, t), r \in R :
               /\ q.unread = r.unread /\ q.lastRead = r.lastRead
               /\ q.type = t /\ q.starred = r.starred /\ q.member = r.member
      BY RetypedRow
    <2>7. R = {} \/ \E r \in R, p \in P : TRUE
      BY <2>4
    <2>8. /\ Alike(Retyped(P, t), Retyped(R, t))
          /\ \A q \in Retyped(P, t), r \in Retyped(R, t) :
               q.unread = r.unread /\ q.lastRead = r.lastRead
      BY <2>4, <2>5, <2>6, <2>7 DEF Alike
    <2> QED
      BY <2>1, <2>2, <2>3, <2>8, SameRows
  <1>2. ASSUME \A r \in R : r.type = t PROVE Retyped(R, t) = R
    <2>1. OneRow(Retyped(R, t)) /\ Alike(Retyped(R, t), R)
      BY <1>2, RetypedRow DEF Alike
    <2> QED
      BY <2>1, RetypedRow, SameRows
  <1> QED
    BY <1>1, <1>2

\* The type is carried along until the next one is set.
LEMMA HandledRetyped ==
  ASSUME NEW e \in Entries, e.kind # "unsent", NEW R, OneRow(R), NEW t
  PROVE  \/ Handled(e, Retyped(R, t)) = Handled(e, R)
         \/ /\ e.kind # "updated"
            /\ Handled(e, Retyped(R, t)) = Retyped(Handled(e, R), t)
  <1>1. e.kind \in {"message", "read", "updated", "archived", "created"}
    BY DEF Entries
  <1>2. PICK P : P = Retyped(R, t)
    OBVIOUS
  <1>3. /\ OneRow(P) /\ (P = {} <=> R = {})
        /\ \A q \in P, r \in R :
               /\ q.unread = r.unread /\ q.lastRead = r.lastRead
               /\ q.type = t /\ q.starred = r.starred /\ q.member = r.member
    BY <1>2, RetypedRow
  <1>4. R = {} \/ \E r \in R, q \in P : TRUE
    BY <1>3
  <1>5. CASE e.kind \in {"message", "read"}
    <2>1. /\ OneRow(Handled(e, P)) /\ OneRow(Handled(e, R))
          /\ (Handled(e, P) = {} <=> P = {}) /\ (Handled(e, R) = {} <=> R = {})
      <3>1. CASE e.kind = "message"
        BY <1>3, <3>1, MessageHandled
      <3>2. CASE e.kind = "read"
        <4>1. Handled(e, P) = Read(P, e.id) /\ Handled(e, R) = Read(R, e.id)
          BY <3>2 DEF Handled
        <4> QED
          BY <1>3, <4>1, ReadHandled
      <3> QED
        BY <1>5, <3>1, <3>2
    <2>2. \A p \in Handled(e, P), q \in Handled(e, R), r \in R :
             /\ p.unread = q.unread /\ p.lastRead = q.lastRead
             /\ p.type = t /\ p.starred = q.starred /\ p.member = q.member
      <3>1. CASE e.kind = "message"
        BY <1>3, <1>4, <3>1, MessageHandled
      <3>2. CASE e.kind = "read"
        <4>1. Handled(e, P) = Read(P, e.id) /\ Handled(e, R) = Read(R, e.id)
          BY <3>2 DEF Handled
        <4> QED
          BY <1>3, <1>4, <4>1, ReadHandled
      <3> QED
        BY <1>5, <3>1, <3>2
    <2>3. PICK S : S = Retyped(Handled(e, R), t)
      OBVIOUS
    <2>4. /\ OneRow(S) /\ (S = {} <=> Handled(e, R) = {})
          /\ \A q \in S, r \in Handled(e, R) :
               /\ q.unread = r.unread /\ q.lastRead = r.lastRead
               /\ q.type = t /\ q.starred = r.starred /\ q.member = r.member
      BY <2>1, <2>3, RetypedRow
    <2>5. R = {} \/ \E r \in R, q \in Handled(e, R) : TRUE
      BY <2>1
    <2>6. /\ Alike(Handled(e, P), S)
          /\ \A q \in Handled(e, P), r \in S :
               q.unread = r.unread /\ q.lastRead = r.lastRead
      BY <1>3, <2>1, <2>2, <2>4, <2>5 DEF Alike
    <2>7. Handled(e, P) = S
      BY <2>1, <2>4, <2>6, SameRows
    <2> QED
      BY <1>2, <1>5, <2>3, <2>7
  <1>6. CASE e.kind = "updated"
    <2>1. Handled(e, P) = {} <=> Handled(e, R) = {}
      BY <1>3, <1>4, <1>6, UpdateHandled
    <2>2. OneRow(Handled(e, P)) /\ OneRow(Handled(e, R))
      BY <1>3, <1>6, UpdateHandled
    <2>3. R = {} => Handled(e, R) = {}
      BY <1>6, UpdateHandled
    <2>4. ASSUME NEW r \in R, NEW p \in P
          PROVE  \A q \in Handled(e, P), s \in Handled(e, R) :
             /\ q.unread = s.unread /\ q.lastRead = s.lastRead
             /\ q.type = s.type /\ q.starred = s.starred /\ q.member = s.member
      BY <1>3, <1>6, UpdateHandled
    <2>5. /\ Alike(Handled(e, P), Handled(e, R))
          /\ \A q \in Handled(e, P), s \in Handled(e, R) :
               q.unread = s.unread /\ q.lastRead = s.lastRead
      BY <1>4, <2>1, <2>3, <2>4 DEF Alike
    <2> QED
      BY <1>2, <2>2, <2>5, SameRows
  <1>7. CASE e.kind = "archived"
    BY <1>7 DEF Handled
  <1>8. CASE e.kind = "created"
    BY <1>2, <1>3, <1>8 DEF Handled
  <1> QED
    BY <1>1, <1>5, <1>6, <1>7, <1>8

-----------------------------------------------------------------------------
(* The counts and positions of the server. *)

\* A set of numbers has a least one.
LEMMA LeastOf ==
  ASSUME NEW T, T \subseteq Nat, T # {}
  PROVE  \E m \in T : \A n \in T : m <= n
  <1> DEFINE F == {0..m : m \in T}
  <1>1. F \subseteq FiniteSubsetsOf(Nat)
    <2>1. \A m \in T : 0..m \in FiniteSubsetsOf(Nat)
      BY FS_Interval DEF FiniteSubsetsOf
    <2> QED
      BY <2>1
  <1>2. F # {}
    OBVIOUS
  <1>3. PICK x \in F : \A y \in F : ~(<<y, x>> \in StrictSubsetOrdering(Nat))
    <2> HIDE DEF F
    <2> QED
      BY <1>1, <1>2, FS_StrictSubsetOrderingWellFounded, WFMin
  <1>4. PICK m \in T : x = 0..m
    OBVIOUS
  <1>5. ASSUME NEW n \in T, n < m PROVE FALSE
    <2>1. 0..n \in F /\ 0..n \in SUBSET Nat /\ 0..m \in SUBSET Nat
      OBVIOUS
    <2>2. 0..n \subseteq 0..m /\ m \in 0..m /\ m \notin 0..n
      BY <1>5
    <2>3. <<0..n, 0..m>> \in StrictSubsetOrdering(Nat)
      BY <2>1, <2>2 DEF StrictSubsetOrdering
    <2> QED
      BY <1>3, <1>4, <2>1, <2>3
  <1> QED
    BY <1>5

\* And a bounded one has a greatest.
LEMMA GreatestOf ==
  ASSUME NEW b \in Nat, NEW T, \A i \in T : i \in 1..b, T # {}
  PROVE  \E m \in T : \A n \in T : n <= m
  <1> DEFINE U == {b - i : i \in T}
  <1>1. U \subseteq Nat /\ U # {}
    OBVIOUS
  <1>2. PICK m \in U : \A n \in U : m <= n
    <2> HIDE DEF U
    <2> QED
      BY <1>1, LeastOf
  <1>3. PICK i \in T : m = b - i
    BY <1>2
  <1>4. \A n \in T : b - i <= b - n
    BY <1>2, <1>3
  <1> QED
    BY <1>4

LEMMA LatestIsMessage ==
  ASSUME ServerOK, NEW id
  PROVE  LatestBefore(id) \in 0..Len(log)
  <1> DEFINE live == {i \in DOMAIN log : i < id /\ log[i] \in {"other", "own"}}
  <1>1. Len(log) \in Nat /\ DOMAIN log = 1..Len(log)
    BY DEF ServerOK, InOrder
  <1>2. live = {} \/ \E i \in live : \A j \in live : j <= i
    <2>1. \A i \in live : i \in 1..Len(log)
      BY <1>1
    <2> HIDE DEF live
    <2> QED
      BY <1>1, <2>1, GreatestOf
  <1>3. LatestBefore(id) = 0 \/ LatestBefore(id) \in live
    BY <1>2 DEF LatestBefore
  <1> QED
    BY <1>1, <1>3

Counting(l, id) == {i \in DOMAIN l : i > id /\ l[i] \in {"other", "own"}}

LEMMA CountAfter ==
  ASSUME NEW l \in Seq({"other", "own", "gone"}), NEW id \in 0..Len(l)
  PROVE  /\ Cardinality(Counting(l, id)) \in Nat
         /\ Cardinality(Counting(Append(l, "other"), id)) =
              Cardinality(Counting(l, id)) + 1
  <1>1. Len(l) \in Nat /\ DOMAIN l = 1..Len(l)
    OBVIOUS
  <1>2. IsFiniteSet(Counting(l, id))
    <2>1. IsFiniteSet(1..Len(l))
      BY <1>1, FS_Interval
    <2> QED
      BY <1>1, <2>1, FS_Subset DEF Counting
  <1>3. Len(l) + 1 \notin Counting(l, id)
    BY <1>1 DEF Counting
  <1>4. Counting(Append(l, "other"), id) = Counting(l, id) \cup {Len(l) + 1}
    <2> DEFINE m == Append(l, "other")
    <2>1. /\ DOMAIN m = 1..(Len(l) + 1) /\ m[Len(l) + 1] = "other"
          /\ \A i \in 1..Len(l) : m[i] = l[i]
      BY <1>1, AppendProperties
    <2>2. \A i \in DOMAIN m : i \in 1..Len(l) \/ i = Len(l) + 1
      BY <1>1, <2>1
    <2>3. Len(l) + 1 > id
      BY <1>1
    <2> HIDE DEF m
    <2>4. \A i : i \in Counting(m, id) <=> i \in Counting(l, id) \cup {Len(l) + 1}
      BY <1>1, <2>1, <2>2, <2>3 DEF Counting
    <2> QED
      BY <2>4 DEF m
  <1> QED
    BY <1>2, <1>3, <1>4, FS_AddElement, FS_CardinalityType

\* The row that the server answers.
Shown(c, m) == c.state = "open" /\ (c.type = "public" \/ m.member)

RowOf(c, m, l) ==
    IF Shown(c, m)
    THEN {[unread |-> Cardinality(Counting(l, m.lastRead)), type |-> c.type,
           lastRead |-> m.lastRead, starred |-> m.starred, member |-> m.member]}
    ELSE {}

LEMMA ServerRowOf ==
  /\ ServerRow = RowOf(chan, mine, log)
  /\ ServerRow' = RowOf(chan', mine', log')
  BY DEF ServerRow, RowOf, Listed, Shown, UnreadAfter, Counting

\* The row of a channel c and a membership m, with n unread messages.
Fits(R, c, m, n) ==
    /\ OneRow(R) /\ (R = {} <=> ~Shown(c, m))
    /\ \A r \in R :
          /\ r.unread = n /\ r.type = c.type /\ r.lastRead = m.lastRead
          /\ r.starred = m.starred /\ r.member = m.member

LEMMA FitsOnce ==
  ASSUME NEW Q, NEW R, NEW c, NEW m, NEW n, Fits(Q, c, m, n), Fits(R, c, m, n)
  PROVE  Q = R
  <1>1. Alike(Q, R)
    BY DEF Fits, Alike
  <1> QED
    BY <1>1, SameRows DEF Fits

LEMMA RowFits ==
  ASSUME NEW c, NEW m, NEW l, InOrder(c, m, l)
  PROVE  Fits(RowOf(c, m, l), c, m, Cardinality(Counting(l, m.lastRead)))
  <1> DEFINE n == Cardinality(Counting(l, m.lastRead))
  <1>1. n \in Nat
    BY CountAfter DEF InOrder
  <1>2. m.starred \in BOOLEAN /\ m.member \in BOOLEAN
    BY DEF InOrder
  <1> HIDE DEF n
  <1>3. RowOf(c, m, l) =
          IF Shown(c, m)
          THEN {[unread |-> n, type |-> c.type, lastRead |-> m.lastRead,
                 starred |-> m.starred, member |-> m.member]} ELSE {}
    BY DEF RowOf, n
  <1>4. \A r \in RowOf(c, m, l) :
           /\ IsRow(r) /\ r.unread = n
           /\ r.type = c.type /\ r.lastRead = m.lastRead
           /\ r.starred = m.starred /\ r.member = m.member
    BY <1>2, <1>3 DEF IsRow
  <1>5. OneRow(RowOf(c, m, l))
    BY <1>1, <1>3, <1>4 DEF OneRow
  <1>6. RowOf(c, m, l) = {} <=> ~Shown(c, m)
    BY <1>3
  <1> QED
    BY <1>4, <1>5, <1>6 DEF n, Fits

LEMMA ServerFits ==
  ASSUME ServerOK
  PROVE  Fits(ServerRow, chan, mine, Cardinality(Counting(log, mine.lastRead)))
  BY RowFits, ServerRowOf DEF ServerOK

LEMMA ServerWillFit ==
  ASSUME ServerOK'
  PROVE  Fits(ServerRow', chan', mine',
              Cardinality(Counting(log', mine'.lastRead)))
  BY RowFits, ServerRowOf DEF ServerOK

\* The handlers' rows fit what has changed.
LEMMA MessageFits ==
  ASSUME NEW e, e.kind = "message", NEW R, NEW c, NEW m, NEW n, Fits(R, c, m, n)
  PROVE  Fits(Handled(e, R), c, m, n + 1)
  <1>1. R = {} \/ \E r \in R : TRUE
    OBVIOUS
  <1> QED
    BY <1>1, MessageHandled DEF Fits

LEMMA ReadFits ==
  ASSUME NEW e, e.kind = "read", NEW R, NEW c, NEW m, NEW n, Fits(R, c, m, n),
         NEW p, p.lastRead = e.id, p.starred = m.starred, p.member = m.member
  PROVE  Fits(Handled(e, R), c, p, 0)
  <1>1. Handled(e, R) = Read(R, e.id)
    BY DEF Handled
  <1>2. R = {} \/ \E r \in R : TRUE
    OBVIOUS
  <1> QED
    BY <1>1, <1>2, ReadHandled DEF Fits, Shown

LEMMA UpdateFits ==
  ASSUME NEW e, e.kind = "updated", NEW R, R # {}, NEW c, NEW m, NEW n,
         Fits(R, c, m, n), NEW d, d.state = c.state, d.type = e.type
  PROVE  Fits(Handled(e, R), d, m, n)
  <1>1. PICK r \in R : r.member = m.member
    BY DEF Fits
  <1>2. /\ OneRow(Handled(e, R))
        /\ (m.member \/ e.type = "public") <=> Handled(e, R) # {}
    BY <1>1, UpdateHandled DEF Fits
  <1>3. Shown(d, m) <=> m.member \/ e.type = "public"
    BY DEF Fits, Shown
  <1>4. r.unread = n /\ r.lastRead = m.lastRead /\ r.starred = m.starred
    BY DEF Fits
  <1>5. \A q \in Handled(e, R) :
          /\ q.unread = n /\ q.type = e.type /\ q.lastRead = m.lastRead
          /\ q.starred = m.starred /\ q.member = m.member
    BY <1>1, <1>4, UpdateHandled DEF Fits
  <1> QED
    BY <1>2, <1>3, <1>5 DEF Fits

-----------------------------------------------------------------------------
(* What the server does: each change puts an entry into the stream that    *)
(* tells the new row, or skews.                                             *)

Tells(e) ==
    /\ e \in Entries /\ stream' = Append(stream, e)
    /\ passed' = passed /\ sent' = sent
    /\ Skews(e, ServerRow) \/ ServerRow' = Handled(e, ServerRow)

Changes ==
    /\ ServerOK' /\ 0..Len(log) \subseteq 0..Len(log')
    /\ \E e : Tells(e)

LEMMA Untold ==
  ASSUME Emit(Silent)
  PROVE  \E d : Tells(d)
  <1>1. Silent \in Entries /\ Skews(Silent, ServerRow)
    BY DEF Entries, Skews, Silent
  <1> QED
    BY <1>1 DEF Tells, Emit

LEMMA ToldOf ==
  ASSUME NEW e \in Entries, Emit(e),
         Skews(e, ServerRow) \/ ServerRow' = Handled(e, ServerRow)
  PROVE  \E d : Tells(d)
  BY DEF Emit, Tells

LEMMA KindOf ==
  /\ \A by \in {"other", "own", "reply"} :
        /\ OfMessage(by) \in Entries /\ OfMessage(by).kind = "message"
        /\ OfMessage(by).by = by
  /\ \A id \in Nat, exact \in BOOLEAN, at \in Nat :
        /\ OfRead(id, exact, at) \in Entries
        /\ OfRead(id, exact, at).kind = "read" /\ OfRead(id, exact, at).id = id
        /\ OfRead(id, exact, at).exact = exact
  /\ \A kind \in {"updated", "created", "archived"},
        type \in {"public", "private"}, at \in Nat :
        /\ OfChannel(kind, type, at) \in Entries
        /\ OfChannel(kind, type, at).kind = kind
        /\ OfChannel(kind, type, at).type = type
  BY DEF OfMessage, OfRead, OfChannel, Entries

LEMMA CreateTells ==
  ASSUME ServerOK, NEW type \in {"public", "private"}, CreateChannel(type)
  PROVE  Changes
  <1>1. /\ mine = NotMember /\ log = <<>> /\ mine' = mine /\ log' = log
        /\ chan' = [state |-> "open", type |-> type] /\ chan.state = "none"
    BY DEF CreateChannel, ServerOK
  <1>2. ServerOK' /\ 0..Len(log) \subseteq 0..Len(log')
    BY <1>1 DEF ServerOK, InOrder
  <1>3. PICK e \in Entries : e.kind = "created" /\ e.type = type /\ Emit(e)
    BY KindOf DEF CreateChannel
  <1>4. CASE type = "public"
    <2>1. ServerRow = {}
      BY <1>1, ServerFits DEF Fits, Shown
    <2>2. Handled(e, ServerRow) = {Fresh("public")}
      BY <1>3, <1>4, <2>1 DEF Handled
    <2>3. Counting(log', 0) = {}
      BY <1>1 DEF Counting
    <2>4. Cardinality(Counting(log', 0)) = 0
      BY <2>3, FS_EmptySet
    <2>5. ServerRow' = {Fresh("public")}
      <3>1. RowOf(chan', mine', log') =
              {[unread |-> 0, type |-> "public", lastRead |-> 0,
                starred |-> FALSE, member |-> FALSE]}
        BY <1>1, <1>4, <2>4 DEF RowOf, Shown, NotMember
      <3> QED
        BY <3>1, ServerRowOf DEF Fresh
    <2> QED
      BY <1>2, <1>3, <2>2, <2>5, ToldOf DEF Changes
  <1>5. CASE type = "private"
    BY <1>2, <1>3, <1>5, ToldOf DEF Changes, Skews
  <1> QED
    BY <1>4, <1>5

LEMMA PostTells ==
  ASSUME ServerOK, NEW by \in {"other", "own", "reply"}, PostMessage(by)
  PROVE  Changes
  <1>1. /\ chan' = chan /\ mine' = mine /\ chan.state = "open"
        /\ log' = IF by = "reply" THEN log ELSE Append(log, by)
        /\ InOrder(chan, mine, log)
    BY DEF PostMessage, ServerOK, InOrder
  <1>2. PICK e \in Entries : e.kind = "message" /\ e.by = by /\ Emit(e)
    BY KindOf DEF PostMessage
  <1>3. ServerOK' /\ 0..Len(log) \subseteq 0..Len(log')
    <2>1. log' \in Seq({"other", "own", "gone"}) /\ Len(log') >= Len(log)
      BY <1>1 DEF InOrder
    <2>2. 0..Len(log) \subseteq 0..Len(log')
      BY <1>1, <2>1 DEF InOrder
    <2> QED
      BY <1>1, <2>1, <2>2 DEF ServerOK, InOrder
  <1>4. CASE by # "other"
    BY <1>2, <1>3, <1>4, ToldOf DEF Skews, Changes
  <1>5. CASE by = "other"
    <2> DEFINE n == Cardinality(Counting(log, mine.lastRead))
    <2>1. /\ n \in Nat
          /\ Cardinality(Counting(log', mine'.lastRead)) = n + 1
      BY <1>1, <1>5, CountAfter DEF InOrder
    <2> HIDE DEF n
    <2>2. Fits(ServerRow', chan, mine, n + 1)
      BY <1>1, <1>3, <2>1, ServerWillFit
    <2>3. Fits(Handled(e, ServerRow), chan, mine, n + 1)
      BY <1>2, ServerFits, MessageFits DEF n
    <2>4. ServerRow' = Handled(e, ServerRow)
      BY <2>2, <2>3, FitsOnce
    <2> QED
      BY <1>2, <1>3, <2>4, ToldOf DEF Changes
  <1> QED
    BY <1>4, <1>5

LEMMA DeleteTells ==
  ASSUME ServerOK, NEW i \in DOMAIN log, DeleteMessage(i)
  PROVE  Changes
  <1>1. /\ chan' = chan /\ mine' = mine /\ Emit(Silent)
        /\ log' = [log EXCEPT ![i] = "gone"]
    BY DEF DeleteMessage
  <1>2. log' \in Seq({"other", "own", "gone"}) /\ Len(log') = Len(log)
    BY <1>1 DEF ServerOK, InOrder
  <1>3. log # <<>>
    OBVIOUS
  <1>4. ServerOK' /\ 0..Len(log) \subseteq 0..Len(log')
    BY <1>1, <1>2, <1>3 DEF ServerOK, InOrder
  <1> QED
    BY <1>1, <1>4, Untold DEF Changes

LEMMA TypeTells ==
  ASSUME ServerOK, NEW type \in {"public", "private"}, NEW at \in Nat,
         SetType(type, at)
  PROVE  Changes
  <1>1. /\ chan' = [chan EXCEPT !.type = type] /\ mine' = mine /\ log' = log
        /\ chan.state # "none" /\ InOrder(chan, mine, log)
    BY DEF SetType, ServerOK
  <1>2. PICK e \in Entries : e.kind = "updated" /\ e.type = type /\ Emit(e)
    BY KindOf DEF SetType
  <1>3. chan'.state = chan.state /\ chan'.type = type
    BY <1>1 DEF InOrder
  <1>4. ServerOK' /\ 0..Len(log) \subseteq 0..Len(log')
    BY <1>1, <1>3 DEF ServerOK, InOrder
  <1>5. CASE ServerRow = {}
    BY <1>2, <1>4, <1>5, ToldOf DEF Skews, Changes
  <1>6. CASE ServerRow # {}
    <2> DEFINE n == Cardinality(Counting(log, mine.lastRead))
    <2>1. Fits(ServerRow', chan', mine, n)
      BY <1>1, <1>4, ServerWillFit
    <2>2. Fits(ServerRow, chan, mine, n)
      BY ServerFits
    <2> HIDE DEF n
    <2>3. Fits(Handled(e, ServerRow), chan', mine, n)
      BY <1>2, <1>3, <1>6, <2>2, UpdateFits
    <2>4. ServerRow' = Handled(e, ServerRow)
      BY <2>1, <2>3, FitsOnce
    <2> QED
      BY <1>2, <1>4, <2>4, ToldOf DEF Changes
  <1> QED
    BY <1>5, <1>6

LEMMA ArchiveTells ==
  ASSUME ServerOK, NEW at \in Nat, Archive(at)
  PROVE  Changes
  <1>1. /\ chan' = [chan EXCEPT !.state = "archived"] /\ mine' = mine
        /\ log' = log /\ chan.type \in {"public", "private"}
        /\ InOrder(chan, mine, log)
    BY DEF Archive, ServerOK, InOrder
  <1>2. PICK e \in Entries : e.kind = "archived" /\ Emit(e)
    BY <1>1, KindOf DEF Archive
  <1>3. chan'.state = "archived"
    BY <1>1 DEF InOrder
  <1>4. ServerOK' /\ 0..Len(log) \subseteq 0..Len(log')
    BY <1>1, <1>3 DEF ServerOK, InOrder
  <1>5. ServerRow' = {}
    BY <1>3, <1>4, ServerWillFit DEF Fits, Shown
  <1>6. Handled(e, ServerRow) = {}
    BY <1>2 DEF Handled
  <1> QED
    BY <1>2, <1>4, <1>5, <1>6, ToldOf DEF Changes

LEMMA ReadTells ==
  ASSUME ServerOK, NEW id \in 0..Len(log), NEW at \in Nat, ReadUpTo(id, at)
  PROVE  Changes
  <1>1. /\ mine' = IF mine.member THEN [mine EXCEPT !.lastRead = id] ELSE mine
        /\ chan' = chan /\ log' = log /\ InOrder(chan, mine, log)
    BY DEF ReadUpTo, ServerOK
  <1>2. PICK exact \in BOOLEAN : exact = (mine.member /\ UnreadAfter(id) = 0)
    <2>1. (mine.member /\ UnreadAfter(id) = 0) \in BOOLEAN
      BY <1>1 DEF InOrder
    <2> QED
      BY <2>1
  <1>3. PICK e \in Entries :
          e.kind = "read" /\ e.id = id /\ e.exact = exact /\ Emit(e)
    <2>1. id \in Nat /\ Emit(OfRead(id, exact, at))
      BY <1>1, <1>2 DEF ReadUpTo, InOrder
    <2> QED
      BY <2>1, KindOf
  <1>4. mine.member =>
          /\ mine'.lastRead = id /\ mine'.starred = mine.starred
          /\ mine'.member = mine.member
    BY <1>1 DEF InOrder
  <1>5. ServerOK' /\ 0..Len(log) \subseteq 0..Len(log')
    <2>1. mine' \in [member : BOOLEAN, lastRead : 0..Len(log), starred : BOOLEAN]
      BY <1>1 DEF InOrder
    <2>2. chan.state = "none" => mine' = mine
      BY <1>1 DEF ServerOK, NotMember
    <2> QED
      BY <1>1, <2>1, <2>2 DEF ServerOK, InOrder
  <1>6. CASE ~exact
    BY <1>3, <1>5, <1>6, ToldOf DEF Changes, Skews
  <1>7. CASE exact
    <2>1. mine.member /\ UnreadAfter(id) = 0
      BY <1>2, <1>7
    <2>2. Cardinality(Counting(log', mine'.lastRead)) = 0
      <3>1. mine'.lastRead = id /\ log' = log
        BY <1>1, <1>4, <2>1
      <3> QED
        BY <2>1, <3>1 DEF UnreadAfter, Counting
    <2>3. Fits(ServerRow', chan, mine', 0)
      BY <1>1, <1>5, <2>2, ServerWillFit
    <2>4. Fits(Handled(e, ServerRow), chan, mine', 0)
      BY <1>3, <1>4, <2>1, ServerFits, ReadFits
    <2>5. ServerRow' = Handled(e, ServerRow)
      BY <2>3, <2>4, FitsOnce
    <2> QED
      BY <1>3, <1>5, <2>5, ToldOf DEF Changes
  <1> QED
    BY <1>6, <1>7

\* What changes the membership sends nothing.
LEMMA MemberTells ==
  ASSUME ServerOK, chan.state # "none", NEW yes \in BOOLEAN,
         SetMember(yes) \/ SetStar(yes)
  PROVE  Changes
  <1>1. chan' = chan /\ log' = log /\ Emit(Silent)
    BY DEF SetMember, SetStar
  <1>2. mine' \in [member : BOOLEAN, lastRead : 0..Len(log), starred : BOOLEAN]
    <2>1. NotMember \in [member : BOOLEAN, lastRead : 0..Len(log), starred : BOOLEAN]
      <3>1. 0 \in 0..Len(log)
        BY DEF ServerOK, InOrder
      <3> QED
        BY <3>1 DEF NotMember
    <2>2. mine \in [member : BOOLEAN, lastRead : 0..Len(log), starred : BOOLEAN]
      BY DEF ServerOK, InOrder
    <2>3. \/ mine' = mine \/ mine' = [NotMember EXCEPT !.member = yes]
          \/ mine' = [mine EXCEPT !.starred = yes]
      BY DEF SetMember, SetStar
    <2> HIDE DEF NotMember
    <2> QED
      BY <2>1, <2>2, <2>3
  <1>3. ServerOK' /\ 0..Len(log) \subseteq 0..Len(log')
    BY <1>1, <1>2 DEF ServerOK, InOrder
  <1> QED
    BY <1>1, <1>3, Untold DEF Changes

\* What others do.
LEMMA ElsewhereTells ==
  ASSUME ServerOK, Elsewhere
  PROVE  Changes
  <1>1. CASE chan.state = "open" /\ ~mine.member /\ SetMember(TRUE)
    BY <1>1, MemberTells
  <1>2. CASE \E id \in 0..Len(log) : ReadUpTo(id, 0)
    BY <1>2, ReadTells
  <1>3. CASE \/ \E type \in {"public", "private"} : SetType(type, 0)
             \/ Archive(0)
    BY <1>3, TypeTells, ArchiveTells
  <1> QED
    BY <1>1, <1>2, <1>3, CreateTells, PostTells, DeleteTells DEF Elsewhere

\* What the user asks for.
LEMMA DoesTells ==
  ASSUME ServerOK, Now \in Nat, NEW op, Does(op)
  PROVE  Changes /\ op \notin Reads
  <1>1. mine.member => chan.state # "none"
    BY DEF ServerOK, NotMember
  <1>2. CASE \/ op = "star" /\ mine.member /\ SetStar(TRUE)
             \/ op = "unstar" /\ mine.member /\ SetStar(FALSE)
             \/ op = "leave" /\ mine.member /\ SetMember(FALSE)
    BY <1>1, <1>2, MemberTells DEF Reads, Changes
  <1>3. CASE op = "join" /\ chan = [state |-> "open", type |-> "public"]
               /\ SetMember(TRUE)
    BY <1>3, MemberTells DEF Reads, Changes
  <1>4. CASE op = "archive" /\ Archive(Now + 1)
    BY <1>4, ArchiveTells DEF Reads, Changes
  <1>5. CASE /\ op = "update"
             /\ \E type \in {"public", "private"} : SetType(type, Now + 1)
    BY <1>5, TypeTells DEF Reads, Changes
  <1> QED
    BY <1>2, <1>3, <1>4, <1>5 DEF Does

-----------------------------------------------------------------------------
(* The history goes on: a change of the server adds a row to it.           *)

\* An answer that was right stays right, of the same time, if the entries on
\* their way stay or come to skew.
LEMMA AnswerStays ==
  ASSUME passed \in Nat, stream \in Seq(Entries), stream' \in Seq(Entries),
         passed' = passed, Len(stream') >= Len(stream),
         \A i \in 1..Len(stream) :
             stream'[i] = stream[i] \/ \A R : Skews(stream'[i], R),
         0..Len(log) \subseteq 0..Len(log'),
         NEW req, NEW h, AnswerOK(req, h),
         NEW g, \A i \in 0..Len(stream) : g[i] = h[i]
  PROVE  AnswerOK(req, g)'
  <1>1. Len(stream) \in Nat /\ Len(stream') \in Nat
    OBVIOUS
  <1>2. \A a \in Nat : a <= passed + Len(stream) => a <= passed + Len(stream')
    BY <1>1
  <1>3. \A a \in Nat : a <= passed + Len(stream) /\ a >= passed =>
                          g[a - passed] = h[a - passed]
    <2> TAKE a \in Nat
    <2>1. a <= passed + Len(stream) /\ a >= passed =>
            a - passed \in 0..Len(stream)
      BY <1>1
    <2> QED
      BY <2>1
  <1>4. FoundOK(req)'
    BY DEF AnswerOK, FoundOK
  <1>5. ReadOK(req, g)'
    <2> SUFFICES ASSUME req.stage \in {"written", "done"},
                        req.op \in {"read", "readAll"}
                 PROVE  /\ req.at \in Nat /\ req.at <= passed + Len(stream')
                        /\ req.exact /\ req.at >= passed =>
                              \A r \in g[req.at - passed] :
                                  /\ r.unread = 0
                                  /\ req.op = "read" => r.lastRead = req.id
      BY DEF ReadOK, Now
    <2>1. /\ req.at \in Nat /\ req.at <= passed + Len(stream)
          /\ req.exact /\ req.at >= passed =>
                \A r \in h[req.at - passed] :
                    /\ r.unread = 0
                    /\ req.op = "read" => r.lastRead = req.id
      BY DEF AnswerOK, ReadOK, Now
    <2> QED
      BY <1>2, <1>3, <2>1
  <1>6. UpdateOK(req, g)'
    <2> SUFFICES ASSUME req.stage \in {"written", "done"}, req.op = "update"
                 PROVE  /\ req.at \in Nat /\ req.at <= passed + Len(stream')
                        /\ req.at >= passed =>
                              \A r \in g[req.at - passed] : r.type = req.type
                        /\ req.at > passed =>
                              \/ Skews(stream'[req.at - passed],
                                       g[(req.at - passed) - 1])
                              \/ stream'[req.at - passed].kind = "updated"
      BY DEF UpdateOK, Now
    <2>1. /\ req.at \in Nat /\ req.at <= passed + Len(stream)
          /\ req.at >= passed =>
                \A r \in h[req.at - passed] : r.type = req.type
          /\ req.at > passed =>
                \/ Skews(stream[req.at - passed], h[(req.at - passed) - 1])
                \/ stream[req.at - passed].kind = "updated"
      BY DEF AnswerOK, UpdateOK, Now
    <2>2. ASSUME req.at > passed
          PROVE  \/ Skews(stream'[req.at - passed], g[(req.at - passed) - 1])
                 \/ stream'[req.at - passed].kind = "updated"
      <3>1. PICK i : i = req.at - passed
        OBVIOUS
      <3>2. i \in 1..Len(stream) /\ i - 1 \in 0..Len(stream)
        <4>1. PICK n, m, p : n = Len(stream) /\ m = req.at /\ p = passed
          OBVIOUS
        <4>2. n \in Nat /\ m \in Nat /\ p \in Nat /\ m <= p + n /\ m > p
          BY <1>1, <2>1, <2>2, <4>1
        <4> QED
          BY <3>1, <4>1, <4>2
      <3>3. g[i - 1] = h[i - 1]
        BY <3>2
      <3>4. Skews(stream[i], h[i - 1]) \/ stream[i].kind = "updated"
        BY <2>1, <2>2, <3>1
      <3>5. Skews(stream'[i], g[i - 1]) \/ stream'[i].kind = "updated"
        BY <3>2, <3>3, <3>4
      <3> QED
        BY <3>1, <3>5
    <2> QED
      BY <1>2, <1>3, <2>1, <2>2
  <1> QED
    BY <1>4, <1>5, <1>6 DEF AnswerOK

LEMMA AddToHistory ==
  ASSUME FollowInv, NEW h, HistoryOK(h), Changes, UNCHANGED <<row, fetch, skewed>>
  PROVE  \E g : /\ Past(g)' /\ Steady(g)' /\ RowOK(g)' /\ ListFetchOK(g)'
                /\ \A req \in reqs : AnswerOK(req, g)'
                /\ g[Len(stream')] = ServerRow'
  <1> DEFINE n == Len(stream)
  <1>1. PICK e : Tells(e)
    BY DEF Changes
  <1>2. ServerOK /\ ServerOK' /\ stream \in Seq(Entries) /\ passed \in Nat
    BY DEF FollowInv, Changes
  <1>3. /\ n \in Nat /\ Len(stream') = n + 1 /\ passed' = passed
        /\ \A i \in 1..n : stream'[i] = stream[i]
        /\ stream'[n + 1] = e
    BY <1>1, <1>2, AppendProperties DEF Tells
  <1>4. PICK g : g = [i \in 0..(n + 1) |-> IF i <= n THEN h[i] ELSE ServerRow']
    OBVIOUS
  <1>5. (\A i \in 0..n : g[i] = h[i]) /\ g[n + 1] = ServerRow'
    BY <1>3, <1>4
  <1>6. (\A i \in 0..(n + 1) : i \in 0..n \/ i = n + 1)
        /\ (\A i \in 1..(n + 1) : i \in 1..n \/ i = n + 1)
    BY <1>3
  <1>7. h[n] = ServerRow /\ (\A i \in 0..n : OneRow(h[i]))
        /\ \A i \in 1..n :
             Skews(stream[i], h[i - 1]) \/ h[i] = Handled(stream[i], h[i - 1])
    BY DEF HistoryOK, Past
  <1> HIDE DEF n
  <1>8. Past(g)'
    <2>1. \A i \in 0..(n + 1) : OneRow(g[i])
      BY <1>2, <1>5, <1>6, <1>7, ServerWillFit DEF Fits
    <2>2. ASSUME NEW i \in 1..(n + 1)
          PROVE  Skews(stream'[i], g[i - 1])
                   \/ g[i] = Handled(stream'[i], g[i - 1])
      <3>1. CASE i \in 1..n
        <4>1. i - 1 \in 0..n /\ i \in 0..n
          BY <1>3, <3>1
        <4> QED
          BY <1>3, <1>5, <1>7, <3>1, <4>1
      <3>2. CASE i = n + 1
        <4>1. g[i - 1] = ServerRow /\ g[i] = ServerRow' /\ stream'[i] = e
          BY <1>3, <1>5, <1>7, <3>2
        <4> QED
          BY <1>1, <4>1 DEF Tells
      <3> QED
        BY <1>6, <3>1, <3>2
    <2> QED
      BY <1>3, <1>5, <2>1, <2>2 DEF Past
  <1>9. ASSUME NEW k \in 0..n, Broken(h, k) PROVE Broken(g, k)'
    <2>1. CASE \E i \in (k + 1)..n :
                 Skews(stream[i], h[i - 1]) \/ stream[i].kind = "read"
      <3>1. PICK i \in (k + 1)..n :
              Skews(stream[i], h[i - 1]) \/ stream[i].kind = "read"
        BY <2>1
      <3>2. i \in 1..n /\ i - 1 \in 0..n /\ i \in (k + 1)..(n + 1)
        BY <1>3
      <3> QED
        BY <1>3, <1>5, <3>1, <3>2 DEF Broken
    <2>2. CASE \E i \in k..n : h[i] = {}
      <3>1. PICK i \in k..n : h[i] = {}
        BY <2>2
      <3>2. i \in 0..n /\ i \in k..(n + 1)
        BY <1>3
      <3> QED
        BY <1>3, <1>5, <3>1, <3>2 DEF Broken
    <2> QED
      BY <1>9, <2>1, <2>2 DEF Broken, n
  <1>10. Steady(g)'
    <2> SUFFICES ASSUME NEW k \in 0..(n + 1), ~Broken(g, k)', NEW r \in g[k]
                 PROVE  r.lastRead = mine'.lastRead
      BY <1>3 DEF Steady
    <2>1. CASE k = n + 1
      BY <1>2, <1>5, <2>1, ServerWillFit DEF Fits
    <2>2. CASE k \in 0..n
      <3>1. \A s \in h[k] : s.lastRead = mine.lastRead
        BY <1>9, <2>2 DEF HistoryOK, Steady, n
      <3>2. g[n] # {} /\ g[n + 1] # {}
        <4>1. n \in k..(n + 1) /\ n + 1 \in k..(n + 1)
          BY <1>3, <2>2
        <4> QED
          BY <1>3, <4>1 DEF Broken
      <3>3. ~Skews(e, ServerRow) /\ e.kind # "read"
        <4>1. n + 1 \in (k + 1)..(n + 1) /\ (n + 1) - 1 = n /\ n \in 0..n
          BY <1>3, <2>2
        <4>2. g[(n + 1) - 1] = ServerRow
          BY <1>5, <1>7, <4>1
        <4> QED
          BY <1>3, <4>1, <4>2 DEF Broken
      <3>4. ServerRow # {} /\ ServerRow' # {} /\ ServerRow' = Handled(e, ServerRow)
        BY <1>1, <1>3, <1>5, <1>7, <3>2, <3>3 DEF Tells
      <3>5. e.kind # "unsent" /\ e \in Entries
        BY <1>1, <3>3 DEF Skews, Tells
      <3>6. PICK s \in ServerRow, q \in ServerRow' : TRUE
        BY <3>4
      <3>7. q.lastRead = s.lastRead
        BY <1>2, <3>3, <3>4, <3>5, <3>6, ServerFits, HandledKeepsPosition DEF Fits
      <3>8. s.lastRead = mine.lastRead /\ q.lastRead = mine'.lastRead
        BY <1>2, <3>6, ServerFits, ServerWillFit DEF Fits
      <3> QED
        BY <1>5, <2>2, <3>1, <3>7, <3>8
    <2> QED
      BY <1>6, <2>1, <2>2
  <1>11. RowOK(g)'
    <2>1. RowOK(h) /\ g[0] = h[0] /\ 0 \in 0..n
      BY <1>3, <1>5 DEF HistoryOK
    <2>2. ASSUME NEW Q, CatchesUp(Q, h) PROVE CatchesUp(Q, g)'
      <3>1. PICK k \in 0..n : \A r \in h[k] : r.unread = 0
        BY <2>2 DEF CatchesUp, n
      <3>2. k \in 0..(n + 1) /\ g[k] = h[k]
        BY <1>3, <1>5
      <3>3. Close(Q, g[0])
        BY <2>1, <2>2 DEF CatchesUp
      <3> QED
        BY <1>3, <3>1, <3>2, <3>3 DEF CatchesUp
    <2>3. Broken(h, 0) => Broken(g, 0)'
      BY <1>9, <2>1
    <2>4. ASSUME NEW Q, Known(Q, h) PROVE Known(Q, g)'
      BY <2>1, <2>2, <2>3, <2>4 DEF Known
    <2>5. TypeComes(h) => TypeComes(g)'
      <3> SUFFICES ASSUME TypeComes(h) PROVE TypeComes(g)'
        OBVIOUS
      <3>1. PICK i \in 1..n :
              Skews(stream[i], h[i - 1]) \/ stream[i].kind = "updated"
        BY DEF TypeComes, n
      <3>2. i \in 1..(n + 1) /\ i - 1 \in 0..n
        BY <1>3
      <3>3. stream'[i] = stream[i] /\ g[i - 1] = h[i - 1]
        BY <1>3, <1>5, <3>2
      <3> QED
        BY <1>3, <3>1, <3>2, <3>3 DEF TypeComes
    <2> QED
      BY <2>1, <2>4, <2>5 DEF RowOK
  <1>12. ListFetchOK(g)'
    <2> SUFFICES ASSUME fetch.stage = "answered"
                 PROVE  /\ fetch.at \in Nat /\ fetch.at <= passed + (n + 1)
                        /\ fetch.at >= passed => fetch.rows = g[fetch.at - passed]
      BY <1>3 DEF ListFetchOK, Now
    <2>1. /\ fetch.at \in Nat /\ fetch.at <= passed + n
          /\ fetch.at >= passed => fetch.rows = h[fetch.at - passed]
      BY DEF HistoryOK, ListFetchOK, Now, n
    <2>2. fetch.at >= passed => fetch.at - passed \in 0..n
      BY <1>2, <1>3, <2>1
    <2> QED
      BY <1>2, <1>3, <1>5, <2>1, <2>2
  <1>13. ASSUME NEW req \in reqs PROVE AnswerOK(req, g)'
    <2>1. AnswerOK(req, h)
      BY DEF HistoryOK
    <2>2. \A i \in 1..Len(stream) :
             \/ stream'[i] = stream[i] \/ \A R : Skews(stream'[i], R)
      BY <1>3 DEF n
    <2>3. 0..Len(log) \subseteq 0..Len(log')
      BY DEF Changes
    <2>4. Len(stream') >= Len(stream) /\ stream' \in Seq(Entries)
      BY <1>1, <1>2, <1>3 DEF Tells, n
    <2> QED
      BY <1>2, <1>3, <1>5, <2>1, <2>2, <2>3, <2>4, AnswerStays DEF n
  <1> QED
    BY <1>3, <1>5, <1>8, <1>10, <1>11, <1>12, <1>13 DEF n

\* An entry passes, and its handler does to the row what the server did.
LEMMA DropFromHistory ==
  ASSUME FollowInv, NEW h, HistoryOK(h), stream # <<>>, stream' = Tail(stream),
         passed' = passed + 1, UNCHANGED <<server, fetch, reqs>>,
         ~skewed' => /\ ~skewed /\ ~Skews(Head(stream), row)
                     /\ row' = Handled(Head(stream), row)
  PROVE  \E g : HistoryOK(g)'
  <1> DEFINE n == Len(stream)
  <1> PICK e : e = Head(stream)
    OBVIOUS
  <1>1. stream \in Seq(Entries) /\ passed \in Nat
    BY DEF FollowInv
  <1>2. /\ n \in Nat /\ n >= 1 /\ Len(stream') = n - 1
        /\ \A i \in 1..(n - 1) : stream'[i] = stream[i + 1]
        /\ e = stream[1] /\ e \in Entries
    BY <1>1
  <1>3. PICK g : g = [i \in 0..(n - 1) |-> h[i + 1]]
    OBVIOUS
  <1>4. \A i \in 0..(n - 1) : g[i] = h[i + 1]
    BY <1>3
  <1>5. h[n] = ServerRow /\ (\A i \in 0..n : OneRow(h[i]))
        /\ \A i \in 1..n :
             Skews(stream[i], h[i - 1]) \/ h[i] = Handled(stream[i], h[i - 1])
    BY DEF HistoryOK, Past
  <1>6. mine' = mine /\ ServerRow' = ServerRow
    BY ServerRowOf DEF server
  <1> HIDE DEF n
  <1>7. Past(g)'
    <2>1. g[n - 1] = ServerRow'
      <3>1. n - 1 \in 0..(n - 1) /\ (n - 1) + 1 = n
        BY <1>2
      <3> QED
        BY <1>4, <1>5, <1>6, <3>1
    <2>2. ASSUME NEW i \in 0..(n - 1) PROVE OneRow(g[i])
      <3>1. i + 1 \in 0..n
        BY <1>2
      <3> QED
        BY <1>4, <1>5, <3>1
    <2>3. ASSUME NEW i \in 1..(n - 1)
          PROVE  Skews(stream'[i], g[i - 1])
                   \/ g[i] = Handled(stream'[i], g[i - 1])
      <3>1. i + 1 \in 1..n /\ i - 1 \in 0..(n - 1) /\ i \in 0..(n - 1)
            /\ (i - 1) + 1 = (i + 1) - 1
        BY <1>2
      <3>2. g[i] = h[i + 1] /\ g[i - 1] = h[(i + 1) - 1]
            /\ stream'[i] = stream[i + 1]
        BY <1>2, <1>4, <3>1
      <3> QED
        BY <1>5, <3>1, <3>2
    <2> QED
      BY <1>2, <2>1, <2>2, <2>3 DEF Past
  <1>8. ASSUME NEW k \in 1..n, Broken(h, k) PROVE Broken(g, k - 1)'
    <2>1. CASE \E i \in (k + 1)..n :
                 Skews(stream[i], h[i - 1]) \/ stream[i].kind = "read"
      <3>1. PICK i \in (k + 1)..n :
              Skews(stream[i], h[i - 1]) \/ stream[i].kind = "read"
        BY <2>1
      <3>2. /\ i - 1 \in ((k - 1) + 1)..(n - 1) /\ i - 1 \in 1..(n - 1)
            /\ (i - 1) - 1 \in 0..(n - 1) /\ ((i - 1) - 1) + 1 = i - 1
            /\ (i - 1) + 1 = i
        BY <1>2
      <3>3. stream'[i - 1] = stream[i] /\ g[(i - 1) - 1] = h[i - 1]
        BY <1>2, <1>4, <3>2
      <3> QED
        BY <1>2, <3>1, <3>2, <3>3 DEF Broken
    <2>2. CASE \E i \in k..n : h[i] = {}
      <3>1. PICK i \in k..n : h[i] = {}
        BY <2>2
      <3>2. i - 1 \in (k - 1)..(n - 1) /\ i - 1 \in 0..(n - 1) /\ (i - 1) + 1 = i
        BY <1>2
      <3>3. g[i - 1] = {}
        BY <1>4, <3>1, <3>2
      <3> QED
        BY <1>2, <3>2, <3>3 DEF Broken
    <2> QED
      BY <1>8, <2>1, <2>2 DEF Broken, n
  <1>9. Steady(g)'
    <2> SUFFICES ASSUME NEW k \in 0..(n - 1), ~Broken(g, k)'
                 PROVE  \A r \in g[k] : r.lastRead = mine'.lastRead
      BY <1>2 DEF Steady
    <2>1. k + 1 \in 1..n /\ k + 1 \in 0..n /\ (k + 1) - 1 = k
      BY <1>2
    <2>2. ~Broken(h, k + 1)
      BY <1>8, <2>1
    <2>3. \A r \in h[k + 1] : r.lastRead = mine.lastRead
      BY <2>1, <2>2 DEF HistoryOK, Steady, n
    <2> QED
      BY <1>4, <1>6, <2>3
  <1>10. RowOK(g)'
    <2> SUFFICES ASSUME ~skewed'
                 PROVE  \E Q : /\ Known(Q, g)'
                               /\ \/ row' = Q
                                  \/ TypeComes(g)' /\ \E t : row' = Retyped(Q, t)
      BY DEF RowOK
    <2>1. ~skewed /\ ~Skews(e, row) /\ row' = Handled(e, row)
      OBVIOUS
    <2> PICK Q : /\ Known(Q, h)
                 /\ row = Q \/ (TypeComes(h) /\ \E t : row = Retyped(Q, t))
      BY <2>1 DEF HistoryOK, RowOK
    <2>2. /\ OneRow(Q) /\ Alike(Q, h[0])
          /\ Q = h[0] \/ Broken(h, 0) \/ CatchesUp(Q, h)
      BY DEF Known
    <2>3. row = {} <=> h[0] = {}
      BY <2>2, RetypedRow DEF Alike
    <2>4. ~Skews(e, h[0]) /\ e.kind # "unsent"
      BY <2>1, <2>3 DEF Skews
    <2>5. /\ 0 \in 0..n /\ 1 \in 1..n /\ 0 \in 0..(n - 1) /\ 1 \in 0..n
          /\ 1 - 1 = 0 /\ 0 + 1 = 1
      BY <1>2
    <2>6. OneRow(h[0]) /\ h[1] = Handled(e, h[0]) /\ g[0] = h[1]
      BY <1>2, <1>4, <1>5, <2>4, <2>5
    <2> PICK P : P = Handled(e, Q)
      OBVIOUS
    <2>7. /\ OneRow(P) /\ Alike(P, g[0])
          /\ e.kind = "read" \/ h[0] = {} => P = g[0]
          /\ Close(Q, h[0]) => Close(P, g[0])
      BY <1>2, <2>2, <2>4, <2>6, HandledAlike
    <2>8. P = g[0] \/ Broken(g, 0)' \/ CatchesUp(P, g)'
      <3>1. CASE Q = h[0]
        BY <2>6, <3>1
      <3>2. CASE Broken(h, 0)
        <4>1. CASE Broken(h, 1)
          BY <1>8, <2>5, <4>1
        <4>2. CASE ~Broken(h, 1)
          <5>1. CASE \E i \in (0 + 1)..n :
                       Skews(stream[i], h[i - 1]) \/ stream[i].kind = "read"
            <6>1. PICK i \in (0 + 1)..n :
                    Skews(stream[i], h[i - 1]) \/ stream[i].kind = "read"
              BY <5>1
            <6>2. i = 1 \/ i \in (1 + 1)..n
              BY <1>2
            <6>3. i = 1
              BY <4>2, <6>1, <6>2 DEF Broken, n
            <6> QED
              BY <1>2, <2>4, <2>5, <2>7, <6>1, <6>3
          <5>2. CASE \E i \in 0..n : h[i] = {}
            <6>1. PICK i \in 0..n : h[i] = {}
              BY <5>2
            <6>2. i = 0 \/ i \in 1..n
              BY <1>2
            <6> QED
              BY <2>7, <4>2, <6>1, <6>2 DEF Broken, n
          <5> QED
            BY <3>2, <5>1, <5>2 DEF Broken, n
        <4> QED
          BY <4>1, <4>2
      <3>3. CASE CatchesUp(Q, h)
        <4>1. PICK k \in 0..n : \A r \in h[k] : r.unread = 0
          BY <3>3 DEF CatchesUp, n
        <4>2. Close(Q, h[0])
          BY <3>3 DEF CatchesUp
        <4>3. CASE k = 0
          <5>1. Q = h[0]
            BY <2>2, <2>6, <4>1, <4>2, <4>3, CloseToRead
          <5> QED
            BY <2>6, <5>1
        <4>4. CASE k # 0
          <5>1. k - 1 \in 0..(n - 1) /\ (k - 1) + 1 = k
            BY <1>2, <4>4
          <5>2. \A r \in g[k - 1] : r.unread = 0
            BY <1>4, <4>1, <5>1
          <5> QED
            BY <1>2, <2>7, <4>2, <5>1, <5>2 DEF CatchesUp
        <4> QED
          BY <4>3, <4>4
      <3> QED
        BY <2>2, <3>1, <3>2, <3>3
    <2>9. Known(P, g)'
      BY <2>7, <2>8 DEF Known
    <2>10. row' = P \/ (TypeComes(g)' /\ \E t : row' = Retyped(P, t))
      <3>1. CASE row = Q
        BY <2>1, <3>1
      <3>2. CASE TypeComes(h) /\ \E t : row = Retyped(Q, t)
        <4>1. PICK t : row = Retyped(Q, t)
          BY <3>2
        <4>2. \/ row' = P
              \/ e.kind # "updated" /\ row' = Retyped(P, t)
          BY <1>2, <2>1, <2>2, <2>4, <4>1, HandledRetyped
        <4>3. ASSUME e.kind # "updated" PROVE TypeComes(g)'
          <5>1. PICK i \in 1..n :
                  Skews(stream[i], h[i - 1]) \/ stream[i].kind = "updated"
            BY <3>2 DEF TypeComes, n
          <5>2. i # 1
            BY <1>2, <2>4, <2>5, <4>3, <5>1
          <5>3. /\ i - 1 \in 1..(n - 1) /\ (i - 1) - 1 \in 0..(n - 1)
                /\ ((i - 1) - 1) + 1 = i - 1 /\ (i - 1) + 1 = i
            BY <1>2, <5>2
          <5>4. stream'[i - 1] = stream[i] /\ g[(i - 1) - 1] = h[i - 1]
            BY <1>2, <1>4, <5>3
          <5> QED
            BY <1>2, <5>1, <5>3, <5>4 DEF TypeComes
        <4> QED
          BY <4>2, <4>3
      <3> QED
        BY <3>1, <3>2
    <2> QED
      BY <2>9, <2>10
  <1>11. \A a \in Nat : a >= passed + 1 /\ a <= passed + n =>
           a - passed' \in 0..(n - 1) /\ (a - passed') + 1 = a - passed
    BY <1>1, <1>2
  <1>12. \A a \in Nat : a <= passed + n => a <= passed' + Len(stream')
    BY <1>1, <1>2
  <1>13. ListFetchOK(g)'
    <2> SUFFICES ASSUME fetch.stage = "answered"
                 PROVE  /\ fetch.at \in Nat /\ fetch.at <= passed' + Len(stream')
                        /\ fetch.at >= passed' => fetch.rows = g[fetch.at - passed']
      BY DEF ListFetchOK, Now
    <2>1. /\ fetch.at \in Nat /\ fetch.at <= passed + n
          /\ fetch.at >= passed => fetch.rows = h[fetch.at - passed]
      BY DEF HistoryOK, ListFetchOK, Now, n
    <2>2. fetch.at >= passed' =>
            /\ fetch.at >= passed
            /\ g[fetch.at - passed'] = h[fetch.at - passed]
      BY <1>1, <1>4, <1>11, <2>1
    <2> QED
      BY <1>12, <2>1, <2>2
  <1>14. ASSUME NEW req \in reqs PROVE AnswerOK(req, g)'
    <2>1. AnswerOK(req, h) /\ log' = log
      BY DEF HistoryOK, server
    <2>2. FoundOK(req)'
      BY <2>1 DEF AnswerOK, FoundOK
    <2>3. ReadOK(req, g)'
      <3> SUFFICES ASSUME req.stage \in {"written", "done"},
                          req.op \in {"read", "readAll"}
                   PROVE  /\ req.at \in Nat /\ req.at <= passed' + Len(stream')
                          /\ req.exact /\ req.at >= passed' =>
                                \A r \in g[req.at - passed'] :
                                    /\ r.unread = 0
                                    /\ req.op = "read" => r.lastRead = req.id
        BY DEF ReadOK, Now
      <3>1. /\ req.at \in Nat /\ req.at <= passed + n
            /\ req.exact /\ req.at >= passed =>
                  \A r \in h[req.at - passed] :
                      /\ r.unread = 0
                      /\ req.op = "read" => r.lastRead = req.id
        BY <2>1 DEF AnswerOK, ReadOK, Now, n
      <3>2. req.at >= passed' =>
              /\ req.at >= passed
              /\ g[req.at - passed'] = h[req.at - passed]
        BY <1>1, <1>4, <1>11, <3>1
      <3> QED
        BY <1>12, <3>1, <3>2
    <2>4. UpdateOK(req, g)'
      <3> SUFFICES ASSUME req.stage \in {"written", "done"}, req.op = "update"
                   PROVE  /\ req.at \in Nat /\ req.at <= passed' + Len(stream')
                          /\ req.at >= passed' =>
                                \A r \in g[req.at - passed'] : r.type = req.type
                          /\ req.at > passed' =>
                                \/ Skews(stream'[req.at - passed'],
                                         g[(req.at - passed') - 1])
                                \/ stream'[req.at - passed'].kind = "updated"
        BY DEF UpdateOK, Now
      <3>1. /\ req.at \in Nat /\ req.at <= passed + n
            /\ req.at >= passed =>
                  \A r \in h[req.at - passed] : r.type = req.type
            /\ req.at > passed =>
                  \/ Skews(stream[req.at - passed], h[(req.at - passed) - 1])
                  \/ stream[req.at - passed].kind = "updated"
        BY <2>1 DEF AnswerOK, UpdateOK, Now, n
      <3>2. req.at >= passed' =>
              /\ req.at >= passed
              /\ g[req.at - passed'] = h[req.at - passed]
        BY <1>1, <1>4, <1>11, <3>1
      <3>3. ASSUME req.at > passed'
            PROVE  \/ Skews(stream'[req.at - passed'],
                            g[(req.at - passed') - 1])
                   \/ stream'[req.at - passed'].kind = "updated"
        <4>1. PICK i : i = req.at - passed'
          OBVIOUS
        <4>2. PICK at \in Nat : at = req.at
          BY <3>1
        <4>3. at > passed + 1 /\ at <= passed + n /\ i = at - (passed + 1)
          BY <3>1, <3>3, <4>1, <4>2
        <4>4. /\ i \in 1..(n - 1) /\ i - 1 \in 0..(n - 1)
              /\ at - passed = i + 1 /\ at > passed
              /\ (at - passed) - 1 = (i - 1) + 1
          BY <1>1, <1>2, <4>3
        <4>5. stream'[i] = stream[i + 1] /\ g[i - 1] = h[(i - 1) + 1]
          BY <1>2, <1>4, <4>4
        <4> QED
          BY <3>1, <4>1, <4>2, <4>4, <4>5
      <3> QED
        BY <1>12, <3>1, <3>2, <3>3
    <2> QED
      BY <2>2, <2>3, <2>4 DEF AnswerOK
  <1>15. HistoryOK(g)'
    BY <1>7, <1>9, <1>10, <1>13, <1>14 DEF HistoryOK
  <1> QED
    BY <1>15

\* The entries on their way stay, or come to skew.
Coarser ==
    /\ passed' = passed /\ Len(stream') = Len(stream)
    /\ stream' \in Seq(Entries)
    /\ \A i \in 1..Len(stream) :
          stream'[i] = stream[i] \/ \A R : Skews(stream'[i], R)

LEMMA SameIsCoarser ==
  ASSUME stream \in Seq(Entries), UNCHANGED line
  PROVE  Coarser
  BY DEF Coarser, line

\* Nothing enters or leaves the stream: the history stays.
LEMMA SameHistory ==
  ASSUME NEW h, Past(h), Steady(h), UNCHANGED server, Coarser,
         stream \in Seq(Entries)
  PROVE  /\ Past(h)' /\ Steady(h)' /\ (TypeComes(h) => TypeComes(h)')
         /\ \A k \in 0..Len(stream) : Broken(h, k) => Broken(h, k)'
  <1>1. ServerRow' = ServerRow /\ mine' = mine /\ Len(stream') = Len(stream)
    BY ServerRowOf DEF server, Coarser
  <1>2. \A i \in 1..Len(stream) :
          \/ stream'[i] = stream[i] \/ \A R : Skews(stream'[i], R)
    BY DEF Coarser
  <1>3. ASSUME NEW k \in 0..Len(stream), Broken(h, k) PROVE Broken(h, k)'
    <2>1. CASE \E i \in (k + 1)..Len(stream) :
                 Skews(stream[i], h[i - 1]) \/ stream[i].kind = "read"
      <3>1. PICK i \in (k + 1)..Len(stream) :
              Skews(stream[i], h[i - 1]) \/ stream[i].kind = "read"
        BY <2>1
      <3>2. i \in 1..Len(stream)
        OBVIOUS
      <3>3. Skews(stream'[i], h[i - 1]) \/ stream'[i].kind = "read"
        BY <1>2, <3>1, <3>2
      <3> QED
        BY <1>1, <3>3 DEF Broken
    <2>2. CASE \E i \in k..Len(stream) : h[i] = {}
      BY <1>1, <2>2 DEF Broken
    <2> QED
      BY <1>3, <2>1, <2>2 DEF Broken
  <1>4. ASSUME TypeComes(h) PROVE TypeComes(h)'
    <2>1. PICK i \in 1..Len(stream) :
            Skews(stream[i], h[i - 1]) \/ stream[i].kind = "updated"
      BY <1>4 DEF TypeComes
    <2>2. Skews(stream'[i], h[i - 1]) \/ stream'[i].kind = "updated"
      BY <1>2, <2>1
    <2> QED
      BY <1>1, <2>2 DEF TypeComes
  <1>5. Past(h)'
    <2>1. \A i \in 1..Len(stream) :
             Skews(stream'[i], h[i - 1]) \/ h[i] = Handled(stream'[i], h[i - 1])
      BY <1>2 DEF Past
    <2> QED
      BY <1>1, <2>1 DEF Past
  <1>6. Steady(h)'
    BY <1>1, <1>3 DEF Steady
  <1> QED
    BY <1>3, <1>4, <1>5, <1>6

LEMMA SameAnswer ==
  ASSUME passed \in Nat, stream \in Seq(Entries), UNCHANGED server, Coarser,
         NEW h, NEW req, AnswerOK(req, h)
  PROVE  AnswerOK(req, h)'
  <1>1. /\ stream' \in Seq(Entries) /\ passed' = passed
        /\ Len(stream') >= Len(stream) /\ 0..Len(log) \subseteq 0..Len(log')
        /\ \A i \in 1..Len(stream) :
             \/ stream'[i] = stream[i] \/ \A R : Skews(stream'[i], R)
    BY DEF Coarser, server
  <1> QED
    BY <1>1, AnswerStays

-----------------------------------------------------------------------------
(* The client's steps.                                                     *)

\* What every handler of an event does to the row, unless it skews.
LEMMA EventFollows ==
  ASSUME FollowInv,
         \/ HandleMessage \/ HandleRead \/ HandleUpdated \/ HandleArchived
         \/ HandleCreated \/ Unheard
  PROVE  FollowInv'
  <1> PICK e : e = Head(stream)
    OBVIOUS
  <1>1. /\ sent > 0 /\ sent' = sent - 1 /\ stream' = Tail(stream)
        /\ passed' = passed + 1 /\ UNCHANGED <<server, fetch, reqs>>
    BY DEF HandleMessage, HandleRead, HandleUpdated, HandleArchived,
           HandleCreated, Unheard, Pass, Is
  <1>2. /\ ServerOK' /\ passed' \in Nat /\ stream' \in Seq(Entries)
        /\ stream # <<>> /\ e \in Entries
        /\ sent' \in Nat /\ sent' <= Len(stream')
    <2>1. ServerOK'
      BY <1>1 DEF FollowInv, ServerOK, server
    <2>2. /\ stream \in Seq(Entries) /\ passed \in Nat /\ sent \in Nat
          /\ sent <= Len(stream)
      BY DEF FollowInv
    <2>3. stream # <<>>
      BY <1>1, <2>2
    <2>4. Len(stream') = Len(stream) - 1 /\ stream' \in Seq(Entries)
          /\ e \in Entries
      BY <1>1, <2>2, <2>3
    <2> QED
      BY <1>1, <2>1, <2>2, <2>3, <2>4
  <1>3. ~skewed' => ~skewed /\ ~Skews(e, row) /\ row' = Handled(e, row)
    <2>1. CASE HandleMessage
      <3> SUFFICES ASSUME ~skewed'
                   PROVE  ~skewed /\ ~Skews(e, row) /\ row' = Handled(e, row)
        OBVIOUS
      <3>1. /\ e.kind = "message" /\ ~skewed /\ ~e.crossed /\ e.by = "other"
            /\ row' = {[r EXCEPT !.unread = IF Counts(e.by) THEN r.unread + 1
                                            ELSE r.unread] : r \in row}
        BY <2>1 DEF HandleMessage, Is, Show
      <3>2. Counts(e.by)
        BY <3>1 DEF Counts
      <3>3. row' = {[r EXCEPT !.unread = r.unread + 1] : r \in row}
        BY <3>1, <3>2
      <3> QED
        BY <3>1, <3>3 DEF Handled, Skews
    <2>2. CASE HandleRead
      <3>1. /\ e.kind = "read" /\ row' = {ReadRow(r, e.id) : r \in row}
            /\ skewed' = (skewed \/ e.crossed \/ ~e.exact)
        BY <2>2 DEF HandleRead, Is, Show
      <3> QED
        BY <3>1 DEF Handled, Skews, Read
    <2>3. CASE HandleUpdated
      <3>1. /\ e.kind = "updated"
            /\ skewed' = (skewed \/ e.crossed \/ row = {})
            /\ row' = {r \in {[x EXCEPT !.type = e.type] : x \in row} :
                         r.type = "public" \/ r.member}
        BY <2>3 DEF HandleUpdated, Is, Show
      <3> QED
        BY <3>1 DEF Handled, Skews
    <2>4. CASE HandleArchived
      <3>1. /\ e.kind = "archived" /\ row' = {}
            /\ skewed' = (skewed \/ e.crossed)
        BY <2>4 DEF HandleArchived, Is, Show
      <3> QED
        BY <3>1 DEF Handled, Skews
    <2>5. CASE HandleCreated
      <3>1. /\ e.kind = "created"
            /\ skewed' = (skewed \/ e.crossed \/ e.type = "private")
            /\ row' = IF row = {} THEN {Fresh(e.type)} ELSE row
        BY <2>5 DEF HandleCreated, Is, Show, Added, Fresh
      <3> QED
        BY <3>1 DEF Handled, Skews
    <2>6. CASE Unheard
      BY <2>6 DEF Unheard
    <2> QED
      BY <2>1, <2>2, <2>3, <2>4, <2>5, <2>6
  <1>4. PICK h : HistoryOK(h)
    BY DEF FollowInv
  <1>5. \E g : HistoryOK(g)'
    BY <1>1, <1>2, <1>3, <1>4, DropFromHistory
  <1> QED
    BY <1>2, <1>5 DEF FollowInv

\* What touches neither the server nor the stream, or only makes it skew.
LEMMA QuietFollows ==
  ASSUME FollowInv, UNCHANGED server, Coarser, sent' \in Nat,
         sent' <= Len(stream'), NEW h, HistoryOK(h),
         RowOK(h)', ListFetchOK(h)', \A req \in reqs' : AnswerOK(req, h)'
  PROVE  FollowInv'
  <1>1. ServerOK' /\ passed' \in Nat /\ stream' \in Seq(Entries)
    <2>1. ServerOK'
      BY DEF FollowInv, ServerOK, server
    <2> QED
      BY <2>1 DEF FollowInv, Coarser
  <1>2. Past(h)' /\ Steady(h)'
    BY SameHistory DEF HistoryOK, FollowInv
  <1>3. HistoryOK(h)'
    BY <1>2 DEF HistoryOK
  <1> QED
    BY <1>1, <1>3 DEF FollowInv

\* What touches neither at all, with the requests that stay, and others that
\* nothing is claimed of.
LEMMA RestFollows ==
  ASSUME FollowInv, UNCHANGED <<server, line>>, NEW h, HistoryOK(h),
         RowOK(h)', ListFetchOK(h)',
         \A req \in reqs' : req \in reqs \/ req.stage \in {"sent", "failed"}
                                         \/ AnswerOK(req, h)'
  PROVE  FollowInv'
  <1>1. passed \in Nat /\ stream \in Seq(Entries) /\ Coarser
    BY SameIsCoarser DEF FollowInv
  <1>2. ASSUME NEW req \in reqs' PROVE AnswerOK(req, h)'
    <2>1. CASE req \in reqs
      BY <1>1, <2>1, SameAnswer DEF HistoryOK
    <2>2. CASE req.stage \in {"sent", "failed"}
      BY <2>2 DEF AnswerOK, FoundOK, ReadOK, UpdateOK
    <2> QED
      BY <1>2, <2>1, <2>2
  <1>3. sent' \in Nat /\ sent' <= Len(stream')
    BY DEF FollowInv, line
  <1> QED
    BY <1>1, <1>2, <1>3, QuietFollows

\* A row that does not change, or of which nothing is claimed.
LEMMA RowStays ==
  ASSUME NEW h, HistoryOK(h), UNCHANGED server, Coarser,
         passed \in Nat, stream \in Seq(Entries),
         skewed' = TRUE \/ UNCHANGED <<row, skewed>>
  PROVE  RowOK(h)'
  <1>1. CASE skewed' = TRUE
    BY <1>1 DEF RowOK
  <1>2. CASE UNCHANGED <<row, skewed>>
    <2>1. /\ (TypeComes(h) => TypeComes(h)')
          /\ (Broken(h, 0) => Broken(h, 0)')
      <3>1. 0 \in 0..Len(stream)
        OBVIOUS
      <3> QED
        BY <3>1, SameHistory DEF HistoryOK
    <2>2. \A Q : CatchesUp(Q, h) => CatchesUp(Q, h)'
      BY DEF CatchesUp, Close, Coarser
    <2>3. \A Q : Known(Q, h) => Known(Q, h)'
      BY <2>1, <2>2 DEF Known
    <2> QED
      BY <1>2, <2>1, <2>3 DEF RowOK, HistoryOK
  <1> QED
    BY <1>1, <1>2

\* An entry that is marked, or not.
LEMMA Marking ==
  ASSUME NEW e \in Entries, NEW crossed \in BOOLEAN, NEW d,
         d = [e EXCEPT !.crossed = e.crossed \/ crossed]
  PROVE  d \in Entries /\ (crossed => d.crossed) /\ (~crossed => d = e)
  <1>1. e.crossed \in BOOLEAN
    BY DEF Entries
  <1>2. d \in Entries
    BY <1>1 DEF Entries
  <1>3. crossed => d.crossed
    BY DEF Entries
  <1>4. ~crossed => d = e
    <2>1. ~crossed => (e.crossed \/ crossed) = e.crossed
      BY <1>1
    <2> QED
      BY <2>1 DEF Entries
  <1> QED
    BY <1>2, <1>3, <1>4

\* The handlers' broadcasts: what they pull forward crosses what it passes.
LEMMA AnnounceFollows ==
  ASSUME FollowInv, NEW k \in (sent + 1)..Len(stream), Announce(k)
  PROVE  FollowInv'
  <1>1. /\ passed \in Nat /\ stream \in Seq(Entries) /\ sent \in Nat
        /\ sent <= Len(stream)
    BY DEF FollowInv
  <1>2. \A i \in 1..Len(stream) : stream[i] \in Entries
    BY <1>1
  <1>3. PICK crossed \in BOOLEAN :
          crossed = \E i \in (sent + 1)..k : stream[i] # stream[k]
    OBVIOUS
  <1>4. PICK first : /\ first = stream[k] \/ first = Silent
                     /\ first = IF Told(stream[k]) THEN stream[k] ELSE Silent
    OBVIOUS
  <1>5. /\ UNCHANGED <<server, passed, client, skewed>> /\ sent' = sent + 1
        /\ stream' =
             [i \in DOMAIN stream |->
                IF i \notin (sent + 1)..k THEN stream[i]
                ELSE IF i = sent + 1
                THEN [first EXCEPT !.crossed = first.crossed \/ crossed]
                ELSE [stream[i - 1] EXCEPT
                        !.crossed = stream[i - 1].crossed \/ crossed]]
    BY <1>3, <1>4 DEF Announce
  <1>6. /\ sent' \in Nat /\ sent' <= Len(stream) /\ DOMAIN stream = 1..Len(stream)
        /\ k \in 1..Len(stream) /\ stream[k] \in Entries
    BY <1>1, <1>2, <1>5
  <1>7. Silent \in Entries /\ first \in Entries
    BY <1>4, <1>6 DEF Silent, Entries
  <1>8. \A R : Skews(Silent, R)
    BY DEF Silent, Skews
  <1>9. ASSUME NEW i \in 1..Len(stream)
        PROVE  /\ stream'[i] \in Entries
               /\ stream'[i] = stream[i] \/ \A R : Skews(stream'[i], R)
    <2>1. CASE i \notin (sent + 1)..k
      BY <1>2, <1>5, <1>6, <2>1
    <2>2. CASE i = sent + 1 /\ i \in (sent + 1)..k
      <3>1. stream'[i] = [first EXCEPT !.crossed = first.crossed \/ crossed]
        BY <1>5, <1>6, <2>2
      <3>2. CASE crossed
        <4>1. stream'[i] \in Entries /\ stream'[i].crossed
          BY <1>7, <3>1, <3>2, Marking
        <4> QED
          BY <4>1 DEF Skews
      <3>3. CASE ~crossed
        <4>1. stream'[i] = first
          BY <1>7, <3>1, <3>3, Marking
        <4>2. stream[i] = stream[k]
          BY <1>3, <2>2, <3>3
        <4> QED
          BY <1>4, <1>7, <1>8, <4>1, <4>2
      <3> QED
        BY <3>2, <3>3
    <2>3. CASE i # sent + 1 /\ i \in (sent + 1)..k
      <3>1. stream'[i] = [stream[i - 1] EXCEPT
                            !.crossed = stream[i - 1].crossed \/ crossed]
        BY <1>5, <1>6, <2>3
      <3>2. i - 1 \in (sent + 1)..k /\ i - 1 \in 1..Len(stream)
        BY <1>1, <2>3
      <3>3. stream[i - 1] \in Entries
        BY <1>2, <3>2
      <3>4. CASE crossed
        <4>1. stream'[i] \in Entries /\ stream'[i].crossed
          BY <3>1, <3>3, <3>4, Marking
        <4> QED
          BY <4>1 DEF Skews
      <3>5. CASE ~crossed
        <4>1. stream'[i] = stream[i - 1]
          BY <3>1, <3>3, <3>5, Marking
        <4>2. stream[i - 1] = stream[k] /\ stream[i] = stream[k]
          BY <1>3, <2>3, <3>2, <3>5
        <4> QED
          BY <3>3, <4>1, <4>2
      <3> QED
        BY <3>4, <3>5
    <2> QED
      BY <2>1, <2>2, <2>3
  <1>10. /\ DOMAIN stream' = 1..Len(stream) /\ Len(stream') = Len(stream)
         /\ stream' \in Seq(Entries)
    <2>1. PICK f : f = stream'
      OBVIOUS
    <2>2. DOMAIN f = 1..Len(stream) /\ f = [i \in 1..Len(stream) |-> f[i]]
      BY <1>5, <1>6, <2>1
    <2>3. f \in [1..Len(stream) -> Entries]
      BY <1>9, <2>1, <2>2
    <2>4. f \in Seq(Entries) /\ Len(f) = Len(stream)
      BY <1>1, <2>3
    <2> QED
      BY <2>1, <2>2, <2>4
  <1>11. Coarser
    BY <1>5, <1>9, <1>10 DEF Coarser
  <1>12. UNCHANGED <<row, fetch, reqs, skewed>>
    BY <1>5 DEF client
  <1>13. PICK h : HistoryOK(h)
    BY DEF FollowInv
  <1>14. RowOK(h)'
    BY <1>1, <1>5, <1>11, <1>12, <1>13, RowStays
  <1>15. ListFetchOK(h)'
    BY <1>11, <1>12, <1>13 DEF ListFetchOK, HistoryOK, Now, Coarser
  <1>16. \A req \in reqs' : AnswerOK(req, h)'
    BY <1>1, <1>5, <1>11, <1>12, <1>13, SameAnswer DEF HistoryOK
  <1> QED
    BY <1>5, <1>6, <1>10, <1>11, <1>13, <1>14, <1>15, <1>16, QuietFollows

LEMMA FetchFollows ==
  ASSUME FollowInv,
         ServerAnswersFetch \/ FetchArrives \/ FetchFails \/ Invalidate
  PROVE  FollowInv'
  <1>1. UNCHANGED <<server, line, reqs>>
    BY DEF ServerAnswersFetch, FetchArrives, FetchFails, Invalidate
  <1>2. PICK h : HistoryOK(h)
    BY DEF FollowInv
  <1>3. UNCHANGED <<passed, stream>>
    BY <1>1 DEF line
  <1>4. /\ passed \in Nat /\ Len(stream) \in Nat /\ stream \in Seq(Entries)
        /\ Coarser
    BY <1>1, SameIsCoarser DEF FollowInv
  <1>5. CASE ServerAnswersFetch
    <2>1. /\ fetch'.stage = "answered" /\ fetch'.rows = ServerRow
          /\ fetch'.at = passed + Len(stream) /\ UNCHANGED <<row, skewed>>
      BY <1>5 DEF ServerAnswersFetch, Now
    <2>2. RowOK(h)'
      BY <1>1, <1>2, <1>4, <2>1, RowStays
    <2>3. fetch'.rows = h[fetch'.at - passed]
      <3>1. fetch'.at - passed = Len(stream)
        BY <1>4, <2>1
      <3> QED
        BY <1>2, <2>1, <3>1 DEF HistoryOK, Past
    <2>4. fetch'.at \in Nat /\ fetch'.at <= passed + Len(stream)
      BY <1>4, <2>1
    <2>5. ListFetchOK(h)'
      BY <1>3, <2>1, <2>3, <2>4 DEF ListFetchOK, Now
    <2> QED
      BY <1>1, <1>2, <2>2, <2>5, RestFollows
  <1>6. CASE FetchArrives
    <2>1. /\ fetch.stage = "answered" /\ fetch'.stage = "none"
          /\ row' = fetch.rows /\ skewed' = (fetch.at # passed)
      BY <1>6 DEF FetchArrives, Show, NoFetch
    <2>2. ListFetchOK(h)'
      BY <2>1 DEF ListFetchOK
    <2>3. RowOK(h)'
      <3> SUFFICES ASSUME ~skewed' PROVE Known(h[0], h)' /\ row' = h[0]
        BY DEF RowOK
      <3>1. fetch.at = passed
        BY <2>1, Zenon
      <3>2. fetch.at - passed = 0
        BY <1>4, <3>1
      <3>3. row' = h[0]
        BY <1>2, <1>4, <2>1, <3>1, <3>2 DEF HistoryOK, ListFetchOK
      <3>4. OneRow(h[0])
        <4>1. 0 \in 0..Len(stream)
          BY <1>4
        <4> QED
          BY <1>2, <4>1 DEF HistoryOK, Past
      <3> QED
        BY <3>3, <3>4 DEF Known, Alike, OneRow
    <2> QED
      BY <1>1, <1>2, <2>2, <2>3, RestFollows
  <1>7. CASE FetchFails \/ Invalidate
    <2>1. fetch'.stage # "answered" /\ (skewed' = TRUE \/ UNCHANGED <<row, skewed>>)
      BY <1>7 DEF FetchFails, Invalidate, NoFetch, Asked
    <2>2. RowOK(h)'
      BY <1>1, <1>2, <1>4, <2>1, RowStays
    <2>3. ListFetchOK(h)'
      BY <2>1 DEF ListFetchOK
    <2> QED
      BY <1>1, <1>2, <2>2, <2>3, RestFollows
  <1> QED
    BY <1>5, <1>6, <1>7

LEMMA UserFollows ==
  ASSUME FollowInv,
         \/ \E yes \in BOOLEAN : ClickStar(yes)
         \/ \E op \in Clicks : Click(op)
         \/ AutoMarkAsRead \/ OpenOrLeave \/ Render
  PROVE  FollowInv'
  <1>1. /\ UNCHANGED <<server, line>>
        /\ skewed' = TRUE \/ UNCHANGED <<row, skewed>>
        /\ fetch'.stage = "none" \/ fetch' = fetch
        /\ \A q \in reqs' : q \in reqs \/ q.stage = "sent"
    <2>1. CASE \E yes \in BOOLEAN : ClickStar(yes)
      <3>1. PICK req : /\ req.stage = "sent" /\ reqs' = reqs \cup {req}
                       /\ UNCHANGED <<server, line>>
        BY <2>1 DEF ClickStar, Send, Request
      <3>2. skewed' = TRUE /\ fetch'.stage = "none"
        BY <2>1 DEF ClickStar, NoFetch
      <3> QED
        BY <3>1, <3>2
    <2>2. CASE (\E op \in Clicks : Click(op)) \/ AutoMarkAsRead
      <3>1. PICK req : /\ req.stage = "sent" /\ reqs' = reqs \cup {req}
                       /\ UNCHANGED <<server, line>>
        BY <2>2 DEF Click, AutoMarkAsRead, Send, Request
      <3>2. UNCHANGED <<row, skewed, fetch>>
        BY <2>2 DEF Click, AutoMarkAsRead
      <3> QED
        BY <3>1, <3>2
    <2>3. CASE OpenOrLeave \/ Render
      BY <2>3 DEF OpenOrLeave, Render
    <2> QED
      BY <2>1, <2>2, <2>3
  <1>2. PICK h : HistoryOK(h)
    BY DEF FollowInv
  <1>3. /\ passed \in Nat /\ stream \in Seq(Entries) /\ Coarser
        /\ UNCHANGED <<passed, stream>>
    BY <1>1, SameIsCoarser DEF FollowInv, line
  <1>4. RowOK(h)'
    BY <1>1, <1>2, <1>3, RowStays
  <1>5. ListFetchOK(h)'
    BY <1>1, <1>2, <1>3 DEF ListFetchOK, HistoryOK, Now
  <1> QED
    BY <1>1, <1>2, <1>4, <1>5, RestFollows

\* A change of the server, with the requests that stay and one that is answered
\* soundly, whatever the history.
LEMMA ChangeFollows ==
  ASSUME FollowInv, Changes, UNCHANGED <<row, fetch, skewed>>,
         \A req \in reqs' : \/ req \in reqs
            \/ \A g : /\ ServerOK' /\ g[Len(stream')] = ServerRow'
                      /\ passed' \in Nat /\ Len(stream') \in Nat
                      /\ Len(stream') = Len(stream) + 1 /\ passed' = passed
                      => AnswerOK(req, g)'
  PROVE  FollowInv'
  <1>1. PICK h : HistoryOK(h)
    BY DEF FollowInv
  <1>2. PICK g : /\ Past(g)' /\ Steady(g)' /\ RowOK(g)' /\ ListFetchOK(g)'
                 /\ \A req \in reqs : AnswerOK(req, g)'
                 /\ g[Len(stream')] = ServerRow'
    BY <1>1, AddToHistory
  <1>3. PICK e \in Entries : stream' = Append(stream, e) /\ passed' = passed
                             /\ sent' = sent
    BY DEF Changes, Tells
  <1>4. /\ ServerOK' /\ passed' \in Nat /\ stream' \in Seq(Entries)
        /\ Len(stream') = Len(stream) + 1 /\ Len(stream') \in Nat
        /\ sent' \in Nat /\ sent' <= Len(stream')
    BY <1>3 DEF Changes, FollowInv
  <1>5. \A req \in reqs' : AnswerOK(req, g)'
    BY <1>2, <1>3, <1>4
  <1>6. HistoryOK(g)'
    BY <1>2, <1>5 DEF HistoryOK
  <1> QED
    BY <1>4, <1>6 DEF FollowInv

\* What the handlers look for, and read, before they write.
LEMMA FindsFollows ==
  ASSUME FollowInv, NEW req \in reqs, ServerFinds(req)
  PROVE  FollowInv'
  <1>1. UNCHANGED <<server, line, row, fetch, skewed>>
    BY DEF ServerFinds, Serve
  <1>2. /\ passed \in Nat /\ stream \in Seq(Entries) /\ Coarser
        /\ UNCHANGED <<passed, stream>> /\ ServerOK /\ Len(stream) \in Nat
    BY <1>1, SameIsCoarser DEF FollowInv, line
  <1>3. PICK h : HistoryOK(h)
    BY DEF FollowInv
  <1>4. h[Len(stream)] = ServerRow
    BY <1>3 DEF HistoryOK, Past
  <1>5. RowOK(h)'
    BY <1>1, <1>2, <1>3, RowStays
  <1>6. ListFetchOK(h)'
    BY <1>1, <1>2, <1>3 DEF ListFetchOK, HistoryOK, Now
  <1>7. PICK q : /\ reqs' = (reqs \ {req}) \cup {q} /\ q.op = req.op
                 /\ \/ q.stage = "found" /\ q.op \in Reads /\ q.id \in 0..Len(log)
                    \/ /\ q.stage = "done" /\ q.at = Now /\ q.id = 0
                       /\ q.op # "update"
                       /\ q.exact = (/\ AllRead(mine.lastRead)
                                     /\ q.op = "read" => mine.lastRead = 0)
    <2>1. CASE \E id \in 0..Len(log) : Serve(req, "found", 0, id, FALSE, "public")
      <3>1. PICK id \in 0..Len(log) : Serve(req, "found", 0, id, FALSE, "public")
        BY <2>1
      <3> DEFINE q == Answer(req, "found", 0, id, FALSE, "public")
      <3>2. q.op = req.op /\ q.stage = "found" /\ q.id = id
        BY DEF Answer
      <3>3. reqs' = (reqs \ {req}) \cup {q} /\ q.op \in Reads
        BY <3>1, <3>2 DEF Serve, ServerFinds
      <3> HIDE DEF q
      <3> QED
        BY <3>2, <3>3
    <2>2. CASE Serve(req, "done", Now, 0,
                     /\ AllRead(mine.lastRead)
                     /\ req.op = "read" => mine.lastRead = 0, "public")
      <3>1. PICK e : e = (/\ AllRead(mine.lastRead)
                          /\ req.op = "read" => mine.lastRead = 0)
        OBVIOUS
      <3> DEFINE q == Answer(req, "done", Now, 0, e, "public")
      <3>2. q.op = req.op /\ q.stage = "done" /\ q.at = Now /\ q.id = 0
            /\ q.exact = e
        BY DEF Answer
      <3>3. reqs' = (reqs \ {req}) \cup {q}
        BY <2>2, <3>1 DEF Serve
      <3>4. req.op # "update"
        BY DEF ServerFinds, Reads
      <3> HIDE DEF q
      <3> QED
        BY <3>1, <3>2, <3>3, <3>4
    <2> QED
      BY <1>2, <2>1, <2>2, LatestIsMessage DEF ServerFinds, LatestMessage
  <1>8. AnswerOK(q, h)'
    <2>1. CASE q.stage = "found" /\ q.op \in Reads /\ q.id \in 0..Len(log)
      BY <1>1, <2>1 DEF AnswerOK, FoundOK, ReadOK, UpdateOK, server
    <2>2. CASE /\ q.stage = "done" /\ q.at = Now /\ q.id = 0 /\ q.op # "update"
               /\ q.exact = (/\ AllRead(mine.lastRead)
                             /\ q.op = "read" => mine.lastRead = 0)
      <3>1. q.at = passed + Len(stream) /\ q.at \in Nat
            /\ q.at - passed = Len(stream)
        BY <1>2, <2>2 DEF Now
      <3>2. ASSUME q.exact, NEW r \in ServerRow
            PROVE  r.unread = 0 /\ (q.op = "read" => r.lastRead = q.id)
        <4>1. AllRead(mine.lastRead) /\ (q.op = "read" => mine.lastRead = 0)
          BY <2>2, <3>2, Zenon
        <4>2. Cardinality(Counting(log, mine.lastRead)) = 0
          BY <4>1 DEF AllRead, UnreadAfter, Counting
        <4>3. r.unread = 0 /\ r.lastRead = mine.lastRead
          BY <1>2, <3>2, <4>2, ServerFits DEF Fits
        <4> QED
          BY <2>2, <4>1, <4>3
      <3>3. ReadOK(q, h)'
        <4> SUFFICES /\ q.at \in Nat /\ q.at <= passed + Len(stream)
                     /\ q.exact /\ q.at >= passed =>
                           \A r \in h[q.at - passed] :
                              r.unread = 0 /\ (q.op = "read" => r.lastRead = q.id)
          BY <1>2 DEF ReadOK, Now
        <4> QED
          BY <1>2, <1>4, <3>1, <3>2
      <3> QED
        BY <2>2, <3>3 DEF AnswerOK, FoundOK, UpdateOK
    <2> QED
      BY <1>7, <2>1, <2>2
  <1> QED
    BY <1>1, <1>3, <1>5, <1>6, <1>7, <1>8, RestFollows

\* The position is written: what is exact is so now.
LEMMA MarksFollows ==
  ASSUME FollowInv, NEW req \in reqs, ServerMarks(req)
  PROVE  FollowInv'
  <1>1. /\ ServerOK /\ passed \in Nat /\ Len(stream) \in Nat
        /\ Now = passed + Len(stream)
    BY DEF FollowInv, Now
  <1>2. /\ req.stage = "found" /\ ReadUpTo(req.id, Now + 1)
        /\ UNCHANGED <<row, fetch, skewed>>
    BY DEF ServerMarks, Serve
  <1>3. req.id \in 0..Len(log)
    BY <1>2 DEF FollowInv, HistoryOK, AnswerOK, FoundOK
  <1>4. Changes
    BY <1>1, <1>2, <1>3, ReadTells
  <1>5. PICK q : /\ reqs' = (reqs \ {req}) \cup {q} /\ q.stage = "written"
                 /\ q.op = req.op /\ q.at = Now + 1 /\ q.id = req.id
                 /\ q.exact = AllRead(req.id)
    <2>1. PICK e, at : e = AllRead(req.id) /\ at = Now + 1
      OBVIOUS
    <2> DEFINE q == Answer(req, "written", at, req.id, e, "public")
    <2>2. /\ q.op = req.op /\ q.stage = "written" /\ q.at = at
          /\ q.id = req.id /\ q.exact = e
      BY DEF Answer
    <2>3. reqs' = (reqs \ {req}) \cup {q}
      BY <2>1 DEF ServerMarks, Serve
    <2> HIDE DEF q
    <2> QED
      BY <2>1, <2>2, <2>3
  <1>6. req.op # "update"
    BY <1>2 DEF FollowInv, HistoryOK, AnswerOK, FoundOK, Reads
  <1>7. ASSUME NEW g, ServerOK', g[Len(stream')] = ServerRow',
               passed' \in Nat, Len(stream') \in Nat,
               Len(stream') = Len(stream) + 1, passed' = passed
        PROVE  AnswerOK(q, g)'
    <2>1. /\ q.at = passed' + Len(stream') /\ q.at \in Nat
          /\ q.at - passed' = Len(stream')
      BY <1>1, <1>5, <1>7
    <2>2. ASSUME q.exact, NEW r \in ServerRow'
          PROVE  r.unread = 0 /\ r.lastRead = q.id
      <3>1. AllRead(req.id)
        BY <1>5, <2>2, Zenon
      <3>2. mine.member /\ UnreadAfter(req.id) = 0
        BY <3>1 DEF AllRead
      <3>3. mine' = [mine EXCEPT !.lastRead = req.id] /\ log' = log
        BY <1>2, <3>2 DEF ReadUpTo
      <3>4. mine'.lastRead = req.id
        BY <1>1, <3>3 DEF ServerOK, InOrder
      <3>5. Cardinality(Counting(log', mine'.lastRead)) = 0
        BY <3>2, <3>3, <3>4 DEF UnreadAfter, Counting
      <3>6. r.unread = 0 /\ r.lastRead = mine'.lastRead
        BY <1>7, <2>2, <3>5, ServerWillFit DEF Fits
      <3> QED
        BY <1>5, <3>4, <3>6
    <2>3. ReadOK(q, g)'
      <3> SUFFICES /\ q.at \in Nat /\ q.at <= passed' + Len(stream')
                   /\ q.exact /\ q.at >= passed' =>
                         \A r \in g[q.at - passed'] :
                            r.unread = 0 /\ (q.op = "read" => r.lastRead = q.id)
        BY DEF ReadOK, Now
      <3> QED
        BY <1>7, <2>1, <2>2
    <2> QED
      BY <1>5, <1>6, <2>3 DEF AnswerOK, FoundOK, UpdateOK
  <1> QED
    BY <1>2, <1>4, <1>5, <1>7, ChangeFollows

LEMMA ElsewhereFollows ==
  ASSUME FollowInv, Elsewhere
  PROVE  FollowInv'
  <1>1. Changes /\ UNCHANGED <<row, fetch, reqs, skewed>>
    BY ElsewhereTells DEF FollowInv, Elsewhere, client
  <1> QED
    BY <1>1, ChangeFollows

\* The other requests: a new type is the server's now, and its event the last.
LEMMA DoesFollows ==
  ASSUME FollowInv, NEW req \in reqs, ServerDoes(req)
  PROVE  FollowInv'
  <1>1. /\ ServerOK /\ passed \in Nat /\ Len(stream) \in Nat
        /\ Now = passed + Len(stream) /\ Now \in Nat
        /\ stream \in Seq(Entries)
    BY DEF FollowInv, Now
  <1>2. Does(req.op) /\ UNCHANGED <<row, fetch, skewed>>
    BY DEF ServerDoes, Serve
  <1>3. Changes /\ req.op \notin Reads
    BY <1>1, <1>2, DoesTells
  <1>4. PICK q : /\ reqs' = (reqs \ {req}) \cup {q} /\ q.stage = "written"
                 /\ q.op = req.op /\ q.at = Now + 1 /\ q.type = chan'.type
    <2>1. PICK at, type : at = Now + 1 /\ type = chan'.type
      OBVIOUS
    <2> DEFINE q == Answer(req, "written", at, 0, FALSE, type)
    <2>2. q.op = req.op /\ q.stage = "written" /\ q.at = at /\ q.type = type
      BY DEF Answer
    <2>3. reqs' = (reqs \ {req}) \cup {q}
      BY <2>1 DEF ServerDoes, Serve
    <2> HIDE DEF q
    <2> QED
      BY <2>1, <2>2, <2>3
  <1>5. ASSUME req.op = "update"
        PROVE  \E e \in Entries : stream' = Append(stream, e) /\ e.kind = "updated"
    <2>1. PICK type \in {"public", "private"} : SetType(type, Now + 1)
      BY <1>2, <1>5 DEF Does
    <2>2. PICK at \in Nat : at = Now + 1
      BY <1>1
    <2>3. Emit(OfChannel("updated", type, at))
      BY <2>1, <2>2 DEF SetType
    <2> QED
      BY <2>3, KindOf DEF Emit
  <1>6. ASSUME NEW g, ServerOK', g[Len(stream')] = ServerRow',
               passed' \in Nat, Len(stream') \in Nat,
               Len(stream') = Len(stream) + 1, passed' = passed
        PROVE  AnswerOK(q, g)'
    <2>1. /\ q.at = passed' + Len(stream') /\ q.at \in Nat
          /\ q.at - passed' = Len(stream')
      BY <1>1, <1>4, <1>6
    <2>2. \A r \in ServerRow' : r.type = q.type
      BY <1>4, <1>6, ServerWillFit DEF Fits
    <2>3. UpdateOK(q, g)'
      <3> SUFFICES ASSUME q.op = "update"
                   PROVE  /\ q.at \in Nat /\ q.at <= passed' + Len(stream')
                          /\ \A r \in g[q.at - passed'] : r.type = q.type
                          /\ stream'[q.at - passed'].kind = "updated"
        BY DEF UpdateOK, Now
      <3>1. PICK e \in Entries : stream' = Append(stream, e) /\ e.kind = "updated"
        BY <1>4, <1>5
      <3>2. stream'[Len(stream')] = e
        BY <1>1, <1>6, <3>1
      <3> QED
        BY <1>6, <2>1, <2>2, <3>1, <3>2
    <2> QED
      BY <1>3, <1>4, <2>3 DEF AnswerOK, FoundOK, ReadOK, Reads
  <1> QED
    BY <1>2, <1>3, <1>4, <1>6, ChangeFollows

\* An answer says what it said when it was written.
LEMMA AnswersFollows ==
  ASSUME FollowInv, NEW req \in reqs, ServerAnswers(req)
  PROVE  FollowInv'
  <1>1. UNCHANGED <<server, line, row, fetch, skewed>> /\ req.stage = "written"
    BY DEF ServerAnswers, Serve
  <1>2. /\ passed \in Nat /\ stream \in Seq(Entries) /\ Coarser
        /\ UNCHANGED <<passed, stream>>
    BY <1>1, SameIsCoarser DEF FollowInv, line
  <1>3. PICK h : HistoryOK(h)
    BY DEF FollowInv
  <1>4. RowOK(h)'
    BY <1>1, <1>2, <1>3, RowStays
  <1>5. ListFetchOK(h)'
    BY <1>1, <1>2, <1>3 DEF ListFetchOK, HistoryOK, Now
  <1>6. PICK q : /\ reqs' = (reqs \ {req}) \cup {q} /\ q.stage = "done"
                 /\ q.op = req.op /\ q.at = req.at /\ q.id = req.id
                 /\ q.exact = req.exact /\ q.type = req.type
    <2> DEFINE q == Answer(req, "done", req.at, req.id, req.exact, req.type)
    <2>1. /\ q.op = req.op /\ q.stage = "done" /\ q.at = req.at
          /\ q.id = req.id /\ q.exact = req.exact /\ q.type = req.type
      BY DEF Answer
    <2>2. reqs' = (reqs \ {req}) \cup {q}
      BY DEF ServerAnswers, Serve
    <2> HIDE DEF q
    <2> QED
      BY <2>1, <2>2
  <1>7. AnswerOK(req, h)'
    BY <1>1, <1>2, <1>3, SameAnswer DEF HistoryOK
  <1>8. AnswerOK(q, h)'
    <2>1. FoundOK(q)'
      BY <1>6 DEF FoundOK
    <2>2. ReadOK(q, h)'
      BY <1>1, <1>6, <1>7 DEF AnswerOK, ReadOK
    <2>3. UpdateOK(q, h)'
      BY <1>1, <1>6, <1>7 DEF AnswerOK, UpdateOK
    <2> QED
      BY <2>1, <2>2, <2>3 DEF AnswerOK
  <1> QED
    BY <1>1, <1>3, <1>4, <1>5, <1>6, <1>8, RestFollows

\* Reading a row commutes with a type that came early.
LEMMA ReadRetyped ==
  ASSUME NEW R, OneRow(R), NEW t, NEW id
  PROVE  /\ Read(Retyped(R, t), id) = Retyped(Read(R, id), t)
         /\ Zeroed(Retyped(R, t)) = Retyped(Zeroed(R), t)
  <1>1. PICK P : P = Retyped(R, t)
    OBVIOUS
  <1>2. /\ OneRow(P) /\ (P = {} <=> R = {})
        /\ \A q \in P, r \in R :
               /\ q.unread = r.unread /\ q.lastRead = r.lastRead
               /\ q.type = t /\ q.starred = r.starred /\ q.member = r.member
    BY <1>1, RetypedRow
  <1>3. R = {} \/ \E r \in R, q \in P : TRUE
    BY <1>2
  <1>4. Read(P, id) = Retyped(Read(R, id), t)
    <2>1. /\ OneRow(Read(P, id)) /\ OneRow(Read(R, id))
          /\ (Read(P, id) = {} <=> P = {}) /\ (Read(R, id) = {} <=> R = {})
      BY <1>2, ReadHandled
    <2>2. \A p \in Read(P, id), q \in Read(R, id) :
             /\ p.unread = q.unread /\ p.lastRead = q.lastRead
             /\ p.type = t /\ p.starred = q.starred /\ p.member = q.member
      BY <1>2, <1>3, <2>1, ReadHandled
    <2>3. PICK S : S = Retyped(Read(R, id), t)
      OBVIOUS
    <2>4. /\ OneRow(S) /\ (S = {} <=> Read(R, id) = {})
          /\ \A q \in S, r \in Read(R, id) :
               /\ q.unread = r.unread /\ q.lastRead = r.lastRead
               /\ q.type = t /\ q.starred = r.starred /\ q.member = r.member
      BY <2>1, <2>3, RetypedRow
    <2>5. R = {} \/ \E r \in R, q \in Read(R, id) : TRUE
      BY <2>1
    <2>6. /\ Alike(Read(P, id), S)
          /\ \A q \in Read(P, id), r \in S :
               q.unread = r.unread /\ q.lastRead = r.lastRead
      BY <1>2, <2>1, <2>2, <2>4, <2>5 DEF Alike
    <2> QED
      BY <2>1, <2>3, <2>4, <2>6, SameRows
  <1>5. Zeroed(P) = Retyped(Zeroed(R), t)
    <2>1. /\ OneRow(Zeroed(P)) /\ OneRow(Zeroed(R))
          /\ (Zeroed(P) = {} <=> P = {}) /\ (Zeroed(R) = {} <=> R = {})
      BY <1>2, ZeroHandled
    <2>2. \A p \in Zeroed(P), q \in Zeroed(R) :
             /\ p.unread = q.unread /\ p.lastRead = q.lastRead
             /\ p.type = t /\ p.starred = q.starred /\ p.member = q.member
      BY <1>2, <1>3, <2>1, ZeroHandled
    <2>3. PICK S : S = Retyped(Zeroed(R), t)
      OBVIOUS
    <2>4. /\ OneRow(S) /\ (S = {} <=> Zeroed(R) = {})
          /\ \A q \in S, r \in Zeroed(R) :
               /\ q.unread = r.unread /\ q.lastRead = r.lastRead
               /\ q.type = t /\ q.starred = r.starred /\ q.member = r.member
      BY <2>1, <2>3, RetypedRow
    <2>5. R = {} \/ \E r \in R, q \in Zeroed(R) : TRUE
      BY <2>1
    <2>6. /\ Alike(Zeroed(P), S)
          /\ \A q \in Zeroed(P), r \in S :
               q.unread = r.unread /\ q.lastRead = r.lastRead
      BY <1>2, <2>1, <2>2, <2>4, <2>5 DEF Alike
    <2> QED
      BY <2>1, <2>3, <2>4, <2>6, SameRows
  <1> QED
    BY <1>1, <1>4, <1>5

\* An answer to mark-as-read that is no older than what has passed: if nothing
\* on its way breaks the reading position, the row's is the server's.
LEMMA ReadKnown ==
  ASSUME FollowInv, NEW h, HistoryOK(h), NEW req \in reqs, req.stage = "done",
         req.op \in {"read", "readAll"}, ~(passed > req.at), req.exact,
         NEW Q, Known(Q, h),
         NEW R, R = IF req.op = "read" THEN Read(Q, req.id) ELSE Zeroed(Q)
  PROVE  Known(R, h)
  <1>1. passed \in Nat /\ Len(stream) \in Nat
    BY DEF FollowInv
  <1>2. /\ OneRow(Q) /\ Alike(Q, h[0])
        /\ Q = h[0] \/ Broken(h, 0) \/ CatchesUp(Q, h)
    BY DEF Known
  <1>3. /\ OneRow(R) /\ (R = {} <=> Q = {})
        /\ \A q \in R, r \in Q :
             /\ q.unread = 0
             /\ q.lastRead = IF req.op = "read" THEN req.id ELSE r.lastRead
             /\ q.type = r.type /\ q.starred = r.starred /\ q.member = r.member
    BY <1>2, ReadHandled, ZeroHandled
  <1>4. Alike(R, h[0])
    BY <1>2, <1>3 DEF Alike
  <1>5. ASSUME ~Broken(h, 0) PROVE CatchesUp(R, h)
    <2> DEFINE k == req.at - passed
    <2>1. req.at \in Nat /\ req.at <= passed + Len(stream)
          /\ (req.at >= passed =>
                \A r \in h[k] :
                    r.unread = 0 /\ (req.op = "read" => r.lastRead = req.id))
      BY DEF HistoryOK, AnswerOK, ReadOK, Now
    <2>2. req.at >= passed
      BY <1>1, <2>1
    <2>3. k \in 0..Len(stream) /\ 0 \in 0..Len(stream)
      BY <1>1, <2>1, <2>2
    <2>4. \A r \in h[k] :
             r.unread = 0 /\ (req.op = "read" => r.lastRead = req.id)
      BY <2>1, <2>2
    <2> HIDE DEF k
    <2>5. ~Broken(h, k) /\ h[k] # {}
      <3>1. \A i \in (k + 1)..Len(stream) : i \in (0 + 1)..Len(stream)
        BY <1>1, <2>3
      <3>2. \A i \in k..Len(stream) : i \in 0..Len(stream)
        BY <1>1, <2>3
      <3>3. k \in k..Len(stream)
        BY <1>1, <2>3
      <3> QED
        BY <1>5, <3>1, <3>2, <3>3 DEF Broken
    <2>6. /\ \A r \in h[0] : r.lastRead = mine.lastRead
          /\ \A r \in h[k] : r.lastRead = mine.lastRead
      BY <1>5, <2>3, <2>5 DEF HistoryOK, Steady
    <2>7. OneRow(h[0])
      BY <2>3 DEF HistoryOK, Past
    <2>8. Close(R, h[0])
      <3> SUFFICES ASSUME NEW q \in R, NEW r \in h[0]
                   PROVE  q.lastRead = r.lastRead /\ q.unread <= r.unread
        BY DEF Close
      <3>1. PICK s \in Q : TRUE
        BY <1>3
      <3>2. q.unread = 0 /\ r.unread \in Nat
        BY <1>3, <2>7, <3>1 DEF OneRow
      <3>3. CASE req.op = "read"
        <4>1. PICK t \in h[k] : TRUE
          BY <2>5
        <4> QED
          BY <1>3, <2>4, <2>6, <3>1, <3>2, <3>3, <4>1
      <3>4. CASE req.op # "read"
        <4>1. s.lastRead = r.lastRead
          <5>1. CASE Q = h[0]
            BY <2>7, <3>1, <5>1 DEF OneRow
          <5>2. CASE CatchesUp(Q, h)
            BY <3>1, <5>2 DEF CatchesUp, Close
          <5> QED
            BY <1>2, <1>5, <5>1, <5>2
        <4> QED
          BY <1>3, <3>1, <3>2, <3>4, <4>1
      <3> QED
        BY <3>3, <3>4
    <2>9. \E i \in 0..Len(stream) : \A r \in h[i] : r.unread = 0
      BY <2>3, <2>4
    <2> QED
      BY <2>8, <2>9 DEF CatchesUp
  <1> QED
    BY <1>3, <1>4, <1>5 DEF Known

LEMMA ReadFollows ==
  ASSUME FollowInv, NEW req \in reqs, ReadSucceeds(req)
  PROVE  FollowInv'
  <1>1. /\ req.stage = "done" /\ req.op \in {"read", "readAll"}
        /\ reqs' \subseteq reqs /\ UNCHANGED <<server, line, fetch>>
        /\ skewed' = (skewed \/ passed > req.at \/ ~req.exact)
    BY DEF ReadSucceeds, Answered
  <1>2. row' = IF req.op = "read" THEN Read(row, req.id) ELSE Zeroed(row)
    <2>1. row' = {IF req.op = "read" THEN ReadRow(r, req.id)
                  ELSE [r EXCEPT !.unread = 0] : r \in row}
      BY DEF ReadSucceeds, Show
    <2> QED
      BY <2>1 DEF Read, Zeroed
  <1>3. PICK h : HistoryOK(h)
    BY DEF FollowInv
  <1>4. UNCHANGED <<passed, stream>>
    BY <1>1 DEF line
  <1>5. ListFetchOK(h)'
    BY <1>1, <1>3, <1>4 DEF ListFetchOK, HistoryOK, Now
  <1>6. RowOK(h)'
    <2> SUFFICES ASSUME ~skewed'
                 PROVE  \E R : /\ Known(R, h)'
                               /\ \/ row' = R
                                  \/ TypeComes(h)' /\ \E t : row' = Retyped(R, t)
      BY DEF RowOK
    <2>1. ~skewed /\ ~(passed > req.at) /\ req.exact
      BY <1>1, Zenon
    <2>2. PICK Q : /\ Known(Q, h)
                   /\ row = Q \/ (TypeComes(h) /\ \E t : row = Retyped(Q, t))
      BY <1>3, <2>1 DEF HistoryOK, RowOK
    <2>3. PICK R : R = IF req.op = "read" THEN Read(Q, req.id) ELSE Zeroed(Q)
      OBVIOUS
    <2>4. Known(R, h)
      BY <1>1, <1>3, <2>1, <2>2, <2>3, ReadKnown
    <2>5. row' = R \/ (TypeComes(h) /\ \E t : row' = Retyped(R, t))
      <3>1. CASE row = Q
        BY <1>2, <2>3, <3>1
      <3>2. CASE TypeComes(h) /\ \E t : row = Retyped(Q, t)
        <4>1. PICK t : row = Retyped(Q, t)
          BY <3>2
        <4>2. OneRow(Q)
          BY <2>2 DEF Known
        <4>3. row' = Retyped(R, t)
          BY <1>2, <2>3, <4>1, <4>2, ReadRetyped
        <4> QED
          BY <3>2, <4>3
      <3> QED
        BY <2>2, <3>1, <3>2
    <2>6. Known(R, h)' /\ (TypeComes(h) => TypeComes(h)')
      BY <1>4, <2>4 DEF Known, Broken, CatchesUp, TypeComes
    <2> QED
      BY <2>5, <2>6
  <1> QED
    BY <1>1, <1>3, <1>5, <1>6, RestFollows

\* The answer to an update: its type is the row's of now, or will be.
LEMMA UpdateFollows ==
  ASSUME FollowInv, NEW req \in reqs, UpdateSucceeds(req)
  PROVE  FollowInv'
  <1>1. /\ req.stage = "done" /\ req.op = "update"
        /\ reqs' \subseteq reqs /\ UNCHANGED <<server, line, fetch>>
        /\ skewed' = (skewed \/ passed > req.at)
    BY DEF UpdateSucceeds, Answered
  <1>2. row' = Retyped(row, req.type)
    BY DEF UpdateSucceeds, Show, Retyped
  <1>3. PICK h : HistoryOK(h)
    BY DEF FollowInv
  <1>4. UNCHANGED <<passed, stream>> /\ passed \in Nat /\ Len(stream) \in Nat
    BY <1>1 DEF line, FollowInv
  <1>5. ListFetchOK(h)'
    BY <1>1, <1>3, <1>4 DEF ListFetchOK, HistoryOK, Now
  <1>6. RowOK(h)'
    <2> SUFFICES ASSUME ~skewed'
                 PROVE  \E R : /\ Known(R, h)'
                               /\ \/ row' = R
                                  \/ TypeComes(h)' /\ \E t : row' = Retyped(R, t)
      BY DEF RowOK
    <2>1. ~skewed /\ ~(passed > req.at)
      BY <1>1, Zenon
    <2>2. PICK Q : /\ Known(Q, h)
                   /\ row = Q \/ (TypeComes(h) /\ \E t : row = Retyped(Q, t))
      BY <1>3, <2>1 DEF HistoryOK, RowOK
    <2>3. OneRow(Q) /\ Alike(Q, h[0])
      BY <2>2 DEF Known
    <2>4. row' = Retyped(Q, req.type)
      BY <1>2, <2>2, <2>3, RetypedOnce
    <2>5. /\ req.at \in Nat /\ req.at <= passed + Len(stream)
          /\ req.at >= passed =>
                \A r \in h[req.at - passed] : r.type = req.type
          /\ req.at > passed =>
                \/ Skews(stream[req.at - passed], h[(req.at - passed) - 1])
                \/ stream[req.at - passed].kind = "updated"
      BY <1>1, <1>3 DEF HistoryOK, AnswerOK, UpdateOK, Now
    <2>6. ASSUME req.at > passed PROVE TypeComes(h)
      <3>1. PICK i : i = req.at - passed
        OBVIOUS
      <3>2. i \in 1..Len(stream)
        BY <1>4, <2>5, <2>6, <3>1
      <3>3. Skews(stream[i], h[i - 1]) \/ stream[i].kind = "updated"
        BY <2>5, <2>6, <3>1
      <3> QED
        BY <3>2, <3>3 DEF TypeComes
    <2>7. ASSUME req.at = passed PROVE row' = Q
      <3>1. req.at - passed = 0 /\ req.at >= passed
        BY <1>4, <2>7
      <3>2. \A r \in h[0] : r.type = req.type
        BY <2>5, <3>1
      <3>3. \A q \in Q : q.type = req.type
        BY <2>3, <3>2 DEF Alike
      <3> QED
        BY <2>3, <2>4, <3>3, RetypedOnce
    <2>8. Known(Q, h)' /\ (TypeComes(h) => TypeComes(h)')
      BY <1>4, <2>2 DEF Known, Broken, CatchesUp, TypeComes
    <2>9. row' = Q \/ (TypeComes(h) /\ \E t : row' = Retyped(Q, t))
      <3>1. req.at > passed \/ req.at = passed
        BY <1>4, <2>1, <2>5
      <3> QED
        BY <2>4, <2>6, <2>7, <3>1
    <2> QED
      BY <2>8, <2>9
  <1> QED
    BY <1>1, <1>3, <1>5, <1>6, RestFollows

LEMMA AnswerFollows ==
  ASSUME FollowInv, NEW req \in reqs,
         \/ ServerRefuses(req) \/ ChangeSucceeds(req) \/ ChangeFails(req)
         \/ StarSucceeds(req) \/ StarFails(req)
  PROVE  FollowInv'
  <1>1. /\ UNCHANGED <<server, line>>
        /\ skewed' = TRUE \/ UNCHANGED <<row, skewed>>
        /\ fetch'.stage = "asked" \/ fetch' = fetch
    <2>1. ServerRefuses(req) \/ ChangeFails(req) => UNCHANGED <<row, skewed, fetch>>
      BY DEF ServerRefuses, ChangeFails, Serve
    <2>2. ChangeSucceeds(req) \/ StarSucceeds(req) =>
            UNCHANGED <<row, skewed>> /\ fetch'.stage = "asked"
      BY DEF ChangeSucceeds, StarSucceeds, StarSettled, Asked
    <2>3. StarFails(req) => skewed' = TRUE /\ fetch'.stage = "asked"
      BY DEF StarFails, StarSettled, Asked
    <2>4. UNCHANGED <<server, line>>
      BY DEF ServerRefuses, ChangeSucceeds, ChangeFails, StarSucceeds,
             StarFails, Answered
    <2> QED
      BY <2>1, <2>2, <2>3, <2>4
  <1>2. \A q \in reqs' : q \in reqs \/ q.stage = "failed"
    BY DEF ServerRefuses, Serve, Answer, ChangeSucceeds, ChangeFails,
           StarSucceeds, StarFails, Answered
  <1>3. PICK h : HistoryOK(h)
    BY DEF FollowInv
  <1>4. /\ passed \in Nat /\ stream \in Seq(Entries) /\ Coarser
        /\ UNCHANGED <<passed, stream>>
    BY <1>1, SameIsCoarser DEF FollowInv, line
  <1>5. RowOK(h)'
    BY <1>1, <1>3, <1>4, RowStays
  <1>6. ListFetchOK(h)'
    BY <1>1, <1>3, <1>4 DEF ListFetchOK, HistoryOK, Now
  <1> QED
    BY <1>1, <1>2, <1>3, <1>5, <1>6, RestFollows

-----------------------------------------------------------------------------

LEMMA NextFollows ==
  ASSUME FollowInv, Next
  PROVE  FollowInv'
  <1>1. CASE Settle
    BY <1>1, FindsFollows, MarksFollows, DoesFollows, AnswersFollows,
       ReadFollows, UpdateFollows, AnswerFollows DEF Settle
  <1> QED
    BY <1>1, ElsewhereFollows, AnnounceFollows, EventFollows, FetchFollows,
       UserFollows DEF Next, Step

LEMMA InitFollows == ASSUME Init PROVE FollowInv
  <1>1. ServerOK
    <2>1. chan.state = "none" => mine = NotMember
      BY DEF Init, NotMember
    <2>2. log = <<>> /\ Len(log) = 0 /\ 0..0 = {0}
      BY DEF Init
    <2>3. mine \in [member : BOOLEAN, lastRead : 0..Len(log), starred : BOOLEAN]
      BY <2>2 DEF Init
    <2> QED
      BY <2>1, <2>2, <2>3 DEF Init, ServerOK, InOrder
  <1>2. PICK h : h = [i \in {0} |-> ServerRow]
    OBVIOUS
  <1>3. stream = <<>> /\ Len(stream) = 0 /\ h[0] = row /\ row = ServerRow
        /\ 0..0 = {0} /\ 1..0 = {} /\ passed = 0
    BY <1>2 DEF Init
  <1>4. OneRow(row) /\ \A r \in row : r.lastRead = mine.lastRead
    BY <1>1, <1>3, ServerFits DEF Fits
  <1>5. Past(h) /\ Steady(h)
    BY <1>3, <1>4 DEF Past, Steady
  <1>6. RowOK(h)
    BY <1>3, <1>4 DEF RowOK, Known, Alike, OneRow
  <1>7. ListFetchOK(h) /\ \A req \in reqs : AnswerOK(req, h)
    BY DEF Init, NoFetch, ListFetchOK
  <1>8. sent \in Nat /\ sent <= Len(stream) /\ stream \in Seq(Entries)
    BY <1>3 DEF Init
  <1> QED
    BY <1>1, <1>3, <1>5, <1>6, <1>7, <1>8 DEF FollowInv, HistoryOK

\* With nothing on its way all that the row may lag behind is gone.
LEMMA StillFollows ==
  ASSUME FollowInv
  PROVE  RowFollowsServer
  <1> SUFFICES ASSUME Still, ~skewed PROVE row = ServerRow
    BY DEF RowFollowsServer
  <1>1. PICK h : HistoryOK(h)
    BY DEF FollowInv
  <1>2. stream = <<>> /\ Len(stream) = 0 /\ 0..0 = {0} /\ (0 + 1)..0 = {}
    BY DEF Still
  <1>3. h[0] = ServerRow /\ OneRow(h[0])
    BY <1>1, <1>2 DEF HistoryOK, Past
  <1>4. /\ OneRow(row) /\ Alike(row, h[0])
        /\ row = h[0] \/ Broken(h, 0) \/ CatchesUp(row, h)
    <2>1. ~TypeComes(h)
      BY <1>2 DEF TypeComes
    <2> QED
      BY <1>1, <2>1 DEF HistoryOK, RowOK, Known
  <1>5. CASE Broken(h, 0)
    <2>1. h[0] = {}
      BY <1>2, <1>5 DEF Broken
    <2> QED
      BY <1>3, <1>4, <2>1 DEF Alike
  <1>6. CASE CatchesUp(row, h)
    <2>1. Close(row, h[0]) /\ \A r \in h[0] : r.unread = 0
      BY <1>2, <1>6 DEF CatchesUp
    <2> QED
      BY <1>3, <1>4, <2>1, CloseToRead
  <1> QED
    BY <1>3, <1>4, <1>5, <1>6

\* When all has come in, the row that events, answers and fetches made is the
\* server's, but for the causes that skewed records, for any number of changes
\* and any of the user's requests (sse/cacheUpdaters.ts, hooks/useChannels.ts).
THEOREM RowsFollow == Spec => []RowFollowsServer
  <1>1. Init => FollowInv
    BY InitFollows
  <1>2. FollowInv /\ [Next]_vars => FollowInv'
    <2> SUFFICES ASSUME FollowInv, [Next]_vars PROVE FollowInv'
      OBVIOUS
    <2>1. CASE Next
      BY <2>1, NextFollows
    <2>2. CASE UNCHANGED vars
      <3>1. PICK h : HistoryOK(h)
        BY DEF FollowInv
      <3>2. /\ UNCHANGED <<server, line>>
            /\ UNCHANGED <<row, fetch, reqs, skewed>>
        BY <2>2 DEF vars, client
      <3>3. /\ passed \in Nat /\ stream \in Seq(Entries) /\ Coarser
            /\ UNCHANGED <<passed, stream>>
        BY <3>2, SameIsCoarser DEF FollowInv, line
      <3>4. RowOK(h)'
        BY <3>1, <3>2, <3>3, RowStays
      <3>5. ListFetchOK(h)'
        BY <3>1, <3>2, <3>3 DEF HistoryOK, ListFetchOK, Now
      <3> QED
        BY <3>1, <3>2, <3>4, <3>5, RestFollows
    <2> QED
      BY <2>1, <2>2
  <1>3. FollowInv => RowFollowsServer
    BY StillFollows
  <1> QED
    BY <1>1, <1>2, <1>3, PTL DEF Spec
=============================================================================
