---------------------------- MODULE MessagePages ----------------------------
(***************************************************************************)
(* The window a client keeps on a channel's history: the infinite query of *)
(* useMessages.ts (which page is next, which is previous, at most MaxPages *)
(* of them), the jumps of useVirtualMessages.ts, the scroll sentinels of   *)
(* MessageList.tsx, the live messages that cacheUpdaters.ts puts on the    *)
(* first page, and the server's cursor queries (message/repository.go).    *)
(*                                                                         *)
(* The fetches of the query library are external: a fetch keeps the pages  *)
(* it started from and puts its result in place of whatever is cached when *)
(* it ends.  Message ids are 1, 2, ...; a deleted message stays listed.    *)
(* lost and skipped are history variables.                                 *)
(***************************************************************************)
EXTENDS Integers, Sequences, SequencesExt

CONSTANTS
    PageSize,  \* PAGE_SIZE, 50 in the code
    MaxPages,  \* maxPages, 20 in the code
    Backlog,   \* the messages of the channel before the client opens it
    MaxId      \* bound on the messages written

ASSUME PagesAssumption ==
    /\ PageSize \in Nat /\ PageSize > 1
    /\ MaxPages \in Nat \ {0}
    /\ Backlog \in Nat \ {0} /\ MaxId \in Nat /\ Backlog <= MaxId

VARIABLES
    written,    \* server: the newest message
    handled,    \* client: the newest message whose event has passed
    pages,      \* client: the cached pages, newest page first
    isDetached, \* client: useVirtualMessages' flag
    fetch,      \* client: the fetch under way
    jump,       \* client: the jump under way
    lost,       \* messages whose event was lost, or overwritten by a fetch
    skipped     \* messages a live one was put ahead of

pagesVars == <<written, handled, pages, isDetached, fetch, jump, lost, skipped>>

NoCursor == 0
NoPageFetch == [kind |-> "none", old |-> <<>>, read |-> 0, from |-> 0,
            lost |-> {}, skipped |-> {}]
NoJump == [target |-> 0, read |-> 0]

-----------------------------------------------------------------------------
(* The server: one page around, before or after a cursor. *)

Half == PageSize \div 2
Least(a, b) == IF a < b THEN a ELSE b
Greatest(a, b) == IF a < b THEN b ELSE a
Ascending(lo, hi) == [k \in 1..Greatest(0, hi - lo + 1) |-> lo + k - 1]
Descending(hi, lo) == Reverse(Ascending(lo, hi))

\* Mutant of HasMore: the extra row is not asked for, a full page is enough.
FullIsMore(rows, limit) == rows >= limit

\* One row more than the limit is asked for, and dropped.
HasMore(rows, limit) == rows > limit

Param(dir, cursor) == [dir |-> dir, cursor |-> cursor]
Page(param, msgs, more, newer) ==
    [param |-> param, msgs |-> msgs, more |-> more, newer |-> newer]

ListBefore(param, w) ==
    LET hi == IF param.cursor = NoCursor THEN w ELSE param.cursor - 1
    IN  Page(param, Descending(hi, Greatest(1, hi - PageSize + 1)),
             HasMore(hi, PageSize), FALSE)

ListAfter(param, w) ==
    Page(param, Ascending(param.cursor + 1, Least(w, param.cursor + PageSize)),
         HasMore(w - param.cursor, PageSize), FALSE)

ListAround(param, w) ==
    Page(param, Descending(Least(w, param.cursor + Half),
                           Greatest(1, param.cursor - Half + 1)),
         HasMore(param.cursor, Half), HasMore(w - param.cursor, Half))

List(param, w) ==
    IF param.dir = "around" THEN ListAround(param, w)
    ELSE IF param.dir = "after" THEN ListAfter(param, w)
    ELSE ListBefore(param, w)

-----------------------------------------------------------------------------
(* The client's page parameters: the empty set stands for undefined. *)

InitialPageParam == Param("before", NoCursor)

\* has_more comes with next_cursor, the page's last message.
NextPageParam(page) ==
    IF page.more THEN {Param("before", Last(page.msgs))} ELSE {}

\* Mutant of EvictedEdge: the first page is taken for the live edge.
NeverEvicted(page) == FALSE

\* A first page with a cursor: the live edge was evicted by maxPages.
EvictedEdge(page) ==
    page.param.cursor # NoCursor /\ page.param.dir = "before"

PreviousPageParam(page) ==
    LET newestId == IF page.param.dir = "after" THEN Last(page.msgs)
                                                ELSE page.msgs[1]
    IN  IF page.msgs # <<>> /\ ( \/ page.newer
                                 \/ page.param.dir = "after" /\ page.more
                                 \/ EvictedEdge(page) )
        THEN {Param("after", newestId)} ELSE {}

HasNext(ps) == ps # <<>> /\ NextPageParam(Last(ps)) # {}
HasPrevious(ps) == ps # <<>> /\ PreviousPageParam(ps[1]) # {}
Only(S) == CHOOSE x \in S : TRUE

\* The messages on the screen: all pages, sorted and without duplicates.
OnScreen(ps) == UNION {ToSet(ps[i].msgs) : i \in DOMAIN ps}
Oldest(S) == CHOOSE i \in S : \A j \in S : i <= j

-----------------------------------------------------------------------------
(* The query library: what a fetch puts in the cache. *)

\* Mutant of AddToEnd: the limit on pages is forgotten.
AddUnbounded(ps, p) == Append(ps, p)

AddToEnd(ps, p) == IF Len(ps) = MaxPages THEN Append(Tail(ps), p)
                                         ELSE Append(ps, p)
AddToStart(ps, p) == IF Len(ps) = MaxPages THEN <<p>> \o Front(ps)
                                           ELSE <<p>> \o ps

\* All pages again: the first with its parameter, each next from the last.
Refetched(ps, w) ==
    LET R[n \in 1..Greatest(1, Len(ps))] ==
          IF n = 1
          THEN <<List(IF ps = <<>> THEN InitialPageParam ELSE ps[1].param, w)>>
          ELSE IF Len(R[n - 1]) < n - 1 \/ ~HasNext(R[n - 1])
               THEN R[n - 1]
               ELSE Append(R[n - 1],
                           List(Only(NextPageParam(Last(R[n - 1]))), w))
    IN  R[Greatest(1, Len(ps))]

Result ==
    CASE fetch.kind = "all" -> Refetched(fetch.old, fetch.read)
      [] fetch.kind = "next" ->
           AddToEnd(fetch.old,
                    List(Only(NextPageParam(Last(fetch.old))), fetch.read))
      [] fetch.kind = "previous" ->
           AddToStart(fetch.old,
                      List(Only(PreviousPageParam(fetch.old[1])), fetch.read))

Fetch(kind, old) ==
    [kind |-> kind, old |-> old, read |-> 0, from |-> handled,
     lost |-> lost, skipped |-> skipped]

\* What of a set of explanations still matters for the pages cached.
Relevant(S, ps) == IF OnScreen(ps) = {} THEN {}
                   ELSE {i \in S : i > Oldest(OnScreen(ps))}

-----------------------------------------------------------------------------
PagesInit ==
    /\ written = Backlog /\ handled = Backlog
    /\ pages = <<>> /\ isDetached = FALSE
    /\ fetch = [NoPageFetch EXCEPT !.kind = "all", !.from = Backlog]
    /\ jump = NoJump /\ lost = {} /\ skipped = {}

\* Someone posts a message to the channel.
Post ==
    /\ written < MaxId
    /\ written' = written + 1
    /\ UNCHANGED <<handled, pages, isDetached, fetch, jump, lost, skipped>>

\* The messages that one put on the first page is ahead of: those still to be
\* loaded between that page and it, and, if its event is later than a fetch
\* that shows newer ones, those between it and them.
PassedBy(id) ==
    (IF HasPrevious(pages)
     THEN (Only(PreviousPageParam(pages[1])).cursor + 1)..(id - 1) ELSE {})
    \cup {i \in (id + 1)..written : \E j \in OnScreen(pages) : i < j}

\* Its event: the message goes to the front of the first page, wherever in
\* the channel's history that page is.
HandleNewOnFirstPage ==
    LET id == handled + 1
        fresh == pages # <<>> /\ id \notin OnScreen(pages)
    IN  /\ handled < written
        /\ handled' = id
        /\ pages' = IF fresh
                    THEN [pages EXCEPT ![1].msgs = <<id>> \o @] ELSE pages
        /\ skipped' = IF fresh THEN Relevant(skipped \cup PassedBy(id), pages')
                      ELSE skipped
        /\ lost' = Relevant(lost, pages')
        /\ UNCHANGED <<written, isDetached, fetch, jump>>

\* An event that this client never gets.
MissMessage ==
    /\ handled < written
    /\ handled' = handled + 1
    /\ lost' = Relevant(lost \cup {handled + 1}, pages)
    /\ UNCHANGED <<written, pages, isDetached, fetch, jump, skipped>>

\* The top sentinel: older messages.  Starting one fetch ends another.
FetchNextPage ==
    /\ HasNext(pages) /\ fetch.kind # "next"
    /\ fetch' = Fetch("next", pages)
    /\ UNCHANGED <<written, handled, pages, isDetached, jump, lost, skipped>>

\* The bottom sentinel: newer messages.
FetchPreviousPage ==
    /\ HasPrevious(pages) /\ fetch.kind # "previous"
    /\ fetch' = Fetch("previous", pages)
    /\ UNCHANGED <<written, handled, pages, isDetached, jump, lost, skipped>>

\* The window gets the focus after 30 s, the screen is opened again, or a
\* scheduled message is sent: all pages are fetched again.
Refetch ==
    /\ fetch = NoPageFetch
    /\ fetch' = Fetch("all", pages)
    /\ UNCHANGED <<written, handled, pages, isDetached, jump, lost, skipped>>

ServerAnswersFetch ==
    /\ fetch # NoPageFetch /\ fetch.read = 0
    /\ fetch' = [fetch EXCEPT !.read = written]
    /\ UNCHANGED <<written, handled, pages, isDetached, jump, lost, skipped>>

\* The result takes the place of what is cached, live messages included.
FetchArrives ==
    LET base == IF fetch.kind = "next" THEN fetch.from ELSE fetch.read
        kept == fetch.kind # "all"
    IN  /\ fetch.read # 0
        /\ pages' = Result
        /\ lost' = Relevant((IF kept THEN fetch.lost ELSE {})
                              \cup (base + 1)..handled, pages')
        /\ skipped' = Relevant(IF kept THEN fetch.skipped ELSE {}, pages')
        /\ fetch' = NoPageFetch
        /\ UNCHANGED <<written, handled, isDetached, jump>>

FetchFails ==
    /\ fetch # NoPageFetch
    /\ fetch' = NoPageFetch
    /\ UNCHANGED <<written, handled, pages, isDetached, jump, lost, skipped>>

\* jumpToMessage: a link to a message that is not on the screen.
JumpToMessage(m) ==
    /\ m <= written /\ pages # <<>> /\ m \notin OnScreen(pages)
    /\ jump = NoJump
    /\ jump' = [target |-> m, read |-> 0]
    /\ UNCHANGED <<written, handled, pages, isDetached, fetch, lost, skipped>>

ServerAnswersJump ==
    /\ jump # NoJump /\ jump.read = 0
    /\ jump' = [jump EXCEPT !.read = written]
    /\ UNCHANGED <<written, handled, pages, isDetached, fetch, lost, skipped>>

\* Its page replaces the cache; a fetch under way is not stopped.
JumpArrives ==
    /\ jump.read # 0
    /\ pages' = <<List(Param("around", jump.target), jump.read)>>
    /\ isDetached' = TRUE
    /\ lost' = Relevant((jump.read + 1)..handled, pages')
    /\ skipped' = {}
    /\ jump' = NoJump
    /\ UNCHANGED <<written, handled, fetch>>

\* The button: the query is reset and fetched from its initial parameter.
JumpToLatest ==
    /\ pages # <<>> /\ (isDetached \/ HasPrevious(pages))
    /\ isDetached' = FALSE
    /\ pages' = <<>> /\ lost' = {} /\ skipped' = {}
    /\ fetch' = [NoPageFetch EXCEPT !.kind = "all", !.from = handled]
    /\ UNCHANGED <<written, handled, jump>>

\* The user scrolls to the bottom of what is loaded.
OnReachBottom ==
    /\ pages # <<>> /\ isDetached /\ ~HasPrevious(pages)
    /\ isDetached' = FALSE
    /\ UNCHANGED <<written, handled, pages, fetch, jump, lost, skipped>>

PagesNext ==
    \/ Post \/ HandleNewOnFirstPage \/ MissMessage
    \/ FetchNextPage \/ FetchPreviousPage \/ Refetch
    \/ ServerAnswersFetch \/ FetchArrives \/ FetchFails
    \/ \E m \in 1..MaxId : JumpToMessage(m)
    \/ ServerAnswersJump \/ JumpArrives \/ JumpToLatest \/ OnReachBottom

PagesSpec == PagesInit /\ [][PagesNext]_pagesVars

-----------------------------------------------------------------------------
(* Properties. *)

Ids == 1..MaxId
PageOK(p) ==
    /\ p.param.dir \in {"before", "after", "around"}
    /\ p.param.cursor \in 0..MaxId
    /\ p.msgs \in Seq(Ids) /\ p.more \in BOOLEAN /\ p.newer \in BOOLEAN

PagesOK(ps) == Len(ps) <= MaxPages /\ \A i \in DOMAIN ps : PageOK(ps[i])

\* The variables have their types, and no cache holds more than maxPages.
PagesTypeOK ==
    /\ written \in Ids /\ handled \in 0..written
    /\ PagesOK(pages) /\ isDetached \in BOOLEAN
    /\ fetch.kind \in {"none", "all", "next", "previous"}
    /\ PagesOK(fetch.old) /\ fetch.read \in 0..written
    /\ fetch.from \in 0..handled
    /\ jump.target \in 0..written /\ jump.read \in 0..written
    /\ lost \subseteq Ids /\ skipped \subseteq Ids

\* The messages the screen should show and does not: those between the
\* oldest one shown and the one it would load newer messages from, or, when
\* it believes it is at the live edge, the newest it has heard of.
Holes ==
    IF OnScreen(pages) = {} THEN {}
    ELSE (Oldest(OnScreen(pages))
            ..(IF HasPrevious(pages)
               THEN Least(Only(PreviousPageParam(pages[1])).cursor, handled)
               ELSE handled))
         \ OnScreen(pages)

\* However the user scrolls, jumps and comes back, whatever maxPages evicts
\* and a refetch rebuilds, the list has a hole only for a message whose event
\* was lost or overtaken by a fetch, or that a live message was put ahead of:
\* on a first page that was not the live edge, or after newer ones were shown.
HolesAreKnown == Holes \subseteq lost \cup skipped

\* If the last page is not one that was fetched towards the newer end, the
\* client offers to load older messages exactly when there are some, and the
\* cursor it will use leaves no gap below what is shown.
OlderReachable ==
    (pages # <<>> /\ Last(pages).param.dir # "after") =>
        /\ HasNext(pages) <=> Oldest(OnScreen(pages)) > 1
        /\ HasNext(pages) => Only(NextPageParam(Last(pages))).cursor
                               >= Oldest(OnScreen(pages))

\* useVirtualMessages.ts: "Exit detached mode when user scrolls to bottom and
\* all newer pages are loaded": then nothing but lost events is missing.  The
\* code does not keep this (README, section 4).
DetachedUntilNewerLoaded ==
    [][(isDetached /\ ~isDetached' /\ pages' # <<>>)
           => Holes \subseteq lost]_pagesVars
=============================================================================
