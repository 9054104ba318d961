---------------------------- MODULE WebhooksPage ----------------------------
(***************************************************************************)
(* The dashboard's page of webhooks, on top of the API (WebhookApi).       *)
(*                                                                         *)
(* The page shows one page of the list that "webhooks" answers, pages      *)
(* through it by cursors, and has four mutations; each has a client of     *)
(* WebhookApi, named for it.  When a mutation settles, the page fetches    *)
(* the list again.  Queries, mutations and renders interleave with each    *)
(* other and with what the user clicks.  Queries are kept by react-query,  *)
(* one per filter, of which only the current one is watched.               *)
(***************************************************************************)
EXTENDS WebhookApi, SequencesExt

CONSTANTS
    Limit,      \* rows of a page
    MaxAsks,    \* bound: mutations that are submitted
    Filter      \* searches: "any", and "b" for URLs with a text

Mutation == {"create", "update", "remove", "activate"}

ASSUME PageAssumption ==
    /\ Limit \in Nat \ {0} /\ MaxAsks \in Nat
    /\ Mutation \subseteq Client /\ Mutation \subseteq Ops
    /\ "any" \in Filter /\ Filter \subseteq {"any", "b"}
    /\ Hook \subseteq Nat \ {0} /\ IsFiniteSet(Hook)

VARIABLES
    screen,     \* "loading", "table", or "left" for an error or another page
    modal,      \* NoModal, CreateModal or the webhook to edit
    filter,     \* the filters of the last search
    query,      \* by filter, what react-query has
    fetch,      \* the request for the list that is under way
    table,      \* the rows shown, with the status they are shown with
    checked,    \* the webhooks whose box is checked
    owed,       \* ghost: webhooks that were in the list when it was last read
                \* from its start and have not been shown since
    asked,      \* mutations submitted so far
    joined      \* ghost: did a refetch join a request that was under way?

page == <<screen, modal, filter, query, fetch, table, checked, owed, asked, joined>>
vars == <<api, page>>

NoModal     == 0
CreateModal == -1

\* A page parameter: the cursor's webhook, 0 for none, and the direction.
First == [id |-> 0, reverse |-> FALSE]

NoList  == [rows |-> <<>>, next |-> FALSE, prev |-> FALSE]
NoQuery == [has |-> FALSE, param |-> First, list |-> NoList]
NoFetch == [at |-> "none", param |-> First, cursor |-> 0, list |-> NoList,
            owed |-> {}]

Request(param) ==
    [NoFetch EXCEPT !.at = IF param.id = 0 THEN "page" ELSE "cursor", !.param = param]

NewPage ==
    /\ screen' = "loading" /\ modal' = NoModal /\ filter' = "any"
    /\ query' = [f \in Filter |-> NoQuery]
    /\ fetch' = Request(First)
    /\ table' = <<>> /\ checked' = {} /\ owed' = {}
    /\ joined' = FALSE /\ UNCHANGED asked

Init ==
    /\ ApiInit
    /\ screen = "loading" /\ modal = NoModal /\ filter = "any"
    /\ query = [f \in Filter |-> NoQuery]
    /\ fetch = Request(First)
    /\ table = <<>> /\ checked = {} /\ owed = {}
    /\ joined = FALSE /\ asked = 0

-----------------------------------------------------------------------------
(* The query "webhooks": findMany. *)

\* Mutant: rows are compared by created_at alone.
LaterBySecond(a, b) == CreatedAt(a) > CreatedAt(b)

\* The order of the list, by created_at and then id.
Later(a, b) ==
    \/ CreatedAt(a) > CreatedAt(b)
    \/ CreatedAt(a) = CreatedAt(b) /\ a > b

\* The page never asks for active webhooks only: the status it searches for
\* becomes false or undefined, which findMany both takes for "any".
Matches(h, f) == Present(h) /\ (f = "any" \/ url[h] = f)

\* The rows behind the cursor, or before it when reverse is set.
Hits(f, cursor, reverse) ==
    { h \in Hook : /\ Matches(h, f)
                   /\ \/ cursor = 0
                      \/ reverse /\ Later(h, cursor)
                      \/ ~reverse /\ Later(cursor, h) }

\* orderBy, of webhooks numbered by created_at and id: newest first or, in
\* reverse, oldest first.
Before(g, h, reverse) == IF reverse THEN h > g ELSE g > h

\* The first Limit + 1 of them at most: the i-th has i - 1 of them before it.
Found(f, cursor, reverse) ==
    LET hits  == Hits(f, cursor, reverse)
        place == [h \in hits |-> Cardinality({ g \in hits : Before(g, h, reverse) })]
        many  == Cardinality(hits)
    IN  [i \in 1 .. IF many > Limit THEN Limit + 1 ELSE many |->
            CHOOSE h \in hits : place[h] = i - 1]

AsRow(h) == [id |-> h, active |-> row[h] = "active", url |-> url[h]]

\* Mutant: the row too many is not taken off.
AnswerUncut(f, cursor, param) ==
    LET reverse == cursor # 0 /\ param.reverse
        found   == Found(f, cursor, reverse)
        more    == Len(found) > Limit
        shown   == IF reverse THEN Reverse(found) ELSE found
    IN  [rows |-> [i \in 1 .. Len(shown) |-> AsRow(shown[i])],
         next |-> more \/ reverse,
         prev |-> cursor # 0 /\ (more \/ ~reverse)]

\* The answer: a row too many says that there is more.  Without one there is
\* something left only where the cursor came from.
Answer(f, cursor, param) ==
    LET reverse == cursor # 0 /\ param.reverse
        found   == Found(f, cursor, reverse)
        more    == Len(found) > Limit
        cut     == IF more THEN SubSeq(found, 1, Limit) ELSE found
        shown   == IF reverse THEN Reverse(cut) ELSE cut
    IN  [rows |-> [i \in 1 .. Len(shown) |-> AsRow(shown[i])],
         next |-> more \/ reverse,
         prev |-> cursor # 0 /\ (more \/ ~reverse)]

IdsOf(rows) == { rows[i].id : i \in DOMAIN rows }

\* What is owed once the list is shown; without a cursor it starts anew.
Owed(f, cursor, list) ==
    (IF cursor = 0 THEN { h \in Hook : Matches(h, f) } ELSE owed) \ IdsOf(list.rows)

Browser == <<screen, modal, filter, query, table, checked, owed, asked, joined>>

Fetching == fetch.at # "none"

\* A cursor whose row is gone is no cursor.
ReadCursor ==
    /\ fetch.at = "cursor"
    /\ fetch' = [fetch EXCEPT !.at = "page",
                    !.cursor = IF Present(fetch.param.id) THEN fetch.param.id ELSE 0]
    /\ UNCHANGED <<api, Browser>>

ReadPage ==
    /\ fetch.at = "page"
    /\ LET list == Answer(filter, fetch.cursor, fetch.param)
       IN  fetch' = [fetch EXCEPT !.at = "answer", !.list = list,
                                  !.owed = Owed(filter, fetch.cursor, list)]
    /\ UNCHANGED <<api, Browser>>

-----------------------------------------------------------------------------
(* What becomes of a query. *)

\* The page is left for an error page, the subscription page or the portal.
Leave ==
    /\ screen' = "left" /\ modal' = NoModal /\ filter' = "any"
    /\ query' = [f \in Filter |-> NoQuery]
    /\ fetch' = NoFetch
    /\ table' = <<>> /\ checked' = {} /\ owed' = {}
    /\ joined' = FALSE /\ UNCHANGED asked

\* The answer arrives and is shown.  The boxes are cleared unless the rows are
\* the same as before, which react-query then takes for the same object.
ShowAnswer ==
    /\ fetch.at = "answer"
    /\ query' = [query EXCEPT ![filter] =
                    [has |-> TRUE, param |-> fetch.param, list |-> fetch.list]]
    /\ table' = fetch.list.rows /\ owed' = fetch.owed /\ screen' = "table"
    /\ checked' = IF query[filter].has /\ query[filter].list.rows = fetch.list.rows
                  THEN checked ELSE {}
    /\ fetch' = NoFetch
    /\ UNCHANGED <<api, modal, filter, asked, joined>>

\* The query fails: it is tried again, MAX_QUERY_RETRIES times at most, which
\* are not counted here, or the error is thrown and its page shown.
QueryFails ==
    /\ Fetching
    /\ \/ fetch' = Request(fetch.param) /\ UNCHANGED Browser
       \/ Leave
    /\ UNCHANGED api

\* The API denies it: this is not tried again.
QueryDenied ==
    /\ fetch.at \in {"cursor", "page"}
    /\ Leave
    /\ UNCHANGED api

\* The page is loaded anew.
Open ==
    /\ screen = "left"
    /\ NewPage
    /\ UNCHANGED api

\* The result of the blockchains query is a part of the key: when it changes,
\* all queries are new ones.  The rows stay until there are others.
Rekey ==
    /\ screen # "left"
    /\ query' = [f \in Filter |-> NoQuery]
    /\ fetch' = Request(First)
    /\ joined' = FALSE
    /\ UNCHANGED <<api, screen, modal, filter, table, checked, owed, asked>>

\* refetch: the page that is shown is asked for again, and a request under way
\* is cancelled, unless there is no page yet: then that request is joined.
Refetch ==
    IF fetch.at # "none" /\ ~query[filter].has
    THEN joined' = TRUE /\ UNCHANGED fetch
    ELSE fetch' = Request(query[filter].param) /\ joined' = FALSE

-----------------------------------------------------------------------------
(* What the user does. *)

Ids == IdsOf(table)

Clickable  == screen = "table" /\ modal = NoModal
Pending(c) == call[c].at # "idle"

\* The modals cover the page.  One that is submitted stays open until its
\* mutation settles, or is closed.
OpenModal(m) ==
    /\ Clickable
    /\ modal' = m
    /\ UNCHANGED <<api, screen, filter, query, fetch, table, checked, owed, asked, joined>>

CloseModal ==
    /\ modal # NoModal
    /\ modal' = NoModal
    /\ UNCHANGED <<api, screen, filter, query, fetch, table, checked, owed, asked, joined>>

\* A mutation that is pending cannot be submitted again.
Submit(c, ids) ==
    /\ asked < MaxAsks /\ asked' = asked + 1
    /\ Ask(c, c, ids)
    /\ UNCHANGED <<screen, modal, filter, query, fetch, table, checked, owed, joined>>

SubmitCreate == modal = CreateModal /\ Submit("create", {})
SubmitEdit   == modal \in Hook /\ Submit("update", {modal})

\* One box, or the box for all.
Check(boxes) ==
    /\ Clickable
    /\ checked' = boxes
    /\ UNCHANGED <<api, screen, modal, filter, query, fetch, table, owed, asked, joined>>

\* Only webhooks that are shown as inactive are activated.
ClickActivate ==
    /\ Clickable /\ ~Fetching /\ checked # {}
    /\ \A i \in DOMAIN table : table[i].id \in checked => ~table[i].active
    /\ Submit("activate", checked)

ClickRemove ==
    /\ Clickable /\ ~Fetching /\ checked # {}
    /\ Submit("remove", checked)

\* fetchNextPage and fetchPreviousPage: the cursor is the last or the first
\* row of the page, or none on an empty one.
Turn(param) ==
    /\ Clickable /\ ~Fetching
    /\ fetch' = Request(param) /\ joined' = FALSE
    /\ UNCHANGED <<api, screen, modal, filter, query, table, checked, owed, asked>>

ClickNext ==
    /\ query[filter].has /\ query[filter].list.next
    /\ LET rows == query[filter].list.rows
       IN  Turn([reverse |-> FALSE, id |-> IF rows = <<>> THEN 0 ELSE rows[Len(rows)].id])

ClickPrev ==
    /\ query[filter].has /\ query[filter].list.prev
    /\ LET rows == query[filter].list.rows
       IN  Turn([reverse |-> TRUE, id |-> IF rows = <<>> THEN 0 ELSE rows[1].id])

ClickRefresh ==
    /\ Clickable /\ ~Fetching
    /\ Refetch
    /\ UNCHANGED <<api, screen, modal, filter, query, table, checked, owed, asked>>

\* Another filter is another key.  What react-query still has of it is shown,
\* and the same page of it is asked for; else the rows stay meanwhile.
Search(f) ==
    /\ Clickable /\ ~Fetching /\ f # filter
    /\ filter' = f
    /\ fetch' = Request(query[f].param)
    /\ table' = IF query[f].has THEN query[f].list.rows ELSE table
    /\ checked' = IF query[f].has THEN {} ELSE checked
    /\ owed' = {} /\ joined' = FALSE
    /\ UNCHANGED <<api, screen, modal, query, asked>>

\* Mutant: after an edit the list is not fetched again.
AfterEditNothing(c) ==
    /\ modal' = IF c \in {"create", "update"} THEN NoModal ELSE modal
    /\ IF c = "update" THEN UNCHANGED <<fetch, joined>> ELSE Refetch

\* onSettled of the four mutations.  After create and remove the pagination is
\* said to be reset, but the data is set under another key than the query's.
After(c) ==
    /\ modal' = IF c \in {"create", "update"} THEN NoModal ELSE modal
    /\ Refetch

\* A mutation is answered.  Without a subscription the page is left; a page
\* that was left meanwhile does not hear of it.
Settled(c) ==
    /\ Receive(c)
    /\ IF screen = "left" THEN UNCHANGED page
       ELSE IF call[c].at = "denied" THEN Leave
       ELSE After(c) /\ UNCHANGED <<screen, filter, query, table, checked, owed, asked>>

-----------------------------------------------------------------------------

Server == ApiStep /\ UNCHANGED page

User ==
    \/ OpenModal(CreateModal) \/ \E h \in Ids : OpenModal(h)
    \/ CloseModal \/ SubmitCreate \/ SubmitEdit
    \/ \E h \in Ids : Check(IF h \in checked THEN checked \ {h} ELSE checked \cup {h})
    \/ \E boxes \in {{}, Ids} : Check(boxes)
    \/ ClickActivate \/ ClickRemove \/ ClickNext \/ ClickPrev \/ ClickRefresh
    \/ \E f \in Filter : Search(f)

Next ==
    \/ Server \/ User
    \/ ReadCursor \/ ReadPage \/ ShowAnswer \/ QueryFails \/ QueryDenied
    \/ Open \/ Rekey
    \/ \E c \in Mutation : Settled(c)

Spec == Init /\ [][Next]_vars

-----------------------------------------------------------------------------
(* Properties *)

Param    == [id : Hook \cup {0}, reverse : BOOLEAN]
ShownRow == [id : Hook, active : BOOLEAN, url : {"a", "b"}]
List(l)  == /\ l.rows \in Seq(ShownRow) /\ Len(l.rows) <= Limit
            /\ l.next \in BOOLEAN /\ l.prev \in BOOLEAN

\* Every variable has its type.
TypeOK ==
    /\ ApiTypeOK
    /\ screen \in {"loading", "table", "left"}
    /\ modal \in Hook \cup {NoModal, CreateModal} /\ filter \in Filter
    /\ \A f \in Filter : /\ query[f].has \in BOOLEAN /\ query[f].param \in Param
                         /\ List(query[f].list)
    /\ fetch.at \in {"none", "cursor", "page", "answer"}
    /\ fetch.param \in Param /\ fetch.cursor \in Hook \cup {0}
    /\ List(fetch.list) /\ fetch.owed \subseteq Hook
    /\ table \in Seq(ShownRow) /\ owed \subseteq Hook
    /\ checked \subseteq Hook /\ joined \in BOOLEAN /\ asked \in 0 .. MaxAsks

\* Whoever pages to the end of the list has been shown every webhook that was
\* in it all along, although others are created, edited and removed on the
\* way, the cursor's row among them, and answers are refetched or cancelled.
WalkComplete ==
    query[filter].has /\ ~query[filter].list.next =>
        \A h \in owed : ~Present(h)

\* Nothing is under way.
Quiet == /\ screen = "table" /\ ~Fetching
         /\ \A c \in Client : ~Pending(c)

\* When everything has settled, the table is what the database has: no answer
\* that was read before a mutation is shown after it.  A refetch that joined
\* the first request for a search is the exception.
ViewIsCurrent ==
    Quiet /\ ~joined =>
        LET param  == query[filter].param
            cursor == IF param.id # 0 /\ Present(param.id) THEN param.id ELSE 0
            now    == Answer(filter, cursor, param)
        IN  /\ table = now.rows
            /\ query[filter].list.next = now.next /\ query[filter].list.prev = now.prev
=============================================================================
