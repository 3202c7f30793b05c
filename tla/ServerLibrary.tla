--------------------------- MODULE ServerLibrary ---------------------------
(***************************************************************************)
(* The list of the server library (pages/probe/useServers.ts and the       *)
(* servers tab of pages/Probe.tsx): one query drives three reads, of a     *)
(* page, of the number of matches and of the facets.  A read that is asked *)
(* again aborts the one before.  Sorted by address the list is paged by    *)
(* cursors and counted separately, sorted otherwise by page numbers.       *)
(*                                                                         *)
(* `filter` stands for the groups, labels, tags and state the query can    *)
(* hold: each setter changes it and starts over at the first page.         *)
(***************************************************************************)
EXTENDS Page

CONSTANTS
    Words,      \* search texts, "" among them
    Narrowing,  \* values of the other filters, "all" among them
    MaxPages    \* how many pages a filter can match

Kinds == {"page", "count", "facets"}

Key(q) == <<q.word, q.filter>>
Keys   == Words \X Narrowing

\* A cursor is a place in the addresses of a filter.
Cursors == {NoOne} \cup [key : Keys, place : Nat]
Queries == [word : Words, filter : Narrowing, sort : {"ip", "group"}, page : Nat,
            cursor : Cursors]

\* The list begins with no search and no filter; no rows are not rows of a query.
ASSUME LibraryAssumption ==
    /\ "" \in Words /\ "all" \in Narrowing /\ MaxPages \in Nat
    /\ NoOne \notin Queries

FirstQuery == [word |-> "", filter |-> "all", sort |-> "ip", page |-> 1, cursor |-> NoOne]

FreshLibrary == [q |-> FirstQuery, typed |-> "", tagPage |-> 1, past |-> <<>>,
                 trails |-> [k \in Keys |-> <<NoOne>>], active |-> TRUE, visible |-> TRUE,
                 rows |-> NoOne, total |-> 0, base |-> 0, next |-> NoOne,
                 count |-> NoOne, facets |-> NoOne, busy |-> {}, failed |-> {}]

IsVisible(p) == p.active /\ p.visible

\* An address list is counted apart, under the filter that was asked for.
TotalCount(p) ==
    IF p.q.sort # "ip" THEN p.total
    ELSE IF p.count # NoOne /\ p.count.key = Key(p.q) THEN p.count.total ELSE NoOne

\* Sensitivity check of FreezeCountsFilter: a list that is still being read counts.
CanFreezeEarly(p) ==
    p.typed = p.q.word /\ TotalCount(p) \notin {NoOne, 0} /\ {"count", "page"} \cap p.failed = {}

CanFreeze(p) ==
    /\ p.typed = p.q.word
    /\ TotalCount(p) \notin {NoOne, 0}
    /\ "page" \notin p.busy \cup p.failed
    /\ p.q.sort = "ip" => "count" \notin p.busy \cup p.failed

----------------------------------------------------------------------------
(* Asking *)

Request(p, kind, recover) ==
    [kind |-> kind, q |-> p.q, tags |-> p.tagPage, recover |-> recover /\ kind = "page"]

\* Sensitivity check of ListAnswersItsQuery: a read leaves the one before it running.
WithBeside(p, kinds, recover) == wire \cup {Request(p, k, recover) : k \in kinds}

\* refreshPage, refreshCount and refreshFacets abort what they asked before.
With(p, kinds, recover) ==
    {r \in wire : r.kind \notin kinds} \cup {Request(p, k, recover) : k \in kinds}

Asking(p, kinds, recover) ==
    LET due == IF IsVisible(p)
               THEN kinds \ (IF p.q.sort = "ip" THEN {} ELSE {"count"}) ELSE {}
    IN  /\ wire' = With(p, due, recover)
        /\ page' = [p EXCEPT !.busy = @ \cup due, !.failed = @ \ due]

\* What a render with another query, tag page or tab reads again.
Follow(p) ==
    LET q == [p EXCEPT !.tagPage = IF Key(p.q) = Key(page.q) THEN @ ELSE 1,
                       !.typed = IF p.q.word = page.q.word THEN @ ELSE p.q.word]
        shown == p.active # page.active
    IN  Asking(q, (IF p.q # page.q \/ shown THEN {"page"} ELSE {})
                  \cup (IF Key(p.q) # Key(page.q) \/ q.tagPage # page.tagPage \/ shown
                        THEN {"facets"} ELSE {})
                  \cup (IF Key(p.q) # Key(page.q) \/ p.q.sort # page.q.sort \/ shown
                        THEN {"count"} ELSE {}), FALSE)

\* updateQuery: the first page, no cursor, and a new entry of the browser's history
Requery(q) ==
    Follow([page EXCEPT !.q = [q EXCEPT !.page = 1, !.cursor = NoOne],
                        !.past = Append(@, page.q), !.tagPage = 1])

----------------------------------------------------------------------------
(* The user *)

TypeSearch(w) ==
    /\ IsVisible(page) /\ w # page.typed
    /\ page' = [page EXCEPT !.typed = w]
    /\ UNCHANGED <<wire, world>>

SearchSettles ==
    /\ page.typed # page.q.word
    /\ Requery([page.q EXCEPT !.word = page.typed])
    /\ UNCHANGED world

SetFilter(f) ==
    /\ IsVisible(page) /\ f # page.q.filter
    /\ Requery([page.q EXCEPT !.filter = f])
    /\ UNCHANGED world

SetSort(s) ==
    /\ IsVisible(page) /\ s # page.q.sort
    /\ Requery([page.q EXCEPT !.sort = s])
    /\ UNCHANGED world

SetTagPage ==
    /\ IsVisible(page)
    /\ Follow([page EXCEPT !.tagPage = 3 - @])
    /\ UNCHANGED world

LastIndex(trail, cursor) ==
    LET at == {i \in DOMAIN trail : trail[i] = cursor}
    IN  IF at = {} THEN 1 ELSE CHOOSE i \in at : \A j \in at : j <= i

(* Next takes the cursor of the rows on the screen, previous the one before *)
(* this page's in the trail kept for the filter.                            *)
NextCursorPage ==
    LET trail == page.trails[Key(page.q)]
        kept  == SubSeq(trail, 1, LastIndex(trail, page.q.cursor))
    IN  /\ IsVisible(page) /\ page.q.sort = "ip" /\ page.next # NoOne
        /\ Follow([page EXCEPT !.trails[Key(page.q)] = Append(kept, page.next),
                               !.q.cursor = page.next, !.q.page = @ + 1,
                               !.past = Append(@, page.q)])
        /\ UNCHANGED world

PreviousCursorPage ==
    LET trail == page.trails[Key(page.q)]
        i     == LastIndex(trail, page.q.cursor)
    IN  /\ IsVisible(page) /\ page.q.sort = "ip" /\ i > 1
        /\ Follow([page EXCEPT !.trails[Key(page.q)] = SubSeq(trail, 1, i - 1),
                               !.q.cursor = trail[i - 1],
                               !.q.page = IF @ > 1 THEN @ - 1 ELSE 1,
                               !.past = Append(@, page.q)])
        /\ UNCHANGED world

SetPageNumber ==
    /\ IsVisible(page) /\ page.q.sort # "ip" /\ page.rows # NoOne
    /\ \E n \in {page.rows.page - 1, page.rows.page + 1} :
          /\ n \in 1..(IF page.total = 0 THEN 1 ELSE page.total)
          /\ Follow([page EXCEPT !.q.page = n])
    /\ UNCHANGED world

\* The browser's back button: the query is read from the address again.
GoBack ==
    /\ IsVisible(page) /\ page.past # <<>>
    /\ Follow([page EXCEPT !.q = Last(page.past), !.past = Front(@)])
    /\ UNCHANGED world

\* refreshPage closes over the total of the render in which the tab was opened.
ToggleLibraryTab ==
    /\ page.visible
    /\ Follow([page EXCEPT !.active = ~@,
                           !.base = IF TotalCount(page) = NoOne THEN 0 ELSE TotalCount(page)])
    /\ UNCHANGED world

\* Hiding the window aborts what is running, and seeing it again reads all.
Visibility ==
    /\ page.active
    /\ IF page.visible
       THEN /\ page' = [page EXCEPT !.visible = FALSE, !.busy = {}]
            /\ wire' = {}
       ELSE Asking([page EXCEPT !.visible = TRUE], Kinds, FALSE)
    /\ UNCHANGED world

RefreshLibrary(recover) ==
    /\ IsVisible(page)
    /\ Asking(page, Kinds, recover)
    /\ UNCHANGED world

RetryList == /\ IsVisible(page)
             /\ \E k \in page.failed : Asking(page, {k}, FALSE)
             /\ UNCHANGED world

----------------------------------------------------------------------------
(* The answers *)

Arrived(r, p) ==
    /\ page' = [p EXCEPT !.busy = @ \ {r.kind}]
    /\ wire' = wire \ {r}

\* The server rejects a cursor that was given out for another filter.
ForeignCursor(q) == q.sort = "ip" /\ q.cursor # NoOne /\ q.cursor.key # Key(q)
PlaceOf(q)   == IF q.cursor = NoOne THEN 1 ELSE q.cursor.place

PageArrived ==
    \E r \in Of("page") :
        LET matches == world[Key(r.q)]
            last    == IF matches = 0 THEN 1 ELSE matches
        IN  /\ ~ForeignCursor(r.q)
            /\ \/ /\ r.q.sort = "ip"
                  /\ Arrived(r, [page EXCEPT !.rows = r.q, !.total = page.base,
                         !.next = IF PlaceOf(r.q) < matches
                                  THEN [key |-> Key(r.q), place |-> PlaceOf(r.q) + 1]
                                  ELSE NoOne])
               \/ /\ r.q.sort # "ip" /\ ~(r.recover /\ r.q.page > last)
                  /\ Arrived(r, [page EXCEPT !.rows = r.q, !.total = matches])
               \/ /\ r.q.sort # "ip" /\ r.recover /\ r.q.page > last
                  /\ Follow([page EXCEPT !.q.page = last, !.busy = @ \ {"page"}])
            /\ UNCHANGED world

CountArrived ==
    \E r \in Of("count") :
        /\ Arrived(r, [page EXCEPT !.count = [key |-> Key(r.q), total |-> world[Key(r.q)]]])
        /\ UNCHANGED world

\* The facets are compared with the request the page would send now, too.
FacetsArrived ==
    \E r \in Of("facets") :
        /\ Arrived(r, IF <<Key(r.q), r.tags>> = <<Key(page.q), page.tagPage>>
                      THEN [page EXCEPT !.facets = [key |-> Key(r.q), tags |-> r.tags]]
                      ELSE page)
        /\ UNCHANGED world

LibraryReadFailed ==
    \E r \in wire :
        /\ r.kind \in Kinds
        /\ Arrived(r, [page EXCEPT !.failed = @ \cup {r.kind}])
        /\ UNCHANGED world

LibraryMoves ==
    /\ \E k \in Keys, n \in 0..MaxPages : n # world[k] /\ world' = [world EXCEPT ![k] = n]
    /\ UNCHANGED <<page, wire>>

LibraryInit ==
    LET p == FreshLibrary
    IN  /\ focus = "library" /\ deeds = 0
        /\ page = [p EXCEPT !.busy = Kinds]
        /\ wire = {Request(p, k, FALSE) : k \in Kinds}
        /\ world = [k \in Keys |-> MaxPages]

LibraryUser ==
    \/ \E w \in Words : TypeSearch(w)
    \/ \E f \in Narrowing : SetFilter(f)
    \/ \E s \in {"ip", "group"} : SetSort(s)
    \/ \E recover \in BOOLEAN : RefreshLibrary(recover)
    \/ SetTagPage \/ NextCursorPage \/ PreviousCursorPage \/ SetPageNumber
    \/ GoBack \/ ToggleLibraryTab \/ Visibility \/ RetryList
    \/ LibraryMoves

LibraryRuns ==
    SearchSettles \/ PageArrived \/ CountArrived \/ FacetsArrived \/ LibraryReadFailed

LibraryNext == \/ UserActs /\ LibraryUser
               \/ Runs /\ LibraryRuns

LibrarySpec == LibraryInit /\ [][LibraryNext]_pageVars

----------------------------------------------------------------------------
(* Rows that are on the screen, with no read of theirs running or failed,  *)
(* are the rows of the query the filters and the address show now: however *)
(* fast queries change, reads fail, the tab and the window come and go.    *)
ListAnswersItsQuery ==
    Shows("library") /\ IsVisible(page) /\ "page" \notin page.busy \cup page.failed =>
        page.rows = page.q

(* The number the button that freezes all matches shows counted the filter *)
(* the button would freeze.                                                *)
FreezeCountsFilter ==
    Shows("library") /\ IsVisible(page) /\ CanFreeze(page) =>
        IF page.q.sort = "ip" THEN page.count.key = Key(page.q)
        ELSE page.rows # NoOne /\ page.rows.sort # "ip" /\ Key(page.rows) = Key(page.q)
=============================================================================
