----------------------------- MODULE Discovery -----------------------------
(***************************************************************************)
(* What the network scans found (pages/probe/useDiscovery.ts, the first    *)
(* tab of pages/Probe.tsx and its dialogs): a list in pages of one record, *)
(* ticks that stay over pages and visits, and what is done with the ticked *)
(* records: imported into the library, changed, deleted or tested.         *)
(*                                                                         *)
(* A tick is the number of a record; the target to test is remembered from *)
(* the rows that were on the screen.  Both are kept in the session storage. *)
(***************************************************************************)
EXTENDS Page

CONSTANTS
    MaxFound,    \* records the scans can find
    Named        \* the records that match the search text "x"

ASSUME FoundAssumption == MaxFound \in Nat

Records == 1..MaxFound

Matching(found, imported, q) ==
    {i \in found : /\ q.word = "x" => i \in Named
                   /\ q.library = "new" => i \notin imported}

FirstPage == [word |-> "", library |-> "all", page |-> 1]

(* A mount reads the query from the address and the ticks from the session. *)
Visited(q, chosen, targets, handed) ==
    [q |-> q, typed |-> "", rows |-> {}, at |-> 1, total |-> 0, tab |-> TRUE, seen |-> TRUE,
     chosen |-> chosen, targets |-> targets \cap chosen, handed |-> handed,
     dialog |-> NoOne, saving |-> FALSE]

AskRows(q, recover) == [kind |-> "results", q |-> q, recover |-> recover, answer |-> NoOne]

DiscoveryInit ==
    /\ focus = "discovery" /\ deeds = 0
    /\ page = Visited(FirstPage, {}, {}, {})
    /\ wire = {AskRows(FirstPage, TRUE)}
    /\ \E n \in Records : world = [found |-> 1..n, imported |-> {}, last |-> n]

----------------------------------------------------------------------------
(* Reading the rows *)

Acts == {r \in wire : r.kind # "results"}

\* refreshPage aborts what it asked before; nothing is asked for a tab that is not seen.
RowsFor(p, acts, recover) ==
    /\ page' = p
    /\ wire' = IF p.tab /\ p.seen THEN acts \cup {AskRows(p.q, recover)}
               ELSE acts \cup Of("results")

ShowQuery(q) == RowsFor([page EXCEPT !.q = q], Acts, FALSE)

PollRows ==
    /\ page.tab /\ page.seen
    /\ RowsFor(page, Acts, TRUE)
    /\ UNCHANGED world

RowsRead ==
    \E r \in Of("results") :
        /\ r.answer = NoOne
        /\ LET all == Matching(world.found, world.imported, r.q)
           IN  wire' = Acts \cup {[r EXCEPT !.answer =
                          [rows |-> {<<i, i \in world.imported>> : i \in NthOf(all, r.q.page)},
                           total |-> Cardinality(all)]]}
        /\ UNCHANGED <<page, world>>

\* Sensitivity check of TicksKept: only the rows on the screen have targets.
LearnedHere(targets, rows) == {row[1] : row \in rows}

\* Targets are added, those of earlier pages stay.
Learned(targets, rows) == targets \cup {row[1] : row \in rows}

RowsShown ==
    \E r \in Of("results") :
        /\ r.answer # NoOne
        /\ LET last == IF r.answer.total = 0 THEN 1 ELSE r.answer.total
           IN  IF r.recover /\ r.q.page > last
               THEN ShowQuery([page.q EXCEPT !.page = last])
               ELSE /\ page' = [page EXCEPT !.rows = r.answer.rows, !.at = r.q.page,
                                            !.total = r.answer.total,
                                            !.targets = Learned(@, r.answer.rows)]
                    /\ wire' = Acts
        /\ UNCHANGED world

\* A read that fails is not reported: the rows stay until the next poll.
RowsLost ==
    /\ Of("results") # {}
    /\ wire' = Acts
    /\ UNCHANGED <<page, world>>

----------------------------------------------------------------------------
(* Filters and pages *)

OnTab == page.tab /\ page.seen /\ page.dialog = NoOne

TypeRecord ==
    /\ OnTab
    /\ page' = [page EXCEPT !.typed = IF @ = "x" THEN "" ELSE "x"]
    /\ UNCHANGED <<wire, world>>

(* The box is empty when the page is entered, whatever the address asked    *)
(* for, and overwrites the query after its delay.                           *)
RecordSearchSettles ==
    /\ page.typed # page.q.word
    /\ ShowQuery([page.q EXCEPT !.word = page.typed, !.page = 1])
    /\ UNCHANGED world

SetRecordFilter ==
    /\ OnTab
    /\ ShowQuery([page.q EXCEPT !.library = IF @ = "all" THEN "new" ELSE "all", !.page = 1])
    /\ UNCHANGED world

TurnPage ==
    /\ OnTab
    /\ \E n \in {page.at - 1, page.at + 1} :
          /\ 1 <= n /\ n <= page.total
          /\ ShowQuery([page.q EXCEPT !.page = n])
    /\ UNCHANGED world

\* Another section of the same component; the ticks stay, what is read is aborted.
ToggleDiscovery ==
    /\ page.dialog = NoOne
    /\ LET p == [page EXCEPT !.tab = ~@]
       IN  IF page.tab THEN page' = p /\ wire' = Acts ELSE RowsFor(p, Acts, TRUE)
    /\ UNCHANGED world

ToggleWindow ==
    /\ page.tab
    /\ RowsFor([page EXCEPT !.seen = ~@], Acts, TRUE)
    /\ UNCHANGED world

----------------------------------------------------------------------------
(* Ticks and dialogs *)

Tickable == {row[1] : row \in {row \in page.rows : ~row[2]}}

TickRecord ==
    /\ OnTab
    /\ \E i \in Tickable :
          page' = [page EXCEPT !.chosen = IF i \in @ THEN @ \ {i} ELSE @ \cup {i}]
    /\ UNCHANGED <<wire, world>>

TickPage ==
    /\ OnTab /\ Tickable # {}
    /\ page' = [page EXCEPT !.chosen =
                   IF Tickable \subseteq @ THEN @ \ Tickable ELSE @ \cup Tickable]
    /\ UNCHANGED <<wire, world>>

OpenRecordDialog ==
    /\ OnTab
    /\ \/ /\ page.chosen # {}
          /\ \E d \in {"import", "edit", "delete"} : page' = [page EXCEPT !.dialog = d]
       \/ \E i \in Tickable : page' = [page EXCEPT !.dialog = "import", !.chosen = {i}]
    /\ UNCHANGED <<wire, world>>

\* The answer of a dialog that was closed finds its page, not its dialog.
Disowned == {[r EXCEPT !.own = FALSE] : r \in Acts}

Closed(p) == [p EXCEPT !.dialog = NoOne, !.saving = FALSE]

CloseRecordDialog ==
    /\ page.dialog # NoOne
    /\ page' = Closed(page)
    /\ wire' = Disowned \cup Of("results")
    /\ UNCHANGED world

(* What a dialog sends is about the records ticked when it was confirmed.   *)
(* The confirmation of a deletion closes with the click.                    *)
ConfirmRecords ==
    /\ page.dialog # NoOne /\ ~page.saving /\ page.chosen # {} /\ Cardinality(Acts) < MaxWire[focus]
    /\ LET own == page.dialog # "delete"
       IN  /\ page' = IF own THEN [page EXCEPT !.saving = TRUE] ELSE Closed(page)
           /\ wire' = wire \cup {[kind |-> page.dialog, ids |-> page.chosen, own |-> own,
                                  here |-> TRUE, done |-> FALSE]}
    /\ UNCHANGED world

Without(ids) == [world EXCEPT !.found = @ \ ids, !.imported = @ \ ids]

RecordsServed ==
    \E r \in Acts :
        /\ ~r.done
        /\ world' = CASE r.kind = "import" -> [world EXCEPT !.imported = @ \cup (r.ids \cap world.found)]
                      [] r.kind = "delete" -> Without(r.ids)
                      [] OTHER -> world
        /\ wire' = (wire \ {r}) \cup {[r EXCEPT !.done = TRUE]}
        /\ UNCHANGED page

\* Sensitivity check of RecordTicksKept: what is ticked by now is taken for what was sent.
UntickedNow(p, r) == [p EXCEPT !.chosen = {}]

Unticked(p, r) == IF r.kind = "edit" THEN p ELSE [p EXCEPT !.chosen = @ \ r.ids]

(* The dialog that is open closes, be it of this answer or of a later one,  *)
(* and the rows are read again.                                             *)
RecordsAnswered ==
    \E r \in Acts :
        /\ r.done
        /\ IF ~r.here THEN page' = page /\ wire' = wire \ {r}
           ELSE LET p == Unticked(page, r)
                    q == IF page.dialog = r.kind THEN Closed(p) ELSE p
                IN  /\ page' = q
                    /\ wire' = (IF page.dialog = r.kind THEN {[a EXCEPT !.own = FALSE] : a \in Acts \ {r}}
                                ELSE Acts \ {r})
                               \cup (IF page.seen THEN {AskRows(page.q, TRUE)} ELSE Of("results"))
        /\ UNCHANGED world

RecordsFailed ==
    \E r \in Acts :
        /\ page' = IF r.own THEN [page EXCEPT !.saving = FALSE] ELSE page
        /\ wire' = wire \ {r}
        /\ UNCHANGED world

(* A route test gets the targets of the ticked records, in the session, and *)
(* the page is left.                                                        *)
RouteTest ==
    /\ OnTab /\ page.chosen \cap page.targets # {}
    /\ page' = Visited(page.q, page.chosen, page.targets, page.chosen \cap page.targets)
    /\ wire' = {[r EXCEPT !.here = FALSE, !.own = FALSE] : r \in Acts} \cup {AskRows(page.q, TRUE)}
    /\ UNCHANGED world

LeaveDiscovery ==
    /\ page.dialog = NoOne
    /\ \E q \in {page.q, FirstPage} :
          /\ page' = Visited(q, page.chosen, page.targets, page.handed)
          /\ wire' = {[r EXCEPT !.here = FALSE, !.own = FALSE] : r \in Acts} \cup {AskRows(q, TRUE)}
    /\ UNCHANGED world

\* A scan finds another record, or another console imports or deletes one.
RecordsMove ==
    /\ \/ /\ world.last < MaxFound
          /\ world' = [world EXCEPT !.found = @ \cup {world.last + 1}, !.last = @ + 1]
       \/ \E i \in world.found :
             world' \in {[world EXCEPT !.imported = @ \cup {i}], Without({i})}
    /\ UNCHANGED <<page, wire>>

DiscoveryUser ==
    \/ TypeRecord \/ SetRecordFilter \/ TurnPage \/ ToggleDiscovery \/ ToggleWindow
    \/ TickRecord \/ TickPage \/ OpenRecordDialog \/ CloseRecordDialog \/ ConfirmRecords
    \/ RouteTest \/ LeaveDiscovery \/ RecordsMove

DiscoveryRuns ==
    \/ PollRows \/ RowsRead \/ RowsShown \/ RowsLost \/ RecordSearchSettles
    \/ RecordsServed \/ RecordsAnswered \/ RecordsFailed

DiscoveryNext == \/ UserActs /\ DiscoveryUser
                 \/ Runs /\ DiscoveryRuns

DiscoverySpec == DiscoveryInit /\ [][DiscoveryNext]_pageVars

----------------------------------------------------------------------------
(* A route test tests every record that is ticked, also one that was ticked *)
(* on another page of the list, before another filter, or at another visit. *)
TickedIsTested ==
    Shows("discovery") /\ RouteTest => page'.handed = page.chosen

(* The answer of an import or a deletion takes no tick from a record that   *)
(* is neither imported nor deleted, whatever was ticked while it was on its *)
(* way.                                                                     *)
RecordTicksKept ==
    Shows("discovery") /\ RecordsAnswered =>
       page.chosen \ page'.chosen \subseteq
           world.imported \cup (Records \ world.found)
=============================================================================
