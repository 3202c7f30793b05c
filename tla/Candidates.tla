---------------------------- MODULE Candidates ----------------------------
(***************************************************************************)
(* The candidates of a domain (pages/DomainCandidatesDialog.tsx): the pages *)
(* of its pool above, read again every fifteen seconds, and the pages of   *)
(* the server library below, searched and paged by cursors, from which     *)
(* servers are ticked and added.  A candidate can be removed, or made the  *)
(* one the domain points to.                                               *)
(*                                                                         *)
(* A page, of the pool or of the library, holds one server.                *)
(***************************************************************************)
EXTENDS Page

CONSTANTS
    Machines,   \* the servers of the library, numbers in the order of their addresses
    MaxTicked   \* how many can be ticked at a time

ASSUME MachinesAssumption == Machines \subseteq Nat /\ MaxTicked \in Nat /\ NoOne \notin Machines

Connectivity == {"all", "pass"}

PoolAndLibrary == {"members", "rows"}

Question(p) == [word |-> p.word, conn |-> p.conn, cursor |-> p.cursor]

FreshDialog(total) ==
    [shown |-> {}, total |-> total, current |-> NoOne, pinned |-> FALSE,
     at |-> 1, reading |-> PoolAndLibrary, failed |-> FALSE,
     text |-> NoOne, word |-> NoOne, conn |-> "all", cursor |-> NoOne, trail |-> <<NoOne>>,
     rows |-> {}, answers |-> NoOne, next |-> NoOne, ticked |-> {},
     adding |-> FALSE, removing |-> NoOne, asked |-> NoOne, target |-> NoOne, switching |-> FALSE]

ReadsOf(p, kinds) ==
    {IF k = "members" THEN [kind |-> k, at |-> p.at] ELSE [kind |-> k, q |-> Question(p)] : k \in kinds}

(* world: the pool, the server the domain points to, whether it is pinned,  *)
(* and the servers that pass their test.                                    *)
CandidatesInit ==
    /\ focus = "candidates" /\ deeds = 0
    /\ \E pool \in SUBSET Machines : \E current \in pool \cup {NoOne} :
          /\ world = [pool |-> pool, current |-> current, pinned |-> FALSE, pass |-> Machines]
          /\ page = FreshDialog(Cardinality(pool))
    /\ wire = ReadsOf(page, PoolAndLibrary)

----------------------------------------------------------------------------
(* The effects: a read that is asked again aborts the one before.           *)

Asked(p, w, kinds) ==
    /\ page' = [p EXCEPT !.reading = @ \cup kinds, !.failed = @ /\ "rows" \notin kinds]
    /\ wire' = {r \in w : r.kind \notin kinds} \cup ReadsOf(p, kinds)

Redrawn(p, w) ==
    Asked(p, w, (IF p.at # page.at THEN {"members"} ELSE {})
                \cup (IF <<Question(p), p.trail>> # <<Question(page), page.trail>> THEN {"rows"} ELSE {}))

MembersTick == Asked(page, wire, {"members"}) /\ UNCHANGED world

----------------------------------------------------------------------------
(* The library *)

\* One question at a time is in front of the dialog.
InDialog == page.asked = NoOne /\ page.target = NoOne

\* A search starts at the first page.
Anew(p) == [p EXCEPT !.cursor = NoOne, !.trail = <<NoOne>>]

TypeMachine ==
    /\ InDialog
    /\ \E w \in (Machines \cup {NoOne}) \ {page.text} : page' = [page EXCEPT !.text = w]
    /\ UNCHANGED <<wire, world>>

TextSettles ==
    /\ page.text # page.word
    /\ Redrawn(Anew([page EXCEPT !.word = page.text]), wire)
    /\ UNCHANGED world

ChooseConnectivity ==
    /\ InDialog
    /\ \E c \in Connectivity \ {page.conn} : Redrawn(Anew([page EXCEPT !.conn = c]), wire)
    /\ UNCHANGED world

NextRows ==
    /\ InDialog /\ "rows" \notin page.reading /\ page.next # NoOne
    /\ Redrawn([page EXCEPT !.trail = Append(@, page.next), !.cursor = page.next], wire)
    /\ UNCHANGED world

Before(p) == [p EXCEPT !.trail = Front(@), !.cursor = Last(Front(p.trail))]

PreviousRows ==
    /\ InDialog /\ "rows" \notin page.reading /\ Len(page.trail) > 1
    /\ Redrawn(Before(page), wire)
    /\ UNCHANGED world

(* The servers that answer a question, from its cursor on; a cursor that    *)
(* was given out for another search is rejected.                            *)
Answers(q) ==
    {m \in (IF q.conn = "all" THEN Machines ELSE world.pass) :
        /\ q.word \in {NoOne, m}
        /\ q.cursor # NoOne => m > q.cursor.after}

Misplaced(q) == q.cursor # NoOne /\ <<q.cursor.word, q.cursor.conn>> # <<q.word, q.conn>>

\* A later page that has become empty gives way to the one before it.
MachinesRead ==
    \E r \in Of("rows") :
        LET rows == NthOf(Answers(r.q), 1)
            p    == [page EXCEPT !.reading = @ \ {"rows"}, !.rows = rows, !.answers = r.q,
                        !.next = IF Cardinality(Answers(r.q)) > 1
                                 THEN [word |-> r.q.word, conn |-> r.q.conn, after |-> CHOOSE m \in rows : TRUE]
                                 ELSE NoOne]
        IN  /\ ~Misplaced(r.q)
            /\ Redrawn(IF page.cursor # NoOne /\ rows = {} /\ Len(page.trail) > 1 THEN Before(p) ELSE p,
                     wire \ {r})
            /\ UNCHANGED world

ReadingFailed ==
    \E r \in Of("rows") \cup Of("members") :
        /\ page' = [page EXCEPT !.reading = @ \ {r.kind}, !.failed = @ \/ r.kind = "rows"]
        /\ wire' = wire \ {r}
        /\ UNCHANGED world

----------------------------------------------------------------------------
(* The pool *)

MembersAs(p, at) ==
    [p EXCEPT !.shown = NthOf(world.pool, at), !.total = Cardinality(world.pool),
              !.current = world.current, !.pinned = world.pinned]

MembersRead ==
    \E r \in Of("members") :
        /\ page' = [MembersAs(page, r.at) EXCEPT !.reading = @ \ {"members"}]
        /\ wire' = wire \ {r}
        /\ UNCHANGED world

TurnMembers ==
    /\ InDialog /\ "members" \notin page.reading
    /\ \/ page.at > 1 /\ Redrawn([page EXCEPT !.at = @ - 1], wire)
       \/ page.at < page.total /\ Redrawn([page EXCEPT !.at = @ + 1], wire)
    /\ UNCHANGED world

(* After an addition and after a switch the pool is read once more, by a    *)
(* read that nothing aborts.                                                *)
Reread(for, at) == [kind |-> "reread", for |-> for, at |-> at]

RereadShown ==
    \E r \in Of("reread"), lost \in BOOLEAN :
        /\ LET p == IF lost THEN page ELSE MembersAs(page, r.at)
           IN  page' = IF r.for = "add"
                       THEN [p EXCEPT !.adding = FALSE]
                       ELSE [p EXCEPT !.switching = FALSE]
        /\ wire' = wire \ {r}
        /\ UNCHANGED world

----------------------------------------------------------------------------
(* Adding *)

Settled == page.removing = NoOne /\ ~page.switching /\ ~page.adding

\* A member on the screen has no box, and none has one while servers are added.
Box(m) == m \notin page.shown /\ ~page.adding

TickMachine ==
    /\ InDialog
    /\ \E m \in page.rows :
          /\ Box(m)
          /\ m \in page.ticked \/ Cardinality(page.ticked) < MaxTicked
          /\ page' = [page EXCEPT !.ticked = IF m \in @ THEN @ \ {m} ELSE @ \cup {m}]
    /\ UNCHANGED <<wire, world>>

\* Members on the screen are not sent again.
AddTicked ==
    /\ InDialog /\ Settled /\ ~(page.ticked \subseteq page.shown)
    /\ page' = [page EXCEPT !.adding = TRUE]
    /\ wire' = wire \cup {[kind |-> "add", ids |-> page.ticked \ page.shown, members |-> page.shown]}
    /\ UNCHANGED world

Added ==
    \E r \in Of("add") :
        /\ world' = [world EXCEPT !.pool = @ \cup r.ids]
        /\ Redrawn([page EXCEPT !.ticked = {}, !.at = 1], (wire \ {r}) \cup {Reread("add", 1)})

\* No answer: the servers may have been added.
AddLost ==
    \E r \in Of("add"), done \in BOOLEAN :
        /\ world' = IF done THEN [world EXCEPT !.pool = @ \cup r.ids] ELSE world
        /\ page' = [page EXCEPT !.adding = FALSE]
        /\ wire' = wire \ {r}

----------------------------------------------------------------------------
(* Removing *)

Removing(m) ==
    /\ page' = [page EXCEPT !.removing = m]
    /\ wire' = wire \cup {[kind |-> "remove", of |-> m]}

\* The current server and the last candidate are removed after a question.
RemoveMember ==
    /\ InDialog /\ Settled
    /\ \E m \in page.shown :
          IF m = page.current \/ page.total <= 1
          THEN page' = [page EXCEPT !.asked = m] /\ UNCHANGED wire
          ELSE Removing(m)
    /\ UNCHANGED world

ConfirmRemoval ==
    /\ page.asked # NoOne /\ page.removing = NoOne
    /\ Removing(page.asked)
    /\ UNCHANGED world

WithoutMember(w, m) ==
    [w EXCEPT !.pool = @ \ {m}, !.pinned = @ /\ w.current # m]

Removed ==
    \E r \in Of("remove") :
        /\ world' = WithoutMember(world, r.of)
        /\ page' = [page EXCEPT !.shown = @ \ {r.of}, !.total = IF @ = 0 THEN 0 ELSE @ - 1,
                                !.ticked = @ \ {r.of}, !.asked = NoOne, !.removing = NoOne]
        /\ wire' = wire \ {r}

RemovalLost ==
    \E r \in Of("remove"), done \in BOOLEAN :
        /\ world' = IF done THEN WithoutMember(world, r.of) ELSE world
        /\ page' = [page EXCEPT !.removing = NoOne]
        /\ wire' = wire \ {r}

----------------------------------------------------------------------------
(* Switching *)

AskSwitch ==
    /\ InDialog /\ ~page.switching /\ page.removing = NoOne
    /\ \E m \in page.shown :
          /\ ~(m = page.current /\ page.pinned)
          /\ page' = [page EXCEPT !.target = m]
    /\ UNCHANGED <<wire, world>>

ConfirmSwitch ==
    /\ page.target # NoOne /\ ~page.switching
    /\ page' = [page EXCEPT !.switching = TRUE]
    /\ wire' = wire \cup {[kind |-> "switch", of |-> page.target, at |-> page.at]}
    /\ UNCHANGED world

Pointed(w, m) == [w EXCEPT !.current = m, !.pinned = TRUE]

\* A candidate that is gone, or is not healthy, is refused.
Switched ==
    \E r \in Of("switch") :
        /\ r.of \in world.pool
        /\ world' = Pointed(world, r.of)
        /\ page' = [page EXCEPT !.target = NoOne]
        /\ wire' = (wire \ {r}) \cup {Reread("switch", r.at)}

SwitchLost ==
    \E r \in Of("switch"), done \in BOOLEAN :
        /\ world' = IF done /\ r.of \in world.pool THEN Pointed(world, r.of) ELSE world
        /\ page' = [page EXCEPT !.switching = FALSE]
        /\ wire' = wire \ {r}

\* A question that is being carried out stays.
Decline ==
    /\ \/ page.asked # NoOne /\ page.removing = NoOne
       \/ page.target # NoOne /\ ~page.switching
    /\ page' = [page EXCEPT !.asked = NoOne, !.target = NoOne]
    /\ UNCHANGED <<wire, world>>

----------------------------------------------------------------------------
(* Another user, the failover and the tests change what the servers hold;   *)
(* so does an operation the dialog forgot when it was closed.               *)
PoolMoves ==
    /\ \E m \in Machines :
          \/ m \in world.pool /\ world' = WithoutMember(world, m)
          \/ m \notin world.pool /\ world' = [world EXCEPT !.pool = @ \cup {m}]
          \/ m \in world.pool /\ world' = [world EXCEPT !.current = m, !.pinned = FALSE]
          \/ m \in world.pass /\ world' = [world EXCEPT !.pass = @ \ {m}]
    /\ UNCHANGED <<page, wire>>

\* Closed and opened again: nothing that is on its way is heard.
ReopenCandidates ==
    /\ InDialog
    /\ page' = FreshDialog(Cardinality(world.pool))
    /\ wire' = ReadsOf(page', PoolAndLibrary)
    /\ UNCHANGED world

CandidatesUser ==
    \/ TypeMachine \/ ChooseConnectivity \/ NextRows \/ PreviousRows \/ TurnMembers \/ TickMachine
    \/ AddTicked \/ RemoveMember \/ ConfirmRemoval \/ AskSwitch \/ ConfirmSwitch \/ Decline
    \/ PoolMoves \/ ReopenCandidates

CandidatesRuns ==
    \/ MembersTick \/ TextSettles \/ MachinesRead \/ ReadingFailed \/ MembersRead \/ RereadShown
    \/ Added \/ AddLost \/ Removed \/ RemovalLost \/ Switched \/ SwitchLost

CandidatesNext == \/ UserActs /\ CandidatesUser
                  \/ Runs /\ CandidatesRuns

CandidatesSpec == CandidatesInit /\ [][CandidatesNext]_pageVars

----------------------------------------------------------------------------
(* The servers of the library that are shown, once read, answer the search, *)
(* the filter and the place that are chosen now, and the page number is     *)
(* that of the place: over searches that settle while pages are turned, and *)
(* pages that become empty.  (A read that fails leaves the next place of    *)
(* the search before on offer; the server rejects it.)                      *)
RowsAnswerTheQuestion ==
    Shows("candidates") =>
        /\ page.cursor = Last(page.trail)
        /\ "rows" \notin page.reading /\ ~page.failed => page.answers = Question(page)

(* Adding, removing and switching are marked while, and only while, their   *)
(* requests or the reads after them are on the way; a removal runs alone.   *)
PoolMarksAreInFlight ==
    Shows("candidates") =>
        /\ page.adding <=> \E r \in wire : r.kind = "add" \/ (r.kind = "reread" /\ r.for = "add")
        /\ page.switching <=> \E r \in wire : r.kind = "switch" \/ (r.kind = "reread" /\ r.for = "switch")
        /\ {page.removing} = IF Of("remove") = {} THEN {NoOne} ELSE {r.of : r \in Of("remove")}
        /\ page.removing # NoOne => ~page.adding /\ ~page.switching

(* A tick goes only when the user takes it, when its server was added, was a *)
(* member on the screen when the others were added, or was removed from the  *)
(* pool, or when the dialog is closed.                                       *)
CandidateTicksKept ==
    Shows("candidates") /\ deeds' = deeds =>
        page.ticked \ page'.ticked \subseteq
            UNION ({r.ids \cup r.members : r \in Of("add") \ wire'}
                   \cup {{r.of} : r \in Of("remove") \ wire'})
=============================================================================
