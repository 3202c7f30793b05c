------------------------------ MODULE Workspace ------------------------------
(***************************************************************************)
(* The console context and the list of instances                           *)
(* (context/ConsoleContext.tsx, pages/Overview.tsx).  The context polls a  *)
(* summary of all nodes and instances, asks every node it sees for its     *)
(* system, and runs the operations on instances; the list filters what the *)
(* context holds, loads the configuration summaries of the first visible   *)
(* instances, and offers the operations.  A summary is two reads of a changing world, and *)
(* several summaries may be on the way.                                    *)
(***************************************************************************)
EXTENDS Page

CONSTANTS
    Hosts,       \* the nodes that run instances
    Instances,
    HostOf,      \* [Instances -> Hosts]
    LineOf,      \* [Instances -> Nat]: the order of a list, by node and then by name
    SummaryRows  \* how many lines of a list have their summaries read; 25 in the code

Verbs   == {"start", "stop", "restart", "enable", "disable", "delete"}

\* The absence of an operation is told from an operation.
ASSUME OperationsAssumption == NoOne \notin Instances \X Verbs

\* A list has an order, and at least its first line is read about.
ASSUME RowsAssumption ==
    /\ SummaryRows \in Nat \ {0}
    /\ LineOf \in [Instances -> Nat]
    /\ \A i, j \in Instances : LineOf[i] = LineOf[j] => i = j

Mark(verb) == IF verb \in {"enable", "disable"} THEN "toggle" ELSE verb
Filters == {"all", "running", "stopped", "disabled"}
Unread  == NoOne

EmptyContext == [where |-> "other", nodes |-> <<>>, insts |-> {}, on |-> {}, up |-> {},
                 loaded |-> FALSE, failed |-> FALSE, pending |-> [i \in Instances |-> "none"],
                 systems |-> <<>>, chosen |-> "all", status |-> "all", cache |-> {}]

Fleet == [nodes |-> [n \in Hosts |-> TRUE], insts |-> Instances,
          on |-> Instances, up |-> Instances]

WorkInit == Opens("workspace", EmptyContext, Fleet)

Summary(op) == [kind |-> "summary", for |-> op, nodes |-> Unread, list |-> Unread]
Operation(i, verb) == [kind |-> "operation", inst |-> i, verb |-> verb]

----------------------------------------------------------------------------
(* What is shown *)

Area(p) == p.where # "other"

InScope(p, i) == p.chosen \notin DOMAIN p.nodes \/ HostOf[i] = p.chosen

Badge(p, i) == IF i \notin p.on THEN "disabled"
               ELSE IF i \in p.up THEN "running" ELSE "stopped"

Visible(p) == {i \in p.insts : InScope(p, i) /\ p.status \in {"all", Badge(p, i)}}

Ahead(p, i) == {j \in Visible(p) : LineOf[j] < LineOf[i]}

Leading(p) == {i \in Visible(p) : Cardinality(Ahead(p, i)) < SummaryRows}

Listed == page.where = "list" /\ page.loaded
          /\ ~(page.failed /\ DOMAIN page.nodes = {} /\ page.insts = {})

----------------------------------------------------------------------------
(* The effects that follow a render *)

\* Sensitivity check of SystemsFitNodes: an answer is used although its effect ended.
CancelledNever(w, kind) == w

Cancelled(w, kind) == {r \in w : r.kind # kind}

(* The systems of the nodes are read again when the nodes, or which of them *)
(* are online, have changed.                                                *)
SystemsEffect(q, w) ==
    IF Area(q) = Area(page) /\ q.nodes = page.nodes THEN w
    ELSE Cancelled(w, "systems") \cup
         (IF Area(q) /\ DOMAIN q.nodes # {} THEN {[kind |-> "systems", nodes |-> q.nodes]}
          ELSE {})

\* Sensitivity check of SummariesComing: what was asked once is not asked again.
MissingNotAsked(q) ==
    Leading(q) \ (q.cache \cup UNION {r.insts : r \in Of("details")})

Missing(q) == Leading(q) \ q.cache

(* The effect runs again when the leading lines change, and only then.      *)
DetailsEffect(q, w) ==
    IF q.where = page.where /\ Leading(q) = Leading(page) THEN w
    ELSE {r \in w : r.kind # "details"} \cup
         (IF q.where = "list" /\ Missing(q) # {}
          THEN {[kind |-> "details", insts |-> Missing(q)]} ELSE {})

Renders(q, w) ==
    LET r == [q EXCEPT
                !.chosen  = IF q.where = "list" /\ @ \notin DOMAIN q.nodes THEN "all" ELSE @,
                !.systems = IF Area(q) /\ DOMAIN q.nodes # {} THEN @ ELSE <<>>,
                !.cache   = IF q.where = "list" THEN @ ELSE {},
                !.status  = IF q.where = "list" THEN @ ELSE "all"]
    IN  page' = r /\ wire' = DetailsEffect(r, SystemsEffect(r, w))

----------------------------------------------------------------------------
(* Summaries *)

Visit(where) ==
    /\ page.where # where /\ Room
    /\ LET q == [page EXCEPT !.where = where]
       IN  Renders(q, IF Area(q) /\ ~Area(page) THEN wire \cup {Summary(NoOne)} ELSE wire)
    /\ UNCHANGED world

Poll ==
    /\ Area(page) /\ Room
    /\ wire' = wire \cup {Summary(NoOne)}
    /\ UNCHANGED <<page, world>>

\* Only a node that is online is asked for its instances.
Reported(w) == [w EXCEPT !.insts = {i \in @ : w.nodes[HostOf[i]]}]

\* The list of nodes and the list of instances are two requests.
SummaryRead ==
    \E r \in Of("summary") :
        /\ \/ r.nodes = Unread /\ wire' = (wire \ {r}) \cup {[r EXCEPT !.nodes = world.nodes]}
           \/ r.list = Unread /\ wire' = (wire \ {r}) \cup {[r EXCEPT !.list = Reported(world)]}
        /\ UNCHANGED <<page, world>>

\* Sensitivity check of PendingIsInFlight: the mark is looked up under the verb.
DoneUnderVerb(pending, op) == [i \in Instances |-> IF op # NoOne /\ i = op[2] THEN "none" ELSE pending[i]]

Done(pending, op) == IF op = NoOne THEN pending ELSE [pending EXCEPT ![op[1]] = "none"]

SummaryArrived ==
    \E r \in Of("summary") :
        /\ r.nodes # Unread /\ r.list # Unread
        /\ Renders([page EXCEPT
               !.nodes = [n \in DOMAIN r.nodes |->
                            IF n \in DOMAIN r.list.nodes THEN r.list.nodes[n] ELSE r.nodes[n]],
               !.insts = r.list.insts, !.on = r.list.on, !.up = r.list.up,
               !.loaded = TRUE, !.failed = FALSE, !.pending = Done(@, r.for)], wire \ {r})
        /\ UNCHANGED world

\* The last snapshot stays.
SummaryFailed ==
    \E r \in Of("summary") :
        /\ Renders([page EXCEPT !.loaded = TRUE, !.failed = TRUE, !.pending = Done(@, r.for)],
                   wire \ {r})
        /\ UNCHANGED world

SystemsArrived ==
    \E r \in Of("systems") :
        \E lost \in {{}, DOMAIN r.nodes} :
            /\ page' = [page EXCEPT !.systems =
                  [n \in DOMAIN r.nodes |-> IF r.nodes[n] /\ n \notin lost THEN "info" ELSE "error"]]
            /\ wire' = wire \ {r}
            /\ UNCHANGED world

DetailsArrived ==
    \E r \in Of("details") :
        /\ Renders([page EXCEPT !.cache = @ \cup r.insts], wire \ {r})
        /\ UNCHANGED world

----------------------------------------------------------------------------
(* The list *)

SelectNode(n) ==
    /\ Listed /\ n \in (DOMAIN page.nodes \cup {"all"}) \ {page.chosen}
    /\ Renders([page EXCEPT !.chosen = n], wire)
    /\ UNCHANGED world

SelectStatus(f) ==
    /\ Listed /\ page.nodes # <<>> /\ f # page.status
    /\ Renders([page EXCEPT !.status = f], wire)
    /\ UNCHANGED world

(* The switch is off only while it is itself in progress, and the menu's    *)
(* deletion never: operations on one instance may overlap.                  *)
Offered(i, verb) ==
    CASE verb = "enable"  -> page.pending[i] # "toggle" /\ i \notin page.on
      [] verb = "disable" -> page.pending[i] # "toggle" /\ i \in page.on
      [] verb = "delete"  -> TRUE
      [] verb = "stop"    -> page.pending[i] = "none" /\ i \in page.up
      [] verb = "start"   -> page.pending[i] = "none" /\ i \in page.on \ page.up
      [] verb = "restart" -> page.pending[i] = "none" /\ i \in page.on

Operate(i, verb) ==
    /\ Listed /\ i \in Visible(page) /\ Offered(i, verb)
    /\ Room /\ Operation(i, verb) \notin wire
    /\ page' = [page EXCEPT !.pending[i] = Mark(verb)]
    /\ wire' = wire \cup {Operation(i, verb)}
    /\ UNCHANGED world

Effect(w, i, verb) ==
    CASE verb = "delete" -> [w EXCEPT !.insts = @ \ {i}, !.on = @ \ {i}, !.up = @ \ {i}]
      [] verb = "enable"  -> [w EXCEPT !.on = @ \cup {i}, !.up = @ \cup {i}]
      [] verb = "disable" -> [w EXCEPT !.on = @ \ {i}, !.up = @ \ {i}]
      [] verb = "stop"    -> [w EXCEPT !.up = @ \ {i}]
      [] OTHER           -> [w EXCEPT !.up = @ \cup {i}]

\* The node carried it out; the context reads the summary before it lets go of the mark.
OperationSucceeded ==
    \E r \in Of("operation") :
        /\ r.inst \in world.insts
        /\ world' = Effect(world, r.inst, r.verb)
        /\ wire' = (wire \ {r}) \cup {Summary(<<r.inst, r.verb>>)}
        /\ UNCHANGED page

\* Refused, or carried out and the answer lost.
OperationFailed ==
    \E r \in Of("operation") :
        /\ world' \in {world} \cup (IF r.inst \in world.insts
                                    THEN {Effect(world, r.inst, r.verb)} ELSE {})
        /\ page' = [page EXCEPT !.pending[r.inst] = "none"]
        /\ wire' = wire \ {r}

----------------------------------------------------------------------------
\* Another administrator, or the network.
WorldMoves ==
    /\ \/ \E n \in DOMAIN world.nodes : world' = [world EXCEPT !.nodes[n] = ~@]
       \/ \E n \in DOMAIN world.nodes :
              world' = [world EXCEPT
                  !.nodes = [m \in DOMAIN world.nodes \ {n} |-> world.nodes[m]],
                  !.insts = {i \in @ : HostOf[i] # n}, !.on = {i \in @ : HostOf[i] # n},
                  !.up = {i \in @ : HostOf[i] # n}]
    /\ UNCHANGED <<page, wire>>

WorkUser ==
    \/ \E w \in {"list", "area", "other"} : Visit(w)
    \/ \E n \in Hosts \cup {"all"} : SelectNode(n)
    \/ \E f \in Filters : SelectStatus(f)
    \/ \E i \in Instances, verb \in Verbs : Operate(i, verb)
    \/ Poll \/ WorldMoves

WorkRuns ==
    \/ SummaryRead \/ SummaryArrived \/ SummaryFailed
    \/ SystemsArrived \/ DetailsArrived
    \/ OperationSucceeded \/ OperationFailed

WorkNext == \/ UserActs /\ WorkUser
            \/ Runs /\ WorkRuns

WorkSpec == WorkInit /\ [][WorkNext]_pageVars

----------------------------------------------------------------------------
(* A mark disables the controls of an instance: it never stays when nothing *)
(* that could take it away is still on the way, however operations on one  *)
(* instance overlap and whatever fails.                                     *)
PendingIsInFlight ==
    Shows("workspace") =>
        \A i \in Instances : page.pending[i] # "none" =>
            \/ \E r \in Of("operation") : r.inst = i
            \/ \E r \in Of("summary") : r.for # NoOne /\ r.for[1] = i

(* Once no reading is on the way, every node shown has a system entry that  *)
(* was read for the nodes of now: an offline node shows no system of when   *)
(* it was online, whichever answer came last.                               *)
SystemsFitNodes ==
    Shows("workspace") /\ Area(page) /\ Of("systems") = {} =>
        /\ DOMAIN page.systems = DOMAIN page.nodes
        /\ \A n \in DOMAIN page.nodes : ~page.nodes[n] => page.systems[n] = "error"

(* An instance among the first SummaryRows that are visible has its         *)
(* configuration summary or one that will be used is on the way: a reading  *)
(* cancelled by a filter, or by a line that came or went above, is not      *)
(* forgotten, and a line that moves up is read about.                       *)
SummariesComing ==
    Shows("workspace") /\ page.where = "list" =>
        Leading(page) \subseteq page.cache \cup UNION {r.insts : r \in Of("details")}
=============================================================================
