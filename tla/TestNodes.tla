----------------------------- MODULE TestNodes -----------------------------
(***************************************************************************)
(* The test nodes and who stands in for whom (pages/TestNodesPage.tsx, its *)
(* dialog pages/probe/TestNodesDialog.tsx, and the policy of               *)
(* app/probe/jobs.py): a primary node and an order of the others, edited   *)
(* as a draft while the nodes are polled, and saved as it is shown.        *)
(***************************************************************************)
EXTENDS Page

CONSTANT Testers    \* nodes by age, a sequence

AllTesters == ToSet(Testers)

NoPolicy == [primary |-> NoOne, backups |-> <<>>]

(* world: who could test everything, who is deleted, the stored policy, the *)
(* node the load balancer would suggest.                                    *)
TestNodesInit ==
    /\ focus = "nodes" /\ deeds = 0
    /\ page = [nodes |-> {}, primary |-> NoOne, backups |-> <<>>, dirty |-> FALSE, loaded |-> FALSE,
               error |-> FALSE, saving |-> FALSE, dialog |-> FALSE, deleting |-> NoOne, busy |-> FALSE]
    /\ wire = {[kind |-> "nodes", frees |-> FALSE, answer |-> NoOne],
               [kind |-> "policy", keep |-> TRUE, after |-> FALSE, answer |-> NoOne]}
    /\ \E policy \in {NoPolicy, [primary |-> Testers[1], backups |-> <<>>]},
          hint \in {NoOne, Testers[1]} :
          world = [able |-> AllTesters, policy |-> policy, hint |-> hint, there |-> AllTesters]

----------------------------------------------------------------------------
(* The stored policy *)

Usable == world.able \cap world.there

Valid(policy) == {policy.primary} \cup ToSet(policy.backups) \subseteq Usable

(* It is read with every other node that is able, behind those it names; a  *)
(* policy that names a node that is not is an error.  Where none is stored, *)
(* the node of the load balancer's selection is suggested.                  *)
Policy(policy) ==
    IF policy.primary = NoOne
    THEN [ok |-> TRUE, primary |-> IF world.hint \in Usable THEN world.hint ELSE NoOne, backups |-> <<>>]
    ELSE [ok |-> Valid(policy), primary |-> policy.primary,
          backups |-> policy.backups \o SelectSeq(Testers, LAMBDA n :
              n \in Usable \ ({policy.primary} \cup ToSet(policy.backups)))]

----------------------------------------------------------------------------
(* Reading *)

\* The nodes are read every ten seconds, whatever is still on its way.
PollNodes ==
    /\ Room
    /\ wire' = wire \cup {[kind |-> "nodes", frees |-> FALSE, answer |-> NoOne]}
    /\ UNCHANGED <<page, world>>

NodesServed ==
    \E r \in wire :
        /\ r.kind \in {"nodes", "policy"} /\ r.answer = NoOne
        /\ wire' = (wire \ {r}) \cup
                   {[r EXCEPT !.answer = IF r.kind = "nodes" THEN [set |-> Usable] ELSE Policy(world.policy)]}
        /\ UNCHANGED <<page, world>>

\* A reading after a deletion ends what the dialog was busy with.
NodesShown ==
    \E r \in Of("nodes"), lost \in BOOLEAN :
        /\ lost \/ r.answer # NoOne
        /\ page' = [page EXCEPT !.nodes = IF lost THEN @ ELSE r.answer.set, !.busy = @ /\ ~r.frees]
        /\ wire' = wire \ {r}
        /\ UNCHANGED world

Applied(p, policy) ==
    [p EXCEPT !.loaded = TRUE, !.error = FALSE, !.dirty = FALSE,
              !.primary = policy.primary, !.backups = policy.backups]

\* Sensitivity check of PolicyDraftKept: the answer wins over the draft.
AppliedBeside(p, policy, keep) == Applied(p, policy)

\* What was chosen before the first answer is there is kept.
AppliedTo(p, policy, keep) ==
    IF keep /\ p.dirty THEN [p EXCEPT !.loaded = TRUE, !.error = FALSE] ELSE Applied(p, policy)

(* The first reading, or the one that ends a saving.                        *)
PolicyShown ==
    \E r \in Of("policy"), lost \in BOOLEAN :
        /\ lost \/ r.answer # NoOne
        /\ LET p == [page EXCEPT !.saving = @ /\ ~r.after]
           IN  page' = IF lost \/ ~r.answer.ok THEN [p EXCEPT !.loaded = TRUE, !.error = TRUE]
                       ELSE AppliedTo(p, r.answer, r.keep)
        /\ wire' = wire \ {r}
        /\ UNCHANGED world

----------------------------------------------------------------------------
(* The draft *)

Editable == ~page.saving /\ ~page.dialog /\ page.nodes # {}

(* The order that is shown and saved: the backups of the draft that are     *)
(* able, then the others.                                                   *)
Ordered ==
    LET able  == page.nodes \ {page.primary}
        first == SelectSeq(page.backups, LAMBDA n : n \in able)
    IN  first \o SelectSeq(Testers, LAMBDA n : n \in able \ ToSet(first))

ChoosePrimary ==
    /\ Editable
    /\ \E n \in page.nodes :
          page' = [page EXCEPT !.primary = n, !.dirty = TRUE,
                               !.backups = SelectSeq(@, LAMBDA b : b # n)]
    /\ UNCHANGED <<wire, world>>

MoveBackup ==
    /\ Editable
    /\ \E i \in DOMAIN Ordered :
          /\ i + 1 \in DOMAIN Ordered
          /\ page' = [page EXCEPT !.dirty = TRUE,
                                  !.backups = [Ordered EXCEPT ![i] = Ordered[i + 1], ![i + 1] = Ordered[i]]]
    /\ UNCHANGED <<wire, world>>

\* A reading that is on its way is not heard any more.
SavePolicy ==
    /\ Editable /\ page.primary # NoOne /\ Cardinality(wire \ Of("policy")) < MaxWire[focus]
    /\ page' = [page EXCEPT !.saving = TRUE]
    /\ wire' = (wire \ Of("policy")) \cup
               {[kind |-> "save", policy |-> [primary |-> page.primary, backups |-> Ordered],
                 answer |-> NoOne]}
    /\ UNCHANGED world

\* Every node has to be able; the new policy is answered as it is read.
PolicySaved ==
    \E r \in Of("save") :
        /\ r.answer = NoOne /\ Valid(r.policy)
        /\ world' = [world EXCEPT !.policy = r.policy]
        /\ wire' = (wire \ {r}) \cup {[r EXCEPT !.answer = Policy(r.policy)]}
        /\ UNCHANGED page

SaveShown ==
    \E r \in Of("save") :
        /\ r.answer # NoOne
        /\ page' = Applied(page, r.answer)
        /\ wire' = (wire \ {r}) \cup
                   {[kind |-> "policy", keep |-> FALSE, after |-> TRUE, answer |-> NoOne]}
        /\ UNCHANGED world

SaveLost ==
    \E r \in Of("save") :
        /\ page' = [page EXCEPT !.saving = FALSE, !.error = TRUE]
        /\ wire' = wire \ {r}
        /\ UNCHANGED world

----------------------------------------------------------------------------
(* The dialog *)

OpenNodes ==
    /\ ~page.dialog
    /\ page' = [page EXCEPT !.dialog = TRUE]
    /\ UNCHANGED <<wire, world>>

\* Closed in the middle of what it does, it is not there for the answers.
Alone(reqs) == {CASE r.kind = "remove" -> [r EXCEPT !.here = FALSE]
                  [] r.kind = "nodes"  -> [r EXCEPT !.frees = FALSE]
                  [] OTHER             -> r : r \in reqs}

CloseNodes ==
    /\ page.dialog
    /\ IF page.deleting # NoOne
       THEN page' = [page EXCEPT !.deleting = NoOne] /\ UNCHANGED wire
       ELSE page' = [page EXCEPT !.dialog = FALSE, !.busy = FALSE] /\ wire' = Alone(wire)
    /\ UNCHANGED world

AskRemoval ==
    /\ page.dialog /\ ~page.busy /\ page.deleting = NoOne
    /\ \E n \in page.nodes : page' = [page EXCEPT !.deleting = n]
    /\ UNCHANGED <<wire, world>>

RemoveNode ==
    /\ page.deleting # NoOne /\ ~page.busy /\ Room
    /\ page' = [page EXCEPT !.busy = TRUE]
    /\ wire' = wire \cup {[kind |-> "remove", node |-> page.deleting, here |-> TRUE, done |-> FALSE]}
    /\ UNCHANGED world

(* The primary node of the policy is refused, and everything is while the   *)
(* policy is not valid; a backup goes from the policy as well.              *)
NodeRemoved ==
    \E r \in Of("remove") :
        /\ ~r.done /\ r.node \in world.there
        /\ world.policy.primary # r.node
        /\ world.policy.primary # NoOne => Valid(world.policy)
        /\ world' = [world EXCEPT !.there = @ \ {r.node},
                                  !.policy.backups = SelectSeq(@, LAMBDA b : b # r.node)]
        /\ wire' = (wire \ {r}) \cup {[r EXCEPT !.done = TRUE]}
        /\ UNCHANGED page

\* The dialog is free again once the nodes are read.
RemovalShown ==
    \E r \in Of("remove"), lost \in BOOLEAN :
        /\ lost \/ r.done
        /\ page' = IF ~r.here THEN page
                   ELSE IF lost THEN [page EXCEPT !.busy = FALSE] ELSE [page EXCEPT !.deleting = NoOne]
        /\ wire' = (wire \ {r}) \cup
                   (IF lost THEN {} ELSE {[kind |-> "nodes", frees |-> r.here, answer |-> NoOne]})
        /\ UNCHANGED world

\* A node comes back with other abilities.
AbilityChanges ==
    /\ \E n \in AllTesters : world' = [world EXCEPT !.able = IF n \in @ THEN @ \ {n} ELSE @ \cup {n}]
    /\ UNCHANGED <<page, wire>>

TestNodesUser ==
    \/ ChoosePrimary \/ MoveBackup \/ SavePolicy \/ OpenNodes \/ CloseNodes \/ AskRemoval
    \/ RemoveNode \/ AbilityChanges

TestNodesRuns ==
    \/ PollNodes \/ NodesServed \/ NodesShown \/ PolicyShown
    \/ PolicySaved \/ SaveShown \/ SaveLost \/ NodeRemoved \/ RemovalShown

TestNodesNext == \/ UserActs /\ TestNodesUser
                 \/ Runs /\ TestNodesRuns

TestNodesSpec == TestNodesInit /\ [][TestNodesNext]_pageVars

----------------------------------------------------------------------------
(* Until it is saved, what the user chose is changed by nothing that is     *)
(* read: neither by the first answer of the policy, which may be later than *)
(* the choice, nor by the nodes.                                            *)
PolicyDraftKept ==
    Shows("nodes") /\ page.dirty /\ ~page.saving /\ TestNodesRuns =>
       page'.primary = page.primary /\ page'.backups = page.backups
=============================================================================
