--------------------------- MODULE CreateInstance ---------------------------
(***************************************************************************)
(* The form that creates an instance (pages/CreateInstance.tsx): three     *)
(* steps over one document.  The context's polls go on underneath and      *)
(* change the proposed name and node until the user has chosen them; the   *)
(* document is edited by fields or as text; a draft is guarded against     *)
(* leaving, and the submission leaves by itself.                           *)
(***************************************************************************)
EXTENDS Page, ProxyToml

CONSTANTS
    NodeIds,    \* the nodes, numbered in the order of the list; 0 is none
    Preferred,  \* the node selected in the workspace, or 0
    MaxName,    \* names are numbers: k is client-00k, 0 is no legal name
    Addresses,  \* texts typed as the address of the server, "" among them
    Pasted      \* documents pasted as text

FormText == SerializeConfig(EmptyConfig)

FirstOf(ids) == CHOOSE n \in ids : \A m \in ids : n <= m

Resolved(nodes) ==
    LET online == {n \in DOMAIN nodes : nodes[n]}
    IN  IF Preferred \in DOMAIN nodes THEN Preferred
        ELSE IF online # {} THEN FirstOf(online)
        ELSE IF DOMAIN nodes # {} THEN FirstOf(DOMAIN nodes) ELSE 0

\* nextClientName: one more than the largest number on any node
NextName(insts) ==
    LET numbers == {i[2] : i \in insts}
    IN  1 + (IF numbers = {} THEN 0 ELSE CHOOSE k \in numbers : \A m \in numbers : m <= k)

NewForm == [at |-> "form", nodes |-> [n \in NodeIds |-> TRUE], insts |-> {},
            name |-> 1, nameDirty |-> FALSE, node |-> Resolved([n \in NodeIds |-> TRUE]),
            nodeDirty |-> FALSE, picked |-> 0, text |-> FormText, step |-> 1,
            mode |-> "structured", submitting |-> FALSE, blocked |-> FALSE, done |-> FALSE]

CreateInit == Opens("create", NewForm, [nodes |-> [n \in NodeIds |-> TRUE], insts |-> {}])

OnForm == page.at = "form" /\ ~page.blocked /\ DOMAIN page.nodes # {}
Draft  == ParseConfig(page.text)
Touched == page.nameDirty \/ page.nodeDirty \/ page.text # FormText

NameErrors ==
    IF page.name = 0 THEN {"no name"}
    ELSE IF <<page.node, page.name>> \in page.insts THEN {"name taken"} ELSE {}
NodeErrors == IF DOMAIN page.nodes # {} /\ page.node = 0 THEN {"no node"} ELSE {}
CanSubmit  == ~page.submitting /\ NameErrors = {} /\ NodeErrors = {} /\ DraftErrors(Draft) = {}

----------------------------------------------------------------------------
(* Effects *)

Proposed(p) == [p EXCEPT !.name = IF p.nameDirty THEN @ ELSE NextName(p.insts)]

\* Sensitivity check of NodeIsExplained: the choice stays marked when its node has gone.
ResettledForgetful(p) ==
    IF ~p.nodeDirty \/ (p.node # 0 /\ p.node \notin DOMAIN p.nodes)
    THEN [p EXCEPT !.node = Resolved(p.nodes)] ELSE p

Resettled(p) ==
    IF ~p.nodeDirty \/ (p.node # 0 /\ p.node \notin DOMAIN p.nodes)
    THEN [p EXCEPT !.node = Resolved(p.nodes), !.nodeDirty = FALSE] ELSE p

RendersForm(p) ==
    page' = Resettled(Proposed([p EXCEPT !.mode = IF CanEditFull(p.text) THEN @ ELSE "raw"]))

ContextReplaced ==
    /\ page.at = "form"
    /\ page.nodes # world.nodes \/ page.insts # world.insts
    /\ RendersForm([page EXCEPT !.nodes = world.nodes, !.insts = world.insts])
    /\ UNCHANGED <<wire, world>>

----------------------------------------------------------------------------
(* Filling in *)

ChooseNode(n) ==
    /\ OnForm /\ page.step = 1 /\ n \in DOMAIN page.nodes \cup {0}
    /\ RendersForm([page EXCEPT !.node = n, !.nodeDirty = TRUE, !.picked = n])
    /\ UNCHANGED <<wire, world>>

TypeName(k) ==
    /\ OnForm /\ page.step = 1 /\ k # page.name
    /\ RendersForm([page EXCEPT !.name = k, !.nameDirty = TRUE])
    /\ UNCHANGED <<wire, world>>

\* Sensitivity check of FormKeepsForeign: only the fields the form knows are compared.
SafeForFields(doc) == ParseConfig(doc) = ParseConfig(SerializeConfig(ParseConfig(doc)))

SafeForForm(doc) == CanEditFull(doc)

(* updateStructured: the document is rewritten where that is safe, else the *)
(* form turns to text and says why.                                         *)
UpdateStructured(draft) ==
    IF SafeForForm(page.text) THEN RendersForm([page EXCEPT !.text = SerializeConfig(draft)])
    ELSE page' = [page EXCEPT !.mode = "raw"]

TypeConnection ==
    /\ OnForm /\ page.step = 1
    /\ \E a \in Addresses, port \in {"", "7000"} :
          UpdateStructured([Draft EXCEPT !.addr = a, !.port = port])
    /\ UNCHANGED <<wire, world>>

TypeProxies ==
    /\ OnForm /\ page.step = 2 /\ page.mode = "structured"
    /\ \/ Draft.proxies = <<>> /\ UpdateStructured([Draft EXCEPT !.proxies = <<EmptyProxy>>])
       \/ Draft.proxies # <<>> /\ UpdateStructured([Draft EXCEPT !.proxies = Tail(@)])
       \/ Draft.proxies # <<>> /\ UpdateStructured([Draft EXCEPT
              !.proxies[1].name = "ssh", !.proxies[1].remotePort = "7000"])
    /\ UNCHANGED <<wire, world>>

TypeText ==
    /\ OnForm /\ page.step = 2 /\ page.mode = "raw"
    /\ \E doc \in Pasted : RendersForm([page EXCEPT !.text = doc])
    /\ UNCHANGED <<wire, world>>

SelectMode ==
    /\ OnForm /\ page.step = 2
    /\ page.mode = "raw" => CanEditFull(page.text)
    /\ page' = [page EXCEPT !.mode = IF @ = "raw" THEN "structured" ELSE "raw"]
    /\ UNCHANGED <<wire, world>>

Forward ==
    /\ OnForm /\ page.step < 3
    /\ page.step = 1 => NameErrors = {} /\ NodeErrors = {} /\ Draft.addr # ""
    /\ page' = [page EXCEPT !.step = @ + 1]
    /\ UNCHANGED <<wire, world>>

Backward ==
    /\ OnForm /\ page.step > 1 /\ ~page.submitting
    /\ page' = [page EXCEPT !.step = @ - 1]
    /\ UNCHANGED <<wire, world>>

----------------------------------------------------------------------------
(* Submitting and leaving *)

Submit ==
    /\ OnForm /\ page.step = 3 /\ CanSubmit /\ Room
    /\ page' = [page EXCEPT !.submitting = TRUE]
    /\ wire' = wire \cup {[kind |-> "create", inst |-> <<page.node, page.name>>]}
    /\ UNCHANGED world

\* The node accepts, and the form waits for the context to be read again.
InstanceCreated ==
    \E r \in Of("create") :
        /\ r.inst \notin world.insts /\ r.inst[1] \in DOMAIN world.nodes
        /\ world' = [world EXCEPT !.insts = @ \cup {r.inst}]
        /\ wire' = {[kind |-> "refresh", inst |-> r.inst]}
        /\ UNCHANGED page

CreateFailed ==
    \E r \in Of("create") :
        /\ world' \in {world} \cup (IF r.inst[1] \in DOMAIN world.nodes
                                    THEN {[world EXCEPT !.insts = @ \cup {r.inst}]} ELSE {})
        /\ wire' = wire \ {r}
        /\ page' = [page EXCEPT !.submitting = FALSE]

\* What a navigation meets: a draft that is not being submitted is held.
Navigates(p, to) ==
    IF Touched /\ ~p.submitting THEN [p EXCEPT !.blocked = TRUE] ELSE [p EXCEPT !.at = to]

\* Sensitivity check of CreatedIsNotHeld: the form is released before it leaves.
RefreshedEarlyRelease ==
    \E r \in Of("refresh") :
        /\ page.at = "form"
        /\ page' = Navigates([page EXCEPT !.submitting = FALSE, !.done = TRUE], "instance")
        /\ wire' = wire \ {r} /\ UNCHANGED world

(* The page of the new instance opens, from wherever the user is by now:    *)
(* the form's continuation runs after it was left, too.                     *)
Refreshed ==
    \E r \in Of("refresh") :
        /\ page' = [Navigates([page EXCEPT !.done = TRUE], "instance") EXCEPT !.submitting = FALSE]
        /\ wire' = wire \ {r} /\ UNCHANGED world

LeaveForm ==
    /\ OnForm
    /\ page' = Navigates(page, "elsewhere")
    /\ UNCHANGED <<wire, world>>

AnswerGuard ==
    /\ page.blocked
    /\ \E leave \in BOOLEAN :
          page' = [page EXCEPT !.blocked = FALSE, !.at = IF leave THEN "elsewhere" ELSE @]
    /\ UNCHANGED <<wire, world>>

NodesMove ==
    /\ \/ \E n \in DOMAIN world.nodes : world' = [world EXCEPT !.nodes[n] = ~@]
       \/ \E n \in DOMAIN world.nodes :
              world' = [nodes |-> [m \in DOMAIN world.nodes \ {n} |-> world.nodes[m]],
                        insts |-> {i \in world.insts : i[1] # n}]
       \/ \E n \in DOMAIN world.nodes : world' = [world EXCEPT !.insts = @ \cup {<<n, 1>>}]
    /\ UNCHANGED <<page, wire>>

CreateUser ==
    \/ \E n \in NodeIds \cup {0} : ChooseNode(n)
    \/ \E k \in 0..MaxName : TypeName(k)
    \/ TypeConnection \/ TypeProxies \/ TypeText \/ SelectMode
    \/ Forward \/ Backward \/ Submit \/ LeaveForm \/ AnswerGuard
    \/ NodesMove

CreateRuns == ContextReplaced \/ InstanceCreated \/ CreateFailed \/ Refreshed

CreateNext == \/ UserActs /\ CreateUser
              \/ Runs /\ CreateRuns

CreateSpec == CreateInit /\ [][CreateNext]_pageVars

----------------------------------------------------------------------------
(* The node the form would create on is the one the user picked, as long as *)
(* it exists, and the default for the nodes of now otherwise, whatever     *)
(* nodes come, go, or lose their connection under the form.                *)
NodeIsExplained ==
    Shows("create") =>
        IF page.nodeDirty THEN page.node = page.picked /\ page.node \in DOMAIN page.nodes \cup {0}
        ELSE page.node = Resolved(page.nodes)

(* A form whose instance was created is never held back by its own guard of *)
(* unsaved drafts.                                                          *)
CreatedIsNotHeld == Shows("create") /\ page.done => ~page.blocked

ForeignToForm(doc) ==
    SelectSeq(doc, LAMBDA l : l[1] \notin KnownFields \cup {"head", "addr", "port", "token", "notoken"})

(* A field of the form never drops a line of the document the form does not *)
(* understand.                                                              *)
FormKeepsForeign ==
    Shows("create") /\ (TypeConnection \/ TypeProxies) =>
       ForeignToForm(page'.text) = ForeignToForm(page.text)
=============================================================================
