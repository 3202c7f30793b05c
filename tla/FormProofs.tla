----------------------------- MODULE FormProofs -----------------------------
(***************************************************************************)
(* What the user types: the document of the configuration editor and the   *)
(* form of a new instance, for every set of instances, nodes, names and    *)
(* documents, and for whatever the server calls an error.                  *)
(***************************************************************************)
EXTENDS ConfigEditor, CreateInstance, TLAPS

-----------------------------------------------------------------------------
(***************************************************************************)
(* The editor (ConfigEditor): what is sent to be written was validated.    *)
(*                                                                         *)
(* The property speaks of the requests on their way.  It is inductive once *)
(* it is known that a clean verdict is about the text it is kept with: a   *)
(* save is allowed only while that text is the text of the draft.          *)
(***************************************************************************)
DraftFields   == {"text", "original", "validation", "validated"}
RequestFields == {"kind", "text", "live"}

\* The fields the argument reads are there, so an EXCEPT changes its own only.
SoundDraft(e) ==
  /\ \A f \in DraftFields : f \in DOMAIN e
  /\ e.validation = "clean" => ~Illegal(e.validated)

SoundRequest(r) ==
  /\ \A f \in RequestFields : f \in DOMAIN r
  /\ r.kind = "put" => ~Illegal(r.text)

EditorInv == SoundDraft(page) /\ \A r \in wire : SoundRequest(r)

-----------------------------------------------------------------------------
\* Settling the effects of a change keeps a verdict or drops it
\* (ConfigEditor.tsx:51-76).
LEMMA SettledIsSound ==
  ASSUME NEW e, SoundDraft(e), EditorBecomes(e)
  PROVE  SoundDraft(page')
  BY DEF EditorBecomes, EditorSettled, SoundDraft, DraftFields

\* Abandoning requests changes neither what they are nor what they carry
\* (ConfigEditor.tsx:39-64).
LEMMA AbandonedIsSound ==
  ASSUME EditorInv, NEW kinds
  PROVE  \A r \in Abandoned(kinds) : SoundRequest(r)
<1>  SUFFICES ASSUME NEW q \in wire, NEW r,
                     r = IF q.kind \in kinds THEN [q EXCEPT !.live = FALSE] ELSE q
              PROVE  SoundRequest(r)
  BY DEF Abandoned
<1>1. SoundRequest(q)
  BY DEF EditorInv
<1>  QED  BY <1>1 DEF SoundRequest, RequestFields

\* A request that writes nothing is sound.
LEMMA AskIsSound ==
  ASSUME NEW kind, NEW i, NEW text, kind = "put" => ~Illegal(text)
  PROVE  SoundRequest(Asks(kind, i, text))
  BY DEF Asks, SoundRequest, RequestFields

\* Another instance in the same place keeps the draft, leaving drops it.
LEMMA OpeningIsSound ==
  ASSUME EditorInv, NEW t, OpenEditor(t)
  PROVE  EditorInv'
<1>1. \A kinds : \A r \in Abandoned(kinds) : SoundRequest(r)
  BY AbandonedIsSound
<1>2. SoundRequest(Asks("load", t, <<>>))
  BY AskIsSound
<1>3. \A r \in wire' : SoundRequest(r)
  BY <1>1, <1>2 DEF OpenEditor
<1>4. SoundDraft(page')
  <2>1. CASE t # NoOne /\ EditorOpen
    <3>1. SoundDraft([page EXCEPT !.shown = t, !.leaving = NoOne])
      BY DEF EditorInv, SoundDraft, DraftFields
    <3>  QED  BY <2>1, <3>1, SettledIsSound DEF OpenEditor
  <2>2. CASE ~(t # NoOne /\ EditorOpen)
    <3>1. page' = Opened(t)
      BY <2>2 DEF OpenEditor
    <3>2. SoundDraft(NoDraft)
      BY DEF NoDraft, SoundDraft, DraftFields
    <3>3. SoundDraft([NoDraft EXCEPT !.shown = t])
      BY DEF NoDraft, SoundDraft, DraftFields
    <3>  QED  BY <3>1, <3>2, <3>3 DEF Opened
  <2>  QED  BY <2>1, <2>2
<1>  QED  BY <1>3, <1>4 DEF EditorInv, SoundRequest

-----------------------------------------------------------------------------
LEMMA EditorStep ==
  ASSUME EditorInv, [EditorNext]_pageVars
  PROVE  EditorInv'
<1> DEFINE SoundPage == SoundDraft(page')
           SoundWire == \A r \in wire' : SoundRequest(r)
<1>0. SoundDraft(page) /\ \A r \in wire : SoundRequest(r)
  BY DEF EditorInv
<1>1. \A kinds : \A r \in Abandoned(kinds) : SoundRequest(r)
  BY AbandonedIsSound
<1>2. SUFFICES SoundPage /\ SoundWire
  BY DEF EditorInv, SoundRequest
<1>3. \A t : OpenEditor(t) => SoundPage /\ SoundWire
  BY OpeningIsSound DEF EditorInv
<1>4. ASSUME NEW t, LeaveEditor(t)  PROVE SoundPage /\ SoundWire
  <2>1. SoundDraft([page EXCEPT !.leaving = IF t = NoOne THEN "away" ELSE t])
    BY <1>0 DEF SoundDraft, DraftFields
  <2>  QED  BY <1>0, <1>3, <1>4, <2>1 DEF LeaveEditor
<1>5. CASE DiscardDraft
  BY <1>3, <1>5 DEF DiscardDraft
<1>6. CASE KeepEditing \/ SwitchMode
  <2>1. SoundWire
    BY <1>0, <1>6 DEF KeepEditing, SwitchMode
  <2>2. SoundPage
    BY <1>0, <1>6 DEF KeepEditing, SwitchMode, SoundDraft, DraftFields
  <2>  QED  BY <2>1, <2>2
<1>7. CASE RawEdit \/ StructuredEdit
  <2>1. PICK text : DraftBecomes(text)
    BY <1>7 DEF RawEdit, StructuredEdit
  <2>2. SoundDraft([page EXCEPT !.text = text])
    BY <1>0 DEF SoundDraft, DraftFields
  <2>  QED  BY <1>1, <2>1, <2>2, SettledIsSound DEF DraftBecomes
<1>8. CASE LoadAnswered
  <2>1. PICK r \in Answerable("load") :
           /\ wire' = Abandoned({"check"}) \ {r}
           /\ EditorBecomes([page EXCEPT
                  !.text = world[r.inst], !.original = world[r.inst], !.validated = world[r.inst],
                  !.validation = IF Illegal(world[r.inst]) THEN "errors" ELSE "clean",
                  !.mode = IF CanEditProxies(world[r.inst]) THEN "structured" ELSE "raw"])
    BY <1>8 DEF LoadAnswered
  <2>2. SoundDraft([page EXCEPT
                  !.text = world[r.inst], !.original = world[r.inst], !.validated = world[r.inst],
                  !.validation = IF Illegal(world[r.inst]) THEN "errors" ELSE "clean",
                  !.mode = IF CanEditProxies(world[r.inst]) THEN "structured" ELSE "raw"])
    BY <1>0 DEF SoundDraft, DraftFields
  <2>  QED  BY <1>1, <2>1, <2>2, SettledIsSound
<1>9. CASE LoadFailed
  <2>1. SoundDraft([page EXCEPT !.text = <<>>, !.original = <<>>, !.validation = "none"])
    BY <1>0 DEF SoundDraft, DraftFields
  <2>  QED  BY <1>1, <1>9, <2>1, SettledIsSound DEF LoadFailed
<1>10. CASE CheckSent
  <2>1. SoundRequest(Asks("check", page.shown, page.text))
    BY AskIsSound
  <2>2. SoundDraft([page EXCEPT !.timer = FALSE])
    BY <1>0 DEF SoundDraft, DraftFields
  <2>  QED  BY <1>0, <1>10, <2>1, <2>2 DEF CheckSent
<1>11. CASE CheckAnswered
  <2>1. PICK r \in wire :
           /\ wire' = wire \ {r}
           /\ page' = IF ~r.live THEN page
                      ELSE [page EXCEPT !.validating = FALSE, !.validated = r.text,
                               !.validation = IF Illegal(r.text) THEN "errors" ELSE "clean"]
    BY <1>11 DEF CheckAnswered
  <2>2. SoundDraft([page EXCEPT !.validating = FALSE, !.validated = r.text,
                        !.validation = IF Illegal(r.text) THEN "errors" ELSE "clean"])
    BY <1>0 DEF SoundDraft, DraftFields
  <2>  QED  BY <1>0, <2>1, <2>2
<1>12. CASE CheckFailed
  <2>1. SoundDraft([page EXCEPT !.validating = FALSE])
    BY <1>0 DEF SoundDraft, DraftFields
  <2>  QED  BY <1>0, <1>12, <2>1 DEF CheckFailed
<1>13. CASE SaveDraft
  <2>1. ~Illegal(page.text)
    BY <1>0, <1>13 DEF SaveDraft, CanSave, SoundDraft
  <2>2. SoundRequest(Asks("put", page.shown, page.text))
    BY <2>1, AskIsSound
  <2>3. SoundDraft([page EXCEPT !.saving = TRUE])
    BY <1>0 DEF SoundDraft, DraftFields
  <2>  QED  BY <1>0, <1>13, <2>2, <2>3 DEF SaveDraft
<1>14. CASE DraftWritten
  <2>1. PICK r \in wire :
           wire' = (wire \ {r}) \cup (IF r.live THEN {[r EXCEPT !.kind = "written"]} ELSE {})
    BY <1>14 DEF DraftWritten
  <2>2. SoundRequest([r EXCEPT !.kind = "written"])
    BY <1>0 DEF SoundRequest, RequestFields
  <2>  QED  BY <1>0, <1>14, <2>1, <2>2 DEF DraftWritten
<1>15. CASE SaveAnswered
  <2>1. PICK r \in Answerable("written") :
           /\ wire' = Abandoned({"check"}) \ {r}
           /\ EditorBecomes([page EXCEPT !.original = r.text, !.saving = FALSE])
    BY <1>15 DEF SaveAnswered
  <2>2. SoundDraft([page EXCEPT !.original = r.text, !.saving = FALSE])
    BY <1>0 DEF SoundDraft, DraftFields
  <2>  QED  BY <1>1, <2>1, <2>2, SettledIsSound
<1>16. CASE SaveFailed
  <2>1. SoundDraft([page EXCEPT !.saving = FALSE])
    BY <1>0 DEF SoundDraft, DraftFields
  <2>  QED  BY <1>0, <1>16, <2>1 DEF SaveFailed
<1>17. CASE ConfirmReset
  <2>1. SoundRequest(Asks("default", page.shown, DefaultDoc))
    BY AskIsSound
  <2>  QED  BY <1>0, <1>17, <2>1 DEF ConfirmReset
<1>18. CASE DefaultAnswered
  <2>1. PICK r \in wire :
           \/ /\ EditorBecomes([page EXCEPT !.text = r.text])
              /\ wire' = Abandoned({"check"}) \ {r}
           \/ wire' = wire \ {r} /\ UNCHANGED page
    BY <1>18 DEF DefaultAnswered
  <2>2. SoundDraft([page EXCEPT !.text = r.text])
    BY <1>0 DEF SoundDraft, DraftFields
  <2>  QED  BY <1>0, <1>1, <2>1, <2>2, SettledIsSound
<1>19. CASE UNCHANGED pageVars
  BY <1>0, <1>19 DEF pageVars
<1>  HIDE DEF SoundPage, SoundWire
<1>  QED
  BY <1>4, <1>5, <1>6, <1>7, <1>8, <1>9, <1>10, <1>11, <1>12, <1>13, <1>14, <1>15, <1>16,
     <1>17, <1>18, <1>19 DEF EditorNext, EditorUser, EditorRuns

LEMMA EditorStart == ASSUME EditorInit PROVE EditorInv
  BY DEF EditorInit, Opens, NoDraft, EditorInv, SoundDraft, DraftFields

(* Whatever the order of edits, verdicts, loads, saves and switches of the  *)
(* instance, the text that is sent to be written is one the server finds no *)
(* error in (ConfigEditor.tsx:84-92).                                     *)
THEOREM EditorSavesValidated == EditorSpec => []SavedWasValidated
<1>1. EditorInit => EditorInv
  BY EditorStart
<1>2. EditorInv => SavedWasValidated
  BY DEF EditorInv, SoundRequest, SavedWasValidated, Of
<1>  QED  BY <1>1, <1>2, EditorStep, PTL DEF EditorSpec

-----------------------------------------------------------------------------
(***************************************************************************)
(* The form (CreateInstance): once its instance is created it is never     *)
(* held back by its own guard of unsaved drafts, and its node is the       *)
(* picked or the default.                                                  *)
(*                                                                         *)
(* The guard asks only while nothing is submitted, so the argument is that *)
(* a request on its way means a form that is submitting, that there is one *)
(* at most, and that a form whose instance is there has been left.         *)
(***************************************************************************)
FormFields == {"at", "submitting", "blocked", "done", "name", "node", "nodes", "insts",
               "nodeDirty", "nameDirty", "picked", "mode", "text", "step"}

FormShape == \A f \in FormFields : f \in DOMAIN page

\* A request belongs to a form that is submitting and was not stopped.
OneSubmission ==
  /\ wire # {} => page.submitting /\ ~page.blocked /\ ~page.done
  /\ \A r, q \in wire : r = q

\* The form is left once its instance is there.
DoneIsLeft == page.done => ~page.blocked /\ page.at # "form"

CreateInv == FormShape /\ OneSubmission /\ DoneIsLeft

-----------------------------------------------------------------------------
\* What a render leaves alone.
LEMMA RenderKeeps ==
  ASSUME NEW p, \A f \in FormFields : f \in DOMAIN p, RendersForm(p)
  PROVE  /\ \A f \in FormFields : f \in DOMAIN page'
         /\ \A f \in {"at", "submitting", "blocked", "done"} : page'[f] = p[f]
  BY DEF RendersForm, Resettled, Proposed, FormFields

\* A field of the form rewrites the document or turns the form to text.
LEMMA UpdateKeeps ==
  ASSUME FormShape, NEW draft, UpdateStructured(draft)
  PROVE  /\ \A f \in FormFields : f \in DOMAIN page'
         /\ \A f \in {"at", "submitting", "blocked", "done"} : page'[f] = page[f]
<1> DEFINE p == [page EXCEPT !.text = SerializeConfig(draft)]
<1>1. CASE RendersForm(p)
  <2>1. /\ \A f \in FormFields : f \in DOMAIN p
        /\ \A f \in {"at", "submitting", "blocked", "done"} : p[f] = page[f]
    BY DEF FormShape, FormFields
  <2>  HIDE DEF p
  <2>  QED  BY <1>1, <2>1, RenderKeeps
<1>2. CASE page' = [page EXCEPT !.mode = "raw"]
  BY <1>2 DEF FormShape, FormFields
<1>  QED  BY <1>1, <1>2 DEF UpdateStructured

\* What fills in the form sends nothing and goes nowhere.
Filling == /\ wire' = wire
           /\ \A f \in FormFields : f \in DOMAIN page'
           /\ \A f \in {"at", "submitting", "blocked", "done"} : page'[f] = page[f]

LEMMA FillingKeeps == CreateInv /\ Filling => CreateInv'
  BY DEF CreateInv, FormShape, OneSubmission, DoneIsLeft, Filling

LEMMA FormIsFilled ==
  ASSUME FormShape, NEW n, NEW k,
         \/ ChooseNode(n) \/ TypeName(k) \/ TypeConnection \/ TypeProxies \/ TypeText
         \/ SelectMode \/ Forward \/ Backward \/ ContextReplaced
  PROVE  Filling
<1>0. \A f \in FormFields : f \in DOMAIN page
  BY DEF FormShape
<1>1. \A p : /\ RendersForm(p) /\ wire' = wire
             /\ \A f \in FormFields : f \in DOMAIN p
             /\ \A f \in {"at", "submitting", "blocked", "done"} : p[f] = page[f]
             => Filling
  BY RenderKeeps DEF Filling
<1>2. \A draft : UpdateStructured(draft) /\ wire' = wire => Filling
  BY UpdateKeeps DEF Filling
<1>3. CASE ChooseNode(n)
  <2>1. /\ \A f \in FormFields : f \in DOMAIN [page EXCEPT !.node = n, !.nodeDirty = TRUE, !.picked = n]
        /\ \A f \in {"at", "submitting", "blocked", "done"} :
              [page EXCEPT !.node = n, !.nodeDirty = TRUE, !.picked = n][f] = page[f]
    BY <1>0 DEF FormFields
  <2>  QED  BY <1>1, <1>3, <2>1 DEF ChooseNode
<1>4. CASE TypeName(k)
  <2>1. /\ \A f \in FormFields : f \in DOMAIN [page EXCEPT !.name = k, !.nameDirty = TRUE]
        /\ \A f \in {"at", "submitting", "blocked", "done"} :
              [page EXCEPT !.name = k, !.nameDirty = TRUE][f] = page[f]
    BY <1>0 DEF FormFields
  <2>  QED  BY <1>1, <1>4, <2>1 DEF TypeName
<1>5. CASE TypeConnection
  BY <1>2, <1>5 DEF TypeConnection
<1>6. CASE TypeProxies
  BY <1>2, <1>6 DEF TypeProxies
<1>7. CASE TypeText
  <2>1. PICK doc \in Pasted : RendersForm([page EXCEPT !.text = doc])
    BY <1>7 DEF TypeText
  <2>2. /\ \A f \in FormFields : f \in DOMAIN [page EXCEPT !.text = doc]
        /\ \A f \in {"at", "submitting", "blocked", "done"} : [page EXCEPT !.text = doc][f] = page[f]
    BY <1>0 DEF FormFields
  <2>  QED  BY <1>1, <1>7, <2>1, <2>2 DEF TypeText
<1>8. CASE SelectMode
  BY <1>0, <1>8 DEF SelectMode, Filling, FormFields
<1>9. CASE Forward \/ Backward
  BY <1>0, <1>9 DEF Forward, Backward, Filling, FormFields
<1>10. CASE ContextReplaced
  <2>1. /\ \A f \in FormFields :
              f \in DOMAIN [page EXCEPT !.nodes = world.nodes, !.insts = world.insts]
        /\ \A f \in {"at", "submitting", "blocked", "done"} :
              [page EXCEPT !.nodes = world.nodes, !.insts = world.insts][f] = page[f]
    BY <1>0 DEF FormFields
  <2>  QED  BY <1>1, <1>10, <2>1 DEF ContextReplaced
<1>  QED  BY <1>3, <1>4, <1>5, <1>6, <1>7, <1>8, <1>9, <1>10

-----------------------------------------------------------------------------
LEMMA CreateStep ==
  ASSUME CreateInv, [CreateNext]_pageVars
  PROVE  CreateInv'
<1> USE DEF CreateInv, FormShape, OneSubmission, DoneIsLeft, FormFields
<1>1. CASE \/ \E n \in NodeIds \cup {0} : ChooseNode(n)
           \/ \E k \in 0..MaxName : TypeName(k)
           \/ TypeConnection \/ TypeProxies \/ TypeText \/ SelectMode
           \/ Forward \/ Backward \/ ContextReplaced
  BY <1>1, FormIsFilled, FillingKeeps
<1>2. CASE Submit
  <2>1. wire = {}
    BY <1>2 DEF Submit, CanSubmit
  <2>2. page' = [page EXCEPT !.submitting = TRUE] /\ page.at = "form" /\ ~page.blocked
    BY <1>2 DEF Submit, OnForm
  <2>3. wire' = {[kind |-> "create", inst |-> <<page.node, page.name>>]}
    BY <1>2, <2>1 DEF Submit
  <2>  QED  BY <2>2, <2>3
<1>3. CASE InstanceCreated
  BY <1>3 DEF InstanceCreated, Of
<1>4. CASE CreateFailed
  <2>1. page' = [page EXCEPT !.submitting = FALSE] /\ wire' = {}
    BY <1>4 DEF CreateFailed, Of
  <2>  QED  BY <2>1
<1>5. CASE Refreshed
  <2>1. page.submitting /\ ~page.blocked /\ wire' = {}
    BY <1>5 DEF Refreshed, Of
  <2>2. page' = [[[page EXCEPT !.done = TRUE] EXCEPT !.at = "instance"] EXCEPT !.submitting = FALSE]
    BY <1>5, <2>1 DEF Refreshed, Navigates
  <2>  QED  BY <2>1, <2>2
<1>6. CASE LeaveForm
  <2>1. CASE page.submitting
    <3>1. page' = [page EXCEPT !.at = "elsewhere"] /\ wire' = wire
      BY <1>6, <2>1 DEF LeaveForm, Navigates
    <3>  QED  BY <3>1
  <2>2. CASE ~page.submitting
    <3>1. /\ page.at = "form" /\ wire' = wire /\ wire = {}
          /\ page' \in {[page EXCEPT !.blocked = TRUE], [page EXCEPT !.at = "elsewhere"]}
      BY <1>6, <2>2 DEF LeaveForm, Navigates, OnForm
    <3>  QED  BY <3>1
  <2>  QED  BY <2>1, <2>2
<1>7. CASE AnswerGuard
  BY <1>7 DEF AnswerGuard
<1>8. CASE NodesMove
  BY <1>8 DEF NodesMove
<1>9. CASE UNCHANGED pageVars
  BY <1>9 DEF pageVars
<1>  QED
  BY <1>1, <1>2, <1>3, <1>4, <1>5, <1>6, <1>7, <1>8, <1>9 DEF CreateNext, CreateUser, CreateRuns

LEMMA CreateStart == ASSUME CreateInit PROVE CreateInv
  BY DEF CreateInit, Opens, NewForm, CreateInv, FormShape, FormFields, OneSubmission, DoneIsLeft

(* A form whose instance was created is never held back by its own guard of *)
(* unsaved drafts, wherever the user went while the answer was on its way   *)
(* (CreateInstance.tsx:92, 195-234).                                        *)
THEOREM CreatedFormLeaves == CreateSpec => []CreatedIsNotHeld
<1>1. CreateInit => CreateInv
  BY CreateStart
<1>2. CreateInv => CreatedIsNotHeld
  BY DEF CreateInv, DoneIsLeft, CreatedIsNotHeld
<1>  QED  BY <1>1, <1>2, CreateStep, PTL DEF CreateSpec

-----------------------------------------------------------------------------
NodeFields == {"node", "nodes", "nodeDirty", "picked"}

ExplainedIn(p) ==
  IF p.nodeDirty THEN p.node = p.picked /\ p.node \in DOMAIN p.nodes \cup {0}
  ELSE p.node = Resolved(p.nodes)

NodeInv == FormShape /\ ExplainedIn(page)

\* A render settles the node: a choice that is not there any more is dropped
\* for the default (CreateInstance.tsx:116-125).
LEMMA RenderExplains ==
  ASSUME NEW p, \A f \in FormFields : f \in DOMAIN p,
         p.nodeDirty => p.node = p.picked, RendersForm(p)
  PROVE  NodeInv'
<1> DEFINE q == Proposed([p EXCEPT !.mode = IF CanEditFull(p.text) THEN @ ELSE "raw"])
<1>1. /\ \A f \in FormFields : f \in DOMAIN q
      /\ \A f \in NodeFields : q[f] = p[f]
  BY DEF Proposed, FormFields, NodeFields
<1>2. page' = Resettled(q)
  BY DEF RendersForm
<1>  HIDE DEF q
<1>3. CASE ~q.nodeDirty \/ (q.node # 0 /\ q.node \notin DOMAIN q.nodes)
  <2>1. page' = [q EXCEPT !.node = Resolved(q.nodes), !.nodeDirty = FALSE]
    BY <1>2, <1>3 DEF Resettled
  <2>2. /\ \A f \in FormFields : f \in DOMAIN page'
        /\ page'.nodeDirty = FALSE /\ page'.nodes = q.nodes /\ page'.node = Resolved(q.nodes)
    BY <1>1, <2>1 DEF FormFields
  <2>  QED  BY <2>2 DEF NodeInv, FormShape, ExplainedIn
<1>4. CASE q.nodeDirty /\ ~(q.node # 0 /\ q.node \notin DOMAIN q.nodes)
  <2>1. page' = q
    BY <1>2, <1>4 DEF Resettled
  <2>  QED  BY <1>1, <1>4, <2>1 DEF NodeInv, FormShape, ExplainedIn, NodeFields
<1>  QED  BY <1>3, <1>4

\* A step that leaves the nodes, the choice and the default alone.
LEMMA NodeLeftAlone ==
  ASSUME NodeInv, \A f \in FormFields : f \in DOMAIN page',
         \A f \in NodeFields : page'[f] = page[f]
  PROVE  NodeInv'
  BY DEF NodeInv, FormShape, ExplainedIn, NodeFields

LEMMA NodeStep ==
  ASSUME NodeInv, [CreateNext]_pageVars
  PROVE  NodeInv'
<1>0. /\ \A f \in FormFields : f \in DOMAIN page
      /\ page.nodeDirty => page.node = page.picked
  BY DEF NodeInv, FormShape, ExplainedIn
<1>1. ASSUME NEW n, ChooseNode(n)  PROVE NodeInv'
  <2> DEFINE p == [page EXCEPT !.node = n, !.nodeDirty = TRUE, !.picked = n]
  <2>1. /\ \A f \in FormFields : f \in DOMAIN p
        /\ p.node = p.picked
    BY <1>0 DEF FormFields
  <2>2. RendersForm(p)
    BY <1>1 DEF ChooseNode
  <2>  HIDE DEF p
  <2>  QED  BY <2>1, <2>2, RenderExplains
<1>2. ASSUME NEW k, TypeName(k)  PROVE NodeInv'
  <2> DEFINE p == [page EXCEPT !.name = k, !.nameDirty = TRUE]
  <2>1. /\ \A f \in FormFields : f \in DOMAIN p
        /\ \A f \in NodeFields : p[f] = page[f]
    BY <1>0 DEF FormFields, NodeFields
  <2>2. RendersForm(p)
    BY <1>2 DEF TypeName
  <2>  HIDE DEF p
  <2>  QED  BY <1>0, <2>1, <2>2, RenderExplains DEF NodeFields
<1>3. \A text : RendersForm([page EXCEPT !.text = text]) => NodeInv'
  <2>  SUFFICES ASSUME NEW text, RendersForm([page EXCEPT !.text = text])  PROVE NodeInv'
    OBVIOUS
  <2> DEFINE p == [page EXCEPT !.text = text]
  <2>1. /\ \A f \in FormFields : f \in DOMAIN p
        /\ \A f \in NodeFields : p[f] = page[f]
    BY <1>0 DEF FormFields, NodeFields
  <2>2. RendersForm(p)
    OBVIOUS
  <2>  HIDE DEF p
  <2>  QED  BY <1>0, <2>1, <2>2, RenderExplains DEF NodeFields
<1>4. \A draft : UpdateStructured(draft) => NodeInv'
  <2>  SUFFICES ASSUME NEW draft, UpdateStructured(draft)  PROVE NodeInv'
    OBVIOUS
  <2>1. CASE page' = [page EXCEPT !.mode = "raw"]
    BY <1>0, <2>1, NodeLeftAlone DEF FormFields, NodeFields
  <2>  QED  BY <1>3, <2>1 DEF UpdateStructured
<1>5. CASE TypeConnection \/ TypeProxies \/ TypeText
  BY <1>3, <1>4, <1>5 DEF TypeConnection, TypeProxies, TypeText
<1>6. CASE ContextReplaced
  <2> DEFINE p == [page EXCEPT !.nodes = world.nodes, !.insts = world.insts]
  <2>1. /\ \A f \in FormFields : f \in DOMAIN p
        /\ p.nodeDirty => p.node = p.picked
    BY <1>0 DEF FormFields
  <2>2. RendersForm(p)
    BY <1>6 DEF ContextReplaced
  <2>  HIDE DEF p
  <2>  QED  BY <2>1, <2>2, RenderExplains
<1>7. CASE SelectMode \/ Forward \/ Backward \/ Submit \/ CreateFailed \/ AnswerGuard
  <2>1. /\ \A f \in FormFields : f \in DOMAIN page'
        /\ \A f \in NodeFields : page'[f] = page[f]
    BY <1>0, <1>7 DEF SelectMode, Forward, Backward, Submit, CreateFailed, AnswerGuard,
                      FormFields, NodeFields
  <2>  QED  BY <2>1, NodeLeftAlone
<1>8. CASE Refreshed \/ LeaveForm
  <2>1. /\ \A f \in FormFields : f \in DOMAIN page'
        /\ \A f \in NodeFields : page'[f] = page[f]
    BY <1>0, <1>8 DEF Refreshed, LeaveForm, Navigates, FormFields, NodeFields
  <2>  QED  BY <2>1, NodeLeftAlone
<1>9. CASE InstanceCreated \/ NodesMove \/ UNCHANGED pageVars
  BY <1>0, <1>9, NodeLeftAlone DEF InstanceCreated, NodesMove, pageVars
<1>  QED
  BY <1>1, <1>2, <1>5, <1>6, <1>7, <1>8, <1>9 DEF CreateNext, CreateUser, CreateRuns

LEMMA NodeStart == ASSUME CreateInit PROVE NodeInv
  BY DEF CreateInit, Opens, NewForm, NodeInv, FormShape, FormFields, ExplainedIn

(* The node the form would create on is the one the user picked, as long as *)
(* it exists, and otherwise the default for the nodes of now, whatever      *)
(* nodes come and go under the form (CreateInstance.tsx:75-81, 116-125).    *)
THEOREM CreateNodeExplained == CreateSpec => []NodeIsExplained
<1>1. CreateInit => NodeInv
  BY NodeStart
<1>2. NodeInv => NodeIsExplained
  BY DEF NodeInv, ExplainedIn, NodeIsExplained
<1>  QED  BY <1>1, <1>2, NodeStep, PTL DEF CreateSpec
=============================================================================
