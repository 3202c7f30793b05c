----------------------------- MODULE ConfigEditor -----------------------------
(***************************************************************************)
(* The configuration editor of an instance (pages/ConfigEditor.tsx): a     *)
(* draft loaded from the node, edited as text or as a list of proxies,     *)
(* validated by the server half a second after the last change, and saved. *)
(* Answers arrive late, after further edits, or when another instance is   *)
(* shown.                                                                  *)
(*                                                                         *)
(* `page` is the state of the component, `world` the configuration that    *)
(* each instance has on its node.                                          *)
(***************************************************************************)
EXTENDS Page, ProxyToml

CONSTANTS
    Edited,       \* instances whose page is opened
    Stored,       \* the configuration each instance has at first
    Docs,         \* the documents a user may type or paste
    DefaultDoc,   \* what the server offers as default
    Illegal(_),   \* the documents the server finds errors in
    MaxProxies,   \* bound on the proxies of a draft
    NamesTyped,   \* names and ports typed into the list of proxies
    PortsTyped

NoDraft == [shown |-> NoOne, text |-> <<>>, original |-> <<>>, validation |-> "none",
          validated |-> <<>>, timer |-> FALSE, validating |-> FALSE, saving |-> FALSE,
          mode |-> "structured", leaving |-> NoOne]

Asks(kind, i, text) == [kind |-> kind, inst |-> i, text |-> text, live |-> TRUE]

EditorInit == Opens("editor", NoDraft, Stored)

EditorOpen == page.shown # NoOne
EditorFree    == EditorOpen /\ page.leaving = NoOne
Unsaved   == page.text # page.original
Answerable(kind) == {r \in Of(kind) : r.live}

(* A new generation: an answer that is still looked at when it arrives, and *)
(* a write that cannot be taken back, stay on the wire without an owner.    *)
Abandoned(kinds) ==
    {IF r.kind \in kinds THEN [r EXCEPT !.live = FALSE] ELSE r :
        r \in {q \in wire : q.kind \in {"check", "put"} \/ q.kind \notin kinds}}

(* The effects that follow a change of the text, of the original or of the *)
(* instance: the running validation is abandoned, a dirty text waits for a *)
(* new one, and structured editing is left where it would lose lines.      *)
EditorSettled(e) ==
    LET m == [e EXCEPT !.mode = IF CanEditProxies(e.text) THEN @ ELSE "raw"]
    IN  IF e.text = e.original
        THEN [m EXCEPT !.timer = FALSE, !.validating = FALSE]
        ELSE [m EXCEPT !.timer = TRUE, !.validating = TRUE, !.validation = "none"]

EditorBecomes(e) == page' = EditorSettled(e)

----------------------------------------------------------------------------
(* Opening, leaving and the guard of unsaved changes *)

Opened(t) == IF t = NoOne THEN NoDraft ELSE [NoDraft EXCEPT !.shown = t]

(* Another instance in the same place keeps the component and its draft;   *)
(* leaving the page drops it, and the answers it waits for.                *)
OpenEditor(t) ==
    IF t # NoOne /\ EditorOpen
    THEN /\ EditorBecomes([page EXCEPT !.shown = t, !.leaving = NoOne])
         /\ wire' = Abandoned({"load", "check"}) \cup {Asks("load", t, <<>>)}
    ELSE /\ page' = Opened(t)
         /\ wire' = Abandoned({"load", "check", "default", "put", "written"})
                    \cup (IF t = NoOne THEN {} ELSE {Asks("load", t, <<>>)})

LeaveEditor(t) ==
    /\ EditorFree \/ ~EditorOpen
    /\ t # page.shown /\ Room
    /\ IF Unsaved /\ ~page.saving
       THEN page' = [page EXCEPT !.leaving = IF t = NoOne THEN "away" ELSE t]
            /\ UNCHANGED wire
       ELSE OpenEditor(t)
    /\ UNCHANGED world

DiscardDraft ==
    /\ page.leaving # NoOne
    /\ OpenEditor(IF page.leaving = "away" THEN NoOne ELSE page.leaving)
    /\ UNCHANGED world

KeepEditing ==
    /\ page.leaving # NoOne
    /\ page' = [page EXCEPT !.leaving = NoOne]
    /\ UNCHANGED <<wire, world>>

----------------------------------------------------------------------------
(* Loading and editing *)

LoadAnswered ==
    \E r \in Answerable("load") :
        LET doc == world[r.inst]
        IN  /\ wire' = Abandoned({"check"}) \ {r}
            /\ EditorBecomes([page EXCEPT
                   !.text = doc, !.original = doc, !.validated = doc,
                   !.validation = IF Illegal(doc) THEN "errors" ELSE "clean",
                   !.mode = IF CanEditProxies(doc) THEN "structured" ELSE "raw"])
            /\ UNCHANGED world

LoadFailed ==
    \E r \in Answerable("load") :
        /\ wire' = Abandoned({"check"}) \ {r}
        /\ EditorBecomes([page EXCEPT !.text = <<>>, !.original = <<>>, !.validation = "none"])
        /\ UNCHANGED world

DraftBecomes(text) ==
    /\ EditorBecomes([page EXCEPT !.text = text])
    /\ wire' = Abandoned({"check"})
    /\ UNCHANGED world

RawEdit ==
    /\ EditorFree /\ page.mode = "raw"
    /\ \E text \in Docs \ {page.text} : DraftBecomes(text)

ShownDrafts == ParseProxies(ProxiesBody(page.text))

\* The list of proxies: a block is added, removed, or one of its fields is typed.
DraftEdits ==
    (IF Len(ShownDrafts) < MaxProxies THEN {Append(ShownDrafts, EmptyProxy)} ELSE {})
    \cup {RemoveAt(ShownDrafts, i) : i \in DOMAIN ShownDrafts}
    \cup {[ShownDrafts EXCEPT ![i].name = v] : i \in DOMAIN ShownDrafts, v \in NamesTyped}
    \cup {[ShownDrafts EXCEPT ![i].remotePort = v] : i \in DOMAIN ShownDrafts, v \in PortsTyped}

StructuredEdit ==
    /\ EditorFree /\ page.mode = "structured"
    /\ \E drafts \in DraftEdits : DraftBecomes(RewriteProxies(page.text, drafts))

SwitchMode ==
    /\ EditorFree
    /\ page' = [page EXCEPT !.mode = IF @ = "raw" THEN "structured" ELSE "raw"]
    /\ page.mode = "raw" => CanEditProxies(page.text)
    /\ UNCHANGED <<wire, world>>

----------------------------------------------------------------------------
(* Validation *)

CheckSent ==
    /\ page.timer
    /\ Room
    /\ wire' = wire \cup {Asks("check", page.shown, page.text)}
    /\ page' = [page EXCEPT !.timer = FALSE]
    /\ UNCHANGED world

\* Sensitivity check of SavedWasValidated: the answer is taken for the text of now.
CheckAnsweredForNow ==
    \E r \in wire :
        /\ r.kind = "check"
        /\ wire' = wire \ {r}
        /\ page' = [page EXCEPT !.validating = FALSE, !.validated = page.text,
                         !.validation = IF Illegal(r.text) THEN "errors" ELSE "clean"]
        /\ UNCHANGED world

CheckAnswered ==
    \E r \in wire :
        /\ r.kind = "check"
        /\ wire' = wire \ {r}
        /\ page' = IF ~r.live THEN page
                     ELSE [page EXCEPT !.validating = FALSE, !.validated = r.text,
                              !.validation = IF Illegal(r.text) THEN "errors" ELSE "clean"]
        /\ UNCHANGED world

CheckFailed ==
    \E r \in Answerable("check") :
        /\ wire' = wire \ {r}
        /\ page' = [page EXCEPT !.validating = FALSE]
        /\ UNCHANGED world

----------------------------------------------------------------------------
(* Saving and the default draft *)

CanSave ==
    /\ Unsaved /\ ~page.saving /\ ~page.validating
    /\ page.validation = "clean"
    /\ page.validated = page.text

SaveDraft ==
    /\ EditorFree /\ CanSave
    /\ Room
    /\ wire' = wire \cup {Asks("put", page.shown, page.text)}
    /\ page' = [page EXCEPT !.saving = TRUE]
    /\ UNCHANGED world

\* The server writes; its answer is then on its way, or lost.
DraftWritten ==
    \E r \in wire :
        /\ r.kind = "put"
        /\ world' = [world EXCEPT ![r.inst] = r.text]
        /\ wire' = (wire \ {r}) \cup
                   (IF r.live THEN {[r EXCEPT !.kind = "written"]} ELSE {})
        /\ UNCHANGED page

SaveAnswered ==
    \E r \in Answerable("written") :
        /\ wire' = Abandoned({"check"}) \ {r}
        /\ EditorBecomes([page EXCEPT !.original = r.text, !.saving = FALSE])
        /\ UNCHANGED world

SaveFailed ==
    \E r \in Answerable("put") \cup Answerable("written") :
        /\ wire' = wire \ {r}
        /\ page' = [page EXCEPT !.saving = FALSE]
        /\ UNCHANGED world

ConfirmReset ==
    /\ EditorFree /\ ~page.saving
    /\ Room
    /\ wire' = wire \cup {Asks("default", page.shown, DefaultDoc)}
    /\ UNCHANGED <<page, world>>

DefaultAnswered ==
    \E r \in wire :
        /\ r.kind = "default"
        /\ \/ /\ r.live
              /\ EditorBecomes([page EXCEPT !.text = r.text])
              /\ wire' = Abandoned({"check"}) \ {r}
           \/ wire' = wire \ {r} /\ UNCHANGED page
        /\ UNCHANGED world

----------------------------------------------------------------------------
EditorUser ==
    \/ \E t \in Edited \cup {NoOne} : LeaveEditor(t)
    \/ DiscardDraft \/ KeepEditing
    \/ RawEdit \/ StructuredEdit \/ SwitchMode
    \/ SaveDraft \/ ConfirmReset

EditorRuns ==
    \/ LoadAnswered \/ LoadFailed
    \/ CheckSent \/ CheckAnswered \/ CheckFailed
    \/ DraftWritten \/ SaveAnswered \/ SaveFailed \/ DefaultAnswered

EditorNext == \/ UserActs /\ EditorUser
              \/ Runs /\ EditorRuns

EditorSpec == EditorInit /\ [][EditorNext]_pageVars

----------------------------------------------------------------------------
(* Whatever the order of edits, answers of validations, loads, saves and    *)
(* switches of the instance: the text that is sent to be written is one    *)
(* the server finds no error in, not one that came after the validation.   *)
SavedWasValidated == Shows("editor") => \A r \in Of("put") : ~Illegal(r.text)

Foreign(doc) == SelectSeq(doc, LAMBDA l : l[1] \notin KnownFields \cup {"head"})

(* An edit in the list of proxies keeps every line the list does not know: *)
(* comments, unknown fields, nested tables and everything before the list. *)
ForeignLinesKept ==
    Shows("editor") /\ StructuredEdit => Foreign(page'.text) = Foreign(page.text)
=============================================================================
