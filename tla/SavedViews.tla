----------------------------- MODULE SavedViews -----------------------------
(***************************************************************************)
(* The saved views of the server library and the draft they are made of    *)
(* (pages/Probe.tsx, ServerAdvancedFilters, ServerTagCloud, serverViews.ts *)
(* and the setters of useServers.ts).  Views are shared by all consoles;   *)
(* this one creates, renames and deletes them while lists of them are      *)
(* still on their way, and the draft goes on changing under a creation.    *)
(***************************************************************************)
EXTENDS Page

CONSTANTS
    TagIds,       \* classified tags
    GroupIds,     \* groups
    Columns,      \* columns of the table
    FirstViews,   \* the views there are: a function from numbers to views
    MaxViews,     \* bound on views
    ViewNames     \* names of views

EmptyFilters == [group |-> NoOne, groups |-> {}, tag |-> NoOne,
                 include |-> {}, exclude |-> {}, columns |-> Columns]

FreshViews == [draft |-> EmptyFilters, list |-> <<>>, current |-> 0, loading |-> TRUE,
               locks |-> {}, reads |-> 1, changes |-> 0, renaming |-> FALSE, asked |-> 0,
               tab |-> TRUE, kept |-> <<>>, gone |-> {}]

ViewsInit ==
    /\ focus = "views" /\ deeds = 0
    /\ page = FreshViews
    /\ wire = {[kind |-> "views", read |-> 1, change |-> 0, items |-> NoOne]}
    /\ world = FirstViews

Toggle(set, x) == IF x \in set THEN set \ {x} ELSE set \cup {x}

----------------------------------------------------------------------------
(* The draft: setGroup, setGroupIds, setTagId, setIncludeTagIds,            *)
(* setExcludeTagIds, and the columns.                                       *)

WithGroup(f, g)  == [f EXCEPT !.group = g, !.groups = {}]
WithGroups(f, s) == [f EXCEPT !.group = NoOne, !.groups = s]

WithTag(f, t) ==
    IF t = NoOne THEN [f EXCEPT !.tag = NoOne]
    ELSE [f EXCEPT !.tag = t, !.include = {}, !.exclude = @ \ {t}]

WithIncluded(f, s) == [f EXCEPT !.tag = NoOne, !.include = s]
WithExcluded(f, s) == [f EXCEPT !.exclude = s]

IncludeBox(f, t) ==
    LET s == Toggle(f.include, t)
        g == WithIncluded(f, s)
    IN  IF t \in s THEN WithExcluded(g, f.exclude \ {t}) ELSE g

\* Sensitivity check of TagsNotContradictory: excluding leaves what is required alone.
ExcludeBoxOnly(f, t) == WithExcluded(f, Toggle(f.exclude, t))

ExcludeBox(f, t) ==
    LET s == Toggle(f.exclude, t)
        g == WithExcluded(f, s)
    IN  IF t \in s THEN WithIncluded(g, f.include \ {t}) ELSE g

EditDraft ==
    /\ page.tab
    /\ \E f \in   {WithGroup(page.draft, g) : g \in GroupIds \cup {NoOne}}
             \cup {WithGroups(page.draft, Toggle(page.draft.groups, g)) : g \in GroupIds}
             \cup {WithTag(page.draft, IF page.draft.tag = t THEN NoOne ELSE t) : t \in TagIds}
             \cup {IncludeBox(page.draft, t) : t \in TagIds}
             \cup {ExcludeBox(page.draft, t) : t \in TagIds}
             \cup {[page.draft EXCEPT !.columns = Toggle(@, c)] :
                      c \in {c \in Columns : page.draft.columns # {c}}} :
          page' = [page EXCEPT !.draft = f]
    /\ UNCHANGED <<wire, world>>

----------------------------------------------------------------------------
(* The list *)

\* Another visit of the tab reads the list again.
VisitViews ==
    /\ page' = [page EXCEPT !.tab = ~@, !.loading = IF page.tab THEN @ ELSE TRUE,
                            !.reads = IF page.tab THEN @ ELSE @ + 1]
    /\ IF page.tab THEN UNCHANGED wire
       ELSE Room /\ wire' = wire \cup {[kind |-> "views", read |-> page.reads + 1,
                                        change |-> page.changes, items |-> NoOne]}
    /\ UNCHANGED world

ViewsRead ==
    \E r \in Of("views") :
        /\ r.items = NoOne
        /\ wire' = (wire \ {r}) \cup {[r EXCEPT !.items = world]}
        /\ UNCHANGED <<page, world>>

ViewsArrived ==
    \E r \in Of("views"), failed \in BOOLEAN :
        /\ r.items # NoOne \/ failed
        /\ page' = [page EXCEPT
              !.list = IF ~failed /\ r.read = page.reads /\ r.change = page.changes
                       THEN r.items ELSE @,
              !.loading = IF r.read = page.reads THEN FALSE ELSE @]
        /\ wire' = wire \ {r}
        /\ UNCHANGED world

SelectEnabled == page.tab /\ ~page.loading /\ page.locks = {}

ApplyView ==
    /\ SelectEnabled
    /\ \E v \in DOMAIN page.list \cup {0} :
          page' = [page EXCEPT !.current = v,
                               !.draft = IF v = 0 THEN @ ELSE page.list[v].filters]
    /\ UNCHANGED <<wire, world>>

----------------------------------------------------------------------------
(* Changing views *)

Begin(p, lock) == [p EXCEPT !.locks = @ \cup {lock}, !.loading = FALSE,
                            !.reads = @ + 1, !.changes = @ + 1]

\* Sensitivity check of OwnChangesStay: a change ends without outdating the reads it overtook.
FinishQuietly(p, lock) == [p EXCEPT !.locks = @ \ {lock}]

Finish(p, lock) == [p EXCEPT !.locks = @ \ {lock}, !.reads = @ + 1, !.changes = @ + 1]

CreateView ==
    /\ page.tab /\ "create" \notin page.locks /\ Room
    /\ \E n \in ViewNames :
          wire' = wire \cup {[kind |-> "create", view |-> [name |-> n, filters |-> page.draft]]}
    /\ page' = Begin(page, "create")
    /\ UNCHANGED world

\* Sensitivity check of EditsSurviveCreate: the answer is shown whatever the draft is by now.
ShownAfterAlways(p, id, v) == [p EXCEPT !.current = id, !.draft = v.filters]

\* The created view is shown if the draft is still the one that was sent.
ShownAfter(p, id, v) ==
    IF p.draft = v.filters THEN [p EXCEPT !.current = id, !.draft = v.filters]
    ELSE [p EXCEPT !.current = 0]

FreeViews == (1..MaxViews) \ (DOMAIN world \cup page.gone)
NextView  == CHOOSE i \in FreeViews : TRUE

Including(views, id, v) == Joined([i \in {id} |-> v], views)

NameFree(n, id) == \A v \in DOMAIN world : world[v].name = n => v = id

ViewCreated ==
    \E r \in Of("create") :
        /\ NameFree(r.view.name, 0) /\ FreeViews # {}
        /\ world' = Including(world, NextView, r.view)
        /\ \E lost \in BOOLEAN :
              page' = Finish(IF lost THEN page
                             ELSE ShownAfter([page EXCEPT
                                      !.list = Including(@, NextView, r.view),
                                      !.kept = Including(@, NextView, r.view)],
                                  NextView, r.view), "create")
        /\ wire' = wire \ {r}

ChangeRejected ==
    \E r \in Of("create") \cup Of("rename") \cup Of("delete") :
        /\ page' = Finish(page, r.kind)
        /\ wire' = wire \ {r}
        /\ UNCHANGED world

StartRename ==
    /\ page.tab /\ page.current \in DOMAIN page.list /\ page.locks \cap {"rename", "delete"} = {}
    /\ page' = [page EXCEPT !.renaming = TRUE]
    /\ UNCHANGED <<wire, world>>

RenameView ==
    /\ page.tab /\ page.renaming /\ page.current \in DOMAIN page.list /\ Room
    /\ "rename" \notin page.locks
    /\ \E n \in ViewNames :
          wire' = wire \cup {[kind |-> "rename", id |-> page.current, name |-> n]}
    /\ page' = Begin(page, "rename")
    /\ UNCHANGED world

Renamed(views, id, v) == [i \in DOMAIN views |-> IF i = id THEN v ELSE views[i]]

ViewRenamed ==
    \E r \in Of("rename") :
        /\ r.id \in DOMAIN world /\ NameFree(r.name, r.id)
        /\ LET v == [world[r.id] EXCEPT !.name = r.name]
           IN  /\ world' = Renamed(world, r.id, v)
               /\ \E lost \in BOOLEAN :
                     page' = Finish(IF lost THEN [page EXCEPT !.kept =
                                         [i \in DOMAIN @ \ {r.id} |-> @[i]]]
                                    ELSE [page EXCEPT !.list = Renamed(@, r.id, v),
                                                      !.kept = Renamed(@, r.id, v),
                                                      !.renaming = FALSE], "rename")
        /\ wire' = wire \ {r}

AskDelete ==
    /\ page.tab /\ page.current \in DOMAIN page.list /\ ~page.renaming
    /\ page.locks \cap {"rename", "delete"} = {}
    /\ page' = [page EXCEPT !.asked = page.current]
    /\ UNCHANGED <<wire, world>>

DeleteView ==
    /\ page.asked # 0 /\ "delete" \notin page.locks /\ Room
    /\ wire' = wire \cup {[kind |-> "delete", id |-> page.asked]}
    /\ page' = Begin(page, "delete")
    /\ UNCHANGED world

\* The answer is handled for the view that was asked for, under the dialog of that moment.
ViewDeleted ==
    \E r \in Of("delete") :
        /\ r.id \in DOMAIN world
        /\ world' = [i \in DOMAIN world \ {r.id} |-> world[i]]
        /\ \E lost \in BOOLEAN :
              LET rest == [page EXCEPT !.kept = [i \in DOMAIN @ \ {r.id} |-> @[i]]]
              IN  page' = Finish(IF lost THEN rest
                                 ELSE [rest EXCEPT
                                    !.list = [i \in DOMAIN @ \ {r.id} |-> @[i]],
                                    !.current = IF @ = r.id THEN 0 ELSE @,
                                    !.asked = 0, !.gone = @ \cup {r.id}], "delete")
        /\ wire' = wire \ {r}

ViewsUser ==
    \/ EditDraft \/ VisitViews \/ ApplyView
    \/ CreateView \/ StartRename \/ RenameView \/ AskDelete \/ DeleteView

ViewsRuns ==
    ViewsRead \/ ViewsArrived \/ ViewCreated \/ ChangeRejected \/ ViewRenamed \/ ViewDeleted

ViewsNext == \/ UserActs /\ ViewsUser
             \/ Runs /\ ViewsRuns

ViewsSpec == ViewsInit /\ [][ViewsNext]_pageVars

----------------------------------------------------------------------------
\* Filters that do not ask for and against the same.
NotContradictory(f) ==
    /\ (f.include \cup {f.tag}) \cap f.exclude = {}
    /\ f.tag # NoOne => f.include = {}
    /\ f.group # NoOne => f.groups = {}

(* The views there are were made by such consoles, from no address that was *)
(* typed: the server stores what it is sent.                                *)
ASSUME ViewsAssumption ==
    /\ NoOne \notin TagIds
    /\ \A v \in DOMAIN FirstViews :
          /\ DOMAIN FirstViews[v] = {"name", "filters"}
          /\ DOMAIN FirstViews[v].filters = DOMAIN EmptyFilters
          /\ FirstViews[v].filters.exclude \subseteq TagIds
          /\ NotContradictory(FirstViews[v].filters)

(* What this console created, renamed or deleted, and was told so, is what  *)
(* its list says: a list that was read before and comes later does not      *)
(* bring the old views back.                                                *)
OwnChangesStay ==
    Shows("views") =>
        /\ \A v \in DOMAIN page.kept : v \in DOMAIN page.list /\ page.list[v] = page.kept[v]
        /\ page.gone \cap DOMAIN page.list = {}

(* The answer of a creation does not take back an edit of the draft that    *)
(* was made while it was on its way.                                        *)
EditsSurviveCreate == Shows("views") /\ ViewCreated => page'.draft = page.draft

(* No sequence of filter clicks from a page opened without filters, nor a   *)
(* view made of them, asks for servers that have and do not have the same   *)
(* tag, or that are in one group and in a selection of groups.              *)
TagsNotContradictory ==
    Shows("views") =>
        \A f \in {page.draft} \cup {page.list[v].filters : v \in DOMAIN page.list} :
            NotContradictory(f)
=============================================================================
