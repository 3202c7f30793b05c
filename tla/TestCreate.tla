----------------------------- MODULE TestCreate -----------------------------
(***************************************************************************)
(* A new test in three steps (pages/TestCreatePage.tsx): the targets, the  *)
(* mode and the nodes, and the submission.                                 *)
(*                                                                         *)
(* The scope, the group, the frozen selection and the mode are in the      *)
(* address, so the history of the browser changes them too.  A scope that  *)
(* needs a selection has one made; the promise of it is kept by the page   *)
(* and used again while the scope stays, whoever waits for it.  A job of a *)
(* selection is submitted under a key that the session keeps until its     *)
(* answer is there or something else is chosen.                            *)
(***************************************************************************)
EXTENDS Page

CONSTANTS
    TestGroups,  \* groups of the library
    TestModes,   \* modes of a test; the first one of a link is DefaultMode
    DefaultMode,
    MaxFrozen    \* bound on selections

ASSUME DefaultModeAssumption == DefaultMode \in TestModes

Link == [scope |-> "", group |-> NoOne, sel |-> NoOne, picked |-> FALSE, mode |-> DefaultMode]

ScopeOf(u) ==
    IF u.scope # "" THEN u.scope
    ELSE IF u.sel # NoOne THEN "selection"
    ELSE IF u.group # NoOne THEN "group"
    ELSE IF u.picked THEN "selected" ELSE ""

OfSelection(u) == ScopeOf(u) \in {"selection", "group", "all"}

\* What a selection is made for.
CreationKey(u) == [scope |-> ScopeOf(u), group |-> IF ScopeOf(u) = "group" THEN u.group ELSE NoOne]

\* Entered by a link of the library, of the discovery, of a group or of none.
Links == {Link, [Link EXCEPT !.picked = TRUE]}
         \cup {[Link EXCEPT !.group = g] : g \in TestGroups}
         \cup {[Link EXCEPT !.sel = i] : i \in DOMAIN world.snaps}

NewPage(u, session, choice) ==
    [url |-> u, past |-> NoOne, step |-> 1, options |-> "loading", manual |-> "none",
     sel |-> NoOne, loading |-> FALSE, failed |-> FALSE, made |-> NoOne, submitting |-> FALSE,
     session |-> session, choice |-> choice]

AskOptions == [kind |-> "options"]

TestCreateInit ==
    Opens("test", NewPage(Link, NoOne, 0), [snaps |-> <<>>, jobs |-> <<>>, keys |-> 0])

----------------------------------------------------------------------------
(* The targets *)

RotatedFor(session, sel, mode) ==
    IF session # NoOne /\ sel # NoOne /\ (session.sel # sel.id \/ session.mode # mode)
    THEN NoOne ELSE session

\* The effect before is cancelled: nobody waits for its requests.
Unawaited(reqs) == {IF r.kind = "freeze" THEN [r EXCEPT !.wait = FALSE] ELSE r :
                       r \in {r \in reqs : r.kind # "selection"}}
Uncached(reqs)  == {IF r.kind = "freeze" THEN [r EXCEPT !.cached = FALSE] ELSE r : r \in reqs}

Reading(p, id, reqs) ==
    /\ page' = [p EXCEPT !.sel = NoOne, !.loading = TRUE, !.failed = FALSE]
    /\ wire' = Unawaited(reqs) \cup {[kind |-> "selection", id |-> id]}

(* The selection of the address is read; else the one that was or is being  *)
(* made for this scope is taken; else one is made.                          *)
ResolvesFrom(p, reqs) ==
    LET key == CreationKey(p.url)
        idle == ~OfSelection(p.url) \/ (ScopeOf(p.url) = "group" /\ p.url.group = NoOne)
    IN  CASE idle ->
               /\ page' = [p EXCEPT !.sel = NoOne, !.loading = FALSE, !.failed = FALSE]
               /\ wire' = Unawaited(reqs)
          [] ~idle /\ p.url.sel # NoOne -> Reading(p, p.url.sel, reqs)
          [] ScopeOf(p.url) = "selection" /\ p.url.sel = NoOne ->
               /\ page' = [p EXCEPT !.sel = NoOne, !.loading = FALSE, !.failed = TRUE]
               /\ wire' = Unawaited(reqs)
          [] OTHER ->
               IF p.made = NoOne \/ p.made.key # key
               THEN /\ page' = [p EXCEPT !.sel = NoOne, !.loading = TRUE, !.failed = FALSE,
                                         !.made = [key |-> key, id |-> NoOne]]
                    /\ wire' = Uncached(Unawaited(reqs)) \cup
                               {[kind |-> "freeze", key |-> key, wait |-> TRUE, cached |-> TRUE, id |-> NoOne]}
               ELSE IF p.made.id # NoOne
               THEN Reading([p EXCEPT !.url.sel = p.made.id, !.url.scope = key.scope], p.made.id, reqs)
               ELSE /\ page' = [p EXCEPT !.sel = NoOne, !.loading = TRUE, !.failed = FALSE]
                    /\ wire' = {IF r.kind = "freeze" THEN [r EXCEPT !.wait = r.cached] ELSE r :
                                   r \in Unawaited(reqs)}

\* With another address the key in the session is looked at first.
Resolves(p, reqs) ==
    ResolvesFrom([p EXCEPT !.session = IF OfSelection(p.url) THEN RotatedFor(@, p.sel, p.url.mode) ELSE @],
                 reqs)

Pushes(u) ==
    IF u = page.url THEN UNCHANGED <<page, wire>>
    ELSE Resolves([page EXCEPT !.url = u, !.past = page.url, !.choice = @ + 1], wire)

OnStep(n) == page.step = n /\ ~page.submitting

(* The session holds targets that were ticked before, so each scope can be  *)
(* chosen.  No scope is no choice where the address has a link's scope.     *)
ChangeScope ==
    /\ OnStep(1) /\ Room
    /\ \E s \in {"", "group", "manual", "all", "selected"} :
          LET u == [page.url EXCEPT !.sel = NoOne, !.scope = s,
                                    !.group = IF s = "group" THEN @ ELSE NoOne]
          IN  /\ s # ScopeOf(page.url) /\ u # page.url
              /\ Resolves([page EXCEPT !.url = u, !.past = page.url, !.made = NoOne, !.choice = @ + 1],
                          Uncached(wire))
    /\ UNCHANGED world

\* Sensitivity check of ChosenIsTested: the selection of the group before stays in the address.
GroupedBesides(u, g) == [u EXCEPT !.group = g]

Grouped(u, g) == [u EXCEPT !.sel = NoOne, !.group = g]

ChangeGroup ==
    /\ OnStep(1) /\ Room /\ ScopeOf(page.url) = "group"
    /\ \E g \in (TestGroups \cup {NoOne}) \ {page.url.group} :
          Resolves([page EXCEPT !.url = Grouped(@, g), !.past = page.url, !.made = NoOne, !.choice = @ + 1],
                   Uncached(wire))
    /\ UNCHANGED world

ChangeMode ==
    /\ OnStep(2) /\ Room
    /\ \E m \in TestModes : Pushes([page.url EXCEPT !.mode = m])
    /\ UNCHANGED world

\* Back or forward, at any step.
BrowseTest ==
    /\ page.past # NoOne /\ Room
    /\ Pushes(page.past)
    /\ UNCHANGED world

TypeTargets ==
    /\ OnStep(1) /\ ScopeOf(page.url) = "manual"
    /\ \E text \in {"none", "good", "badport"} : page' = [page EXCEPT !.manual = text]
    /\ UNCHANGED <<wire, world>>

SelectionCreated ==
    \E r \in Of("freeze") :
        /\ r.id = NoOne /\ Len(world.snaps) < MaxFrozen
        /\ world' = [world EXCEPT !.snaps = Append(@, [of |-> r.key, state |-> "queued"])]
        /\ wire' = (wire \ {r}) \cup {[r EXCEPT !.id = Len(world.snaps) + 1]}
        /\ UNCHANGED page

CreationArrived ==
    \E r \in Of("freeze") :
        /\ r.id # NoOne
        /\ LET p == [page EXCEPT !.made = IF r.cached THEN [key |-> r.key, id |-> r.id] ELSE @]
           IN  IF r.wait
               THEN Resolves([p EXCEPT !.url.sel = r.id, !.url.scope = r.key.scope], wire \ {r})
               ELSE page' = p /\ wire' = wire \ {r}
        /\ UNCHANGED world

\* The promise that failed is forgotten, and one of the same scope that is still to come.
CreationLost ==
    \E r \in Of("freeze") :
        /\ LET same == page.made # NoOne /\ page.made.key = r.key
           IN  /\ page' = [page EXCEPT !.made = IF same THEN NoOne ELSE @,
                                       !.failed = @ \/ r.wait, !.loading = @ /\ ~r.wait]
               /\ wire' = IF same THEN Uncached(wire \ {r}) ELSE wire \ {r}
        /\ UNCHANGED world

(* Read again until it settles.  An old answer says no more than that it    *)
(* was not ready yet: the reading is one step.                              *)
SelectionShown ==
    \E r \in Of("selection") :
        /\ LET s == world.snaps[r.id].state
           IN  page' = [page EXCEPT !.sel = [id |-> r.id, state |-> s], !.loading = s = "queued",
                                    !.session = RotatedFor(@, [id |-> r.id], page.url.mode)]
        /\ wire' = wire \ {r}
        /\ UNCHANGED world

SelectionLost ==
    \E r \in Of("selection") :
        /\ page' = [page EXCEPT !.failed = TRUE, !.loading = FALSE]
        /\ wire' = wire \ {r}
        /\ UNCHANGED world

PollSelection ==
    /\ page.loading /\ page.sel # NoOne /\ Of("selection") = {}
    /\ wire' = wire \cup {[kind |-> "selection", id |-> page.sel.id]}
    /\ UNCHANGED <<page, world>>

SelectionProceeds ==
    /\ \E i \in DOMAIN world.snaps :
          /\ world.snaps[i].state = "queued"
          /\ \E s \in {"ready", "failed"} : world' = [world EXCEPT !.snaps[i].state = s]
    /\ UNCHANGED <<page, wire>>

----------------------------------------------------------------------------
(* Nodes and policy *)

LoadOptions ==
    /\ page.options = "failed" /\ OnStep(2)
    /\ page' = [page EXCEPT !.options = "loading"]
    /\ wire' = (wire \ Of("options")) \cup {AskOptions}
    /\ UNCHANGED world

\* Loaded with a primary node, or one of the three answers fails or names none.
OptionsShown ==
    \E r \in Of("options"), o \in {"ready", "failed"} :
        /\ page' = [page EXCEPT !.options = o]
        /\ wire' = wire \ {r}
        /\ UNCHANGED world

----------------------------------------------------------------------------
(* The steps *)

TargetsReady ==
    CASE OfSelection(page.url)            -> page.sel # NoOne /\ page.sel.state = "ready"
      [] ScopeOf(page.url) = "manual"     -> page.manual # "none"
      [] OTHER                            -> ScopeOf(page.url) = "selected"

BadPort == ScopeOf(page.url) = "manual" /\ page.manual = "badport"

NextStep ==
    /\ \/ OnStep(1) /\ ~page.loading /\ TargetsReady /\ ~BadPort
       \/ OnStep(2) /\ ~page.loading /\ page.options = "ready"
    /\ page' = [page EXCEPT !.step = @ + 1]
    /\ UNCHANGED <<wire, world>>

PreviousStep ==
    /\ page.step > 1 /\ ~page.submitting
    /\ page' = [page EXCEPT !.step = @ - 1]
    /\ UNCHANGED <<wire, world>>

\* Sensitivity check of TestedOnce: a key of its own for every submission.
FreshKey(session, sel, mode) == [sel |-> sel, mode |-> mode, key |-> world.keys + 1]

SelectionKey(session, sel, mode) ==
    IF session # NoOne /\ session.sel = sel /\ session.mode = mode THEN session
    ELSE [sel |-> sel, mode |-> mode, key |-> world.keys + 1]

\* Targets that are named one by one are submitted without a key.
SubmitTest ==
    /\ OnStep(3) /\ page.options = "ready" /\ TargetsReady /\ ~page.loading /\ ~BadPort /\ Room
    /\ LET pending == SelectionKey(page.session, page.sel.id, page.url.mode)
           keyed   == OfSelection(page.url)
       IN  /\ page' = [page EXCEPT !.submitting = TRUE, !.session = IF keyed THEN pending ELSE @]
           /\ world' = [world EXCEPT !.keys = IF keyed /\ pending.key > @ THEN pending.key ELSE @]
           /\ wire' = wire \cup {[kind |-> "job", pending |-> IF keyed THEN pending ELSE NoOne,
                                  choice |-> page.choice, here |-> TRUE, done |-> FALSE]}

\* A key that is known is answered with its job; else the selection has to be ready.
TestServed ==
    \E r \in Of("job") :
        /\ ~r.done
        /\ world' = IF r.pending = NoOne \/ \E j \in DOMAIN world.jobs : world.jobs[j].key = r.pending.key
                    THEN world
                    ELSE [world EXCEPT !.jobs = Append(@, Joined(r.pending, [choice |-> r.choice]))]
        /\ wire' = (wire \ {r}) \cup {[r EXCEPT !.done = TRUE]}
        /\ UNCHANGED page

Elsewhere(reqs) ==
    {IF r.kind = "job" THEN [r EXCEPT !.here = FALSE] ELSE r :
        r \in {r \in Uncached(Unawaited(reqs)) : r.kind # "options"}}

Enters(u, session, choice, reqs) ==
    Resolves(NewPage(u, session, choice), Elsewhere(reqs) \cup {AskOptions})

(* The answer goes on to the job, also from a page that was left, and the   *)
(* user comes back by some link.                                            *)
TestAnswered ==
    \E r \in Of("job"), u \in Links :
        /\ r.done
        /\ Enters(u, IF page.session = r.pending THEN NoOne ELSE page.session, page.choice + 1, wire \ {r})
        /\ UNCHANGED world

TestLost ==
    \E r \in Of("job") :
        /\ page' = IF r.here THEN [page EXCEPT !.submitting = FALSE] ELSE page
        /\ wire' = wire \ {r}
        /\ UNCHANGED world

\* Left, and entered again on the address it had or by a link.
LeaveTest ==
    /\ Room
    /\ \E u \in Links \cup {page.url} :
          Enters(u, page.session, IF u = page.url THEN page.choice ELSE page.choice + 1, wire)
    /\ UNCHANGED world

TestCreateUser ==
    \/ ChangeScope \/ ChangeGroup \/ ChangeMode \/ BrowseTest \/ TypeTargets
    \/ SubmitTest \/ LeaveTest \/ LoadOptions

TestCreateRuns ==
    \/ SelectionCreated \/ CreationArrived \/ CreationLost
    \/ SelectionShown \/ SelectionLost \/ PollSelection \/ SelectionProceeds
    \/ OptionsShown \/ NextStep \/ PreviousStep \/ TestServed \/ TestAnswered \/ TestLost

TestCreateNext == \/ UserActs /\ TestCreateUser
                  \/ Runs /\ TestCreateRuns

TestCreateSpec == TestCreateInit /\ [][TestCreateNext]_pageVars

----------------------------------------------------------------------------
(* The selection that is shown, and that a submission takes, was made for   *)
(* the scope and the group that the page says it tests: no answer of the    *)
(* scope before and no address of the history brings another one.           *)
ChosenIsTested ==
    Shows("test") /\ page.sel # NoOne =>
        /\ OfSelection(page.url) /\ page.url.sel = page.sel.id
        /\ ScopeOf(page.url) # "selection" => world.snaps[page.sel.id].of = CreationKey(page.url)

(* A test that is confirmed again because its answer was lost, or on a page *)
(* that was left and entered again, is the job that was made: of one choice *)
(* there is one job for a selection and a mode.                             *)
TestedOnce ==
    Shows("test") =>
        \A i, j \in DOMAIN world.jobs :
            world.jobs[i].choice = world.jobs[j].choice
            /\ world.jobs[i].sel = world.jobs[j].sel /\ world.jobs[i].mode = world.jobs[j].mode
            => i = j
=============================================================================
