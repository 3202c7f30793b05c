----------------------------- MODULE JobsPanel -----------------------------
(***************************************************************************)
(* The test jobs (pages/probe/ProbeJobsPanel.tsx): a list of jobs, the one *)
(* that is looked at with a page of its tasks, and what is done to it or   *)
(* to the tasks that are ticked.                                           *)
(*                                                                         *)
(* The job and the filters are in the address, the page of the tasks and   *)
(* the ticks in the component.  The object that names the selection, job   *)
(* and page, is a new one whenever either changes: `own` says of a request *)
(* that its object is still the one of the component.                      *)
(***************************************************************************)
EXTENDS Page

CONSTANTS
    TestJobs,    \* jobs
    MaxTasks     \* tasks of a job; a page shows one

TaskIds == 1..MaxTasks

AnyTask == [list |-> "", task |-> ""]        \* no filter on the list, none on the tasks

Passes(job, filter) == {t \in TaskIds : filter.task \in {"", world[job][t]}}

AskJobs(p) == [kind |-> "jobs", job |-> p.job, at |-> p.at, filter |-> p.filter,
               stage |-> "list", answer |-> NoOne]

(* The panel on the address `job`; without one, on the scan started last.   *)
Panel(job, filter, home) ==
    [job |-> IF job = NoOne THEN home ELSE job, at |-> 1, filter |-> filter, home |-> home,
     ticks |-> {}, detail |-> NoOne, listed |-> NoOne, error |-> FALSE,
     acting |-> FALSE, stopping |-> FALSE, seen |-> TRUE]

JobsPanelInit ==
    /\ focus = "jobs" /\ deeds = 0
    /\ \E home \in TestJobs \cup {NoOne} : page = Panel(NoOne, AnyTask, home)
    /\ wire = {AskJobs(page)}
    /\ world = [j \in TestJobs |-> [t \in TaskIds |-> "open"]]

----------------------------------------------------------------------------
(* Reading *)

JobActs == {r \in wire : r.kind = "act"}

\* Sensitivity check of DetailOfItsFilter: what was asked before is not given up.
StillHeardOf(reads) == reads

\* Every new read counts the generation up, and so does the end of an effect.
StillHeard(reads) == {}

(* The panel becomes `p` and reads again, of the acts `acts` on their way.  *)
Reloads(p, acts) ==
    /\ page' = p
    /\ wire' = acts \cup StillHeard(Of("jobs")) \cup {AskJobs(p)}

\* A new selection: no act on its way has its object any more.
Reselects(p) == Reloads(p, {[r EXCEPT !.own = FALSE] : r \in JobActs})

PollJobs ==
    /\ page.seen
    /\ Reloads(page, JobActs)
    /\ UNCHANGED world

JobsListed ==
    \E r \in Of("jobs") :
        /\ r.stage = "list"
        /\ page' = [page EXCEPT !.listed = r.filter.list,
                                !.detail = IF r.job = NoOne THEN NoOne ELSE @,
                                !.error = IF r.job = NoOne THEN FALSE ELSE @]
        /\ wire' = (wire \ {r}) \cup (IF r.job = NoOne THEN {} ELSE {[r EXCEPT !.stage = "detail"]})
        /\ UNCHANGED world

JobDetailRead ==
    \E r \in Of("jobs") :
        /\ r.stage = "detail" /\ r.answer = NoOne
        /\ wire' = (wire \ {r}) \cup {[r EXCEPT !.answer =
               LET tasks == Passes(r.job, r.filter)
               IN  [job |-> r.job, at |-> r.at, filter |-> r.filter, total |-> Cardinality(tasks),
                    tasks |-> {<<t, world[r.job][t]>> : t \in NthOf(tasks, r.at)},
                    states |-> {world[r.job][t] : t \in TaskIds}]]}
        /\ UNCHANGED <<page, world>>

LastPage(total) == IF total = 0 THEN 1 ELSE total

\* A page beyond the last one is left for the last one; nothing of the answer is shown.
JobDetailArrived ==
    \E r \in Of("jobs") :
        /\ r.answer # NoOne
        /\ IF r.at > LastPage(r.answer.total)
           THEN Reselects([page EXCEPT !.at = LastPage(r.answer.total)])
           ELSE /\ page' = [page EXCEPT !.detail = r.answer, !.error = FALSE]
                /\ wire' = wire \ {r}
        /\ UNCHANGED world

JobsLost ==
    \E r \in Of("jobs") :
        /\ page' = [page EXCEPT !.error = TRUE]
        /\ wire' = wire \ {r}
        /\ UNCHANGED world

----------------------------------------------------------------------------
(* What is looked at *)

(* The detail on the screen is one of this job and this page, if there is.  *)
OnScreen ==
    IF page.detail # NoOne /\ page.detail.job = page.job /\ page.detail.at = page.at
    THEN page.detail ELSE NoOne

Tasks == IF OnScreen = NoOne THEN {} ELSE OnScreen.tasks

Idle == ~page.stopping /\ ~page.acting

(* Another address, from the list or from the history of the browser.  The  *)
(* ticks, the page and the detail go with the job, the dialog stays.        *)
ToJob(job, filter) ==
    LET p == Panel(job, filter, page.home)
    IN  IF p.job # page.job
        THEN Reselects([p EXCEPT !.listed = page.listed, !.error = page.error, !.seen = page.seen,
                                 !.acting = page.acting, !.stopping = page.stopping])
        ELSE IF filter # page.filter THEN Reloads([page EXCEPT !.filter = filter], JobActs)
             ELSE UNCHANGED <<page, wire>>

OpenJob ==
    /\ ~page.stopping /\ page.listed # NoOne
    /\ \E j \in TestJobs : ToJob(j, page.filter)
    /\ UNCHANGED world

BrowseJobs ==
    /\ \E j \in TestJobs \cup {NoOne} : ToJob(j, AnyTask)
    /\ UNCHANGED world

ChangeFilter ==
    /\ ~page.stopping
    /\ \E f \in {[page.filter EXCEPT !.list = IF @ = "" THEN "running" ELSE ""],
                 [page.filter EXCEPT !.task = IF @ = "" THEN "failed" ELSE ""]} :
          IF page.at = 1 THEN Reloads([page EXCEPT !.filter = f], JobActs)
          ELSE Reselects([page EXCEPT !.filter = f, !.at = 1])
    /\ UNCHANGED world

TurnTasks ==
    /\ Idle /\ OnScreen # NoOne
    /\ \E n \in {page.at - 1, page.at + 1} :
          /\ 1 <= n /\ n <= OnScreen.total
          /\ Reselects([page EXCEPT !.at = n, !.ticks = {}])
    /\ UNCHANGED world

TickTask ==
    /\ ~page.stopping
    /\ \E task \in Tasks :
          page' = [page EXCEPT !.ticks = IF task[1] \in @ THEN @ \ {task[1]} ELSE @ \cup {task[1]}]
    /\ UNCHANGED <<wire, world>>

\* The box of the page ticks its tasks and no other, or clears all.
TickTasks ==
    /\ ~page.stopping /\ Tasks # {}
    /\ LET ids == {task[1] : task \in Tasks}
       IN  page' = [page EXCEPT !.ticks = IF ids \subseteq @ THEN {} ELSE ids]
    /\ UNCHANGED <<wire, world>>

RefreshJobs ==
    /\ Idle
    /\ Reloads(page, JobActs)
    /\ UNCHANGED world

\* Coming back to the window reads at once.
ToggleSeen ==
    /\ LET p == [page EXCEPT !.seen = ~@]
       IN  IF p.seen THEN Reloads(p, JobActs) ELSE page' = p /\ UNCHANGED wire
    /\ UNCHANGED world

----------------------------------------------------------------------------
(* Acting *)

Act(verb, ids) ==
    /\ ~page.acting /\ OnScreen # NoOne /\ Cardinality(JobActs) < MaxWire[focus]
    /\ page' = [page EXCEPT !.acting = TRUE, !.stopping = FALSE]
    /\ wire' = wire \cup {[kind |-> "act", verb |-> verb, job |-> page.job, at |-> page.at,
                           ids |-> ids, own |-> TRUE, here |-> TRUE, done |-> FALSE]}
    /\ UNCHANGED world

AskStop ==
    /\ Idle /\ OnScreen # NoOne /\ "open" \in OnScreen.states
    /\ page' = [page EXCEPT !.stopping = TRUE]
    /\ UNCHANGED <<wire, world>>

ConfirmStop == page.stopping /\ Act("stop", TaskIds)

CancelStop ==
    /\ page.stopping /\ OnScreen # NoOne
    /\ page' = [page EXCEPT !.stopping = FALSE]
    /\ UNCHANGED <<wire, world>>

RetryJob == Idle /\ OnScreen # NoOne /\ "failed" \in OnScreen.states /\ Act("retry", TaskIds)

\* Of the ticks only those on the screen count, and of these those the verb is for.
ActOnTicked ==
    /\ Idle
    /\ \E v \in {<<"skip", "open">>, <<"retry", "failed">>} :
          LET ids == {task[1] : task \in {task \in Tasks : task[1] \in page.ticks /\ task[2] = v[2]}}
          IN  ids # {} /\ Act(v[1], ids)

After(verb, state) ==
    CASE verb \in {"stop", "skip"} /\ state = "open" -> "failed"
      [] verb = "retry" /\ state = "failed"          -> "open"
      [] OTHER                                       -> state

ActServed ==
    \E r \in JobActs :
        /\ ~r.done
        /\ world' = [world EXCEPT ![r.job] = [t \in TaskIds |->
                        IF t \in r.ids THEN After(r.verb, @[t]) ELSE @[t]]]
        /\ wire' = (wire \ {r}) \cup {[r EXCEPT !.done = TRUE]}
        /\ UNCHANGED page

\* Sensitivity check of JobTicksKept: a selection that looks the same is taken for it.
OwnActByName(r) == r.here /\ r.job = page.job /\ r.at = page.at

OwnAct(r) == r.here /\ r.own

ActAnswered ==
    \E r \in JobActs :
        /\ r.done
        /\ LET free == IF r.here THEN [page EXCEPT !.acting = FALSE] ELSE page
           IN  IF OwnAct(r) THEN Reloads([free EXCEPT !.ticks = {}], JobActs \ {r})
               ELSE page' = free /\ wire' = wire \ {r}
        /\ UNCHANGED world

ActLost ==
    \E r \in JobActs :
        /\ page' = IF r.here THEN [page EXCEPT !.acting = FALSE] ELSE page
        /\ wire' = wire \ {r}
        /\ UNCHANGED world

LeaveJobs ==
    /\ ~page.stopping
    /\ page' = Panel(NoOne, AnyTask, page.home)
    /\ wire' = {[r EXCEPT !.own = FALSE, !.here = FALSE] : r \in JobActs} \cup {AskJobs(page')}
    /\ UNCHANGED world

TaskEnds ==
    /\ \E j \in TestJobs, t \in TaskIds :
          /\ world[j][t] = "open"
          /\ world' \in {[world EXCEPT ![j][t] = s] : s \in {"done", "failed"}}
    /\ UNCHANGED <<page, wire>>

JobsPanelUser ==
    \/ OpenJob \/ BrowseJobs \/ ChangeFilter \/ TurnTasks \/ TickTask \/ TickTasks \/ RefreshJobs
    \/ ToggleSeen \/ AskStop \/ ConfirmStop \/ CancelStop \/ RetryJob \/ ActOnTicked
    \/ LeaveJobs \/ TaskEnds

JobsPanelRuns ==
    \/ PollJobs \/ JobsListed \/ JobDetailRead \/ JobDetailArrived \/ JobsLost
    \/ ActServed \/ ActAnswered \/ ActLost

JobsPanelNext == \/ UserActs /\ JobsPanelUser
                 \/ Runs /\ JobsPanelRuns

JobsPanelSpec == JobsPanelInit /\ [][JobsPanelNext]_pageVars

----------------------------------------------------------------------------
(* Once the panel has nothing to wait for and no error to show, the tasks   *)
(* and the list are those of the filters: the answer of an earlier filter   *)
(* does not stay on the screen.                                             *)
DetailOfItsFilter ==
    Shows("jobs") /\ Of("jobs") = {} /\ ~page.error =>
        /\ page.listed = page.filter.list
        /\ OnScreen # NoOne => OnScreen.filter = page.filter

(* The answer of an act takes no tick from a selection it was not sent      *)
(* from, also when the user left that job or page and is back on it.        *)
JobTicksKept ==
    Shows("jobs") =>
       \A r \in wire \ wire' :
           r.kind = "act" /\ ActAnswered /\ ~r.own => page'.ticks = page.ticks
=============================================================================
