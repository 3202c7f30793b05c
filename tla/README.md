# A verification project for frpc-multi

frpc-multi manages `frpc` instances on many machines from one Console, and tests
the servers they tunnel through: a durable scheduler hands discovery, route,
connectivity and speed tests to probe nodes, moves them when nodes go silent, and
keeps the results from which DNS records are chosen. Its user interface is a React
program that polls, edits drafts and submits while answers are still on their way.

This directory holds TLA+ modules of the parts of that system where steps of
several actors interleave, the TLC configurations that check them on small
instances, and proofs, checked by TLAPS, of the properties that matter most, for
every number of nodes, jobs, hosts and attempts. Paths of Python files are relative to
`src/webui/backend/app/`, those of `.ts` and `.tsx` files to `src/webui/frontend/src/`,
unless they start with `docs/` or `src/`.

    tlc -workers 4 -config Failover.cfg MCProbeScheduler.tla     # one run
    tlc -workers 4 -config Console.cfg MCConsole.tla             # the pages of the Console
    tlapm ProbeSchedulerProofs.tla                               # one proof module

`PROJECT.json` lists the runs, for each property a mutation of the model that a
plausible bug would cause and that the run must find, the source lines behind
every definition, the hazards of the code and the theorems.

## 1. Inventory

| Part | State | Operations | Hard behaviour | Here |
|---|---|---|---|---|
| Durable probe scheduler: `probe/jobs.py` | `probe_nodes`, `probe_jobs`, `probe_tasks`, `probe_results`, `probe_current_results`, the saved policy | create, heartbeat, claim, progress, report, stop, skip, retry, stop_stage, delete_node, clear_history, set_execution_policy; `_expire` inside every worker call | leases, late and repeated messages, failover along a frozen chain, exclusive use of tunnel ports and bandwidth, stage pipeline, derived job state | modelled in part, proved |
| Selection producer: `probe/selection_jobs.py` | `probe_job_producers` | create, materialize inside claim, sweep, stop, resume | backlog limit, continuation by a backup | modelled in part |
| Probe worker: `probe/worker.py`, `executor.py`, `console.py`, `adapters.py` | attempts in flight, renewal times | heartbeat thread, claim loop, one thread per attempt, progress, report | gives up after 90 s on its own clock; a renewal racing a new attempt | environment only |
| DNS load balancing: `lb/*` | domains, candidates, pins, stored addresses, health counters; the records at Cloudflare | check, decide, synchronise, switch, edit, delete; edits and deletions of servers | partial failure of the DNS service, decisions on old copies, restarts in the middle | modelled in part, proved |
| Server bulk worker: `probe/bulk.py` | bulk jobs, one lease row | create, claim lease, chunk, finish, retention | takeover in the middle of a chunk | what its callers see |
| Agent hub: `control/hub.py`, `ws_router.py`, `wsproto.py`, `node_store.py`, `router.py`, `agent/client.py` | registry of connections, requests and streams in flight, online mark | register, call, stream, cancel, close | replaced sessions, bounded queues, late cleanup | modelled in part, proved |
| Agent instances: `agent/service.py`, `instance_store.py`, `compose_generator.py`, `docker_service.py` | files of an instance, containers | create, edit, delete, start, restart | read, write, validate and roll back without a lock | not modelled |
| Discovery engine: `probe/discover.py`, `persistence.py`, `engine.py`, `runner.py`, `route.py` | scanned ranges, checkpoints | scan, persist, resume | interval arithmetic at boundaries | not modelled |
| GeoIP: `geoip/*` | database files, active version, tags | download, verify, activate, refresh | restart between steps | not modelled |
| Server library: `probe/store.py`, `saved_views.py`, `import_parser.py`, `probe/router.py` | servers, tags, views | CRUD, import, query | SQL, cursors that go stale | what the pages ask of it |
| Database, audit, authentication, settings | schema, migrations | | | the constraints on scheduler tables only |
| Console context and instance pages: `context/ConsoleContext.tsx`, `pages/Overview.tsx`, `Detail.tsx`, `CreateInstance.tsx`, `ConfigEditor.tsx`, `lib/proxyToml.ts` | nodes, instances, marks, drafts of documents | poll, operate, edit by field or text, validate, save, create | effects that cancel each other, late validations, rewriting of documents, a guard against leaving | modelled, proved but for the rewriting |
| Library pages: `pages/Probe.tsx` with `probe/useServers.ts`, `useServerImport.ts`, `useServerBulk.ts`, `useDiscovery.ts`, `serverViews.ts` | query, page, count, ticks, views, snapshot, job, what the session storage keeps | search, page, tick, freeze, import, change, delete, retry | aborted reads, lost answers and retries over visits, ticks over pages | modelled, proved |
| Test pages: `probe/ProbeJobsPanel.tsx`, `TestCreatePage.tsx`, `TestNodesPage.tsx`, `probe/TestNodesDialog.tsx` | job, tasks, ticks; scope, selection, step; policy draft | browse, act, freeze, submit, order, save | ownership of requests over navigation, shared promises, drafts under polls | modelled, proved |
| Domains page: `pages/LbPage.tsx`, `DomainCandidatesDialog.tsx`, `lib/lbDomainView.ts` | list, typed text, address, marks of syncs, dialogs; a domain's candidates, library rows, ticks | search, filter, open, sync, create, edit, delete; page, tick, add, remove, switch | an address that settles late, answers of dialogs that were closed; three operations that share a list and re-read it | modelled, proved |
| Other pages: login, nodes, results, audit, settings, system | React state | forms and lists of one request each | | not modelled |
| Scripts: `src/scripts`, `probe/install.sh` | | installation, backup | | not modelled |

How they meet. Workers call the Console over HTTP (`heartbeat`, `claim`,
`progress`, `report`); the Console runs a worker of its own in the same process,
against the same store (`probe/console.py`). Every operation of `ProbeJobStore` is
one `BEGIN IMMEDIATE` transaction (`jobs.py:85-96`): operations interleave, their
parts do not. An operation that raises is rolled back. The store has no thread:
expiry and failover (`_expire`) run at the beginning of the workers' calls and of
the queries of the UI. The load balancer reads the projection of results; the
agents are reached over one WebSocket each and share nothing with the probes.
The pages talk to the Console by HTTP requests that are answered in any order; a router mounts
one page at a time, below one context that polls nodes and instances for all of them, and what a
visit leaves behind is in the address, the history of the browser and the session storage.

What makes each part correct, in a line:
scheduler: exclusive locks, a fenced attempt per row, ownership that only moves
down the chain, a complete pipeline, a truthful job state, termination;
producer: every target once, whoever feeds it;
worker: an attempt stops using its resources before somebody else may start;
load balancing: one record per domain, of a healthy candidate; a failed step leaves more records, never none, and the row
does not say ok over it;
bulk: no write after the lease is lost;
hub: every request ends once, the online mark follows the live session;
instances: a failed update leaves the previous configuration running;
intervals: subtraction equals set difference;
GeoIP: the active database is always a verified one;
pages: what is shown answers what is asked, what is confirmed once is done once, a mark of a
running operation tells the truth, and no answer takes a draft, a tick or a line of a document.

## 2. Modules

| Module | Role |
|---|---|
| `ProbeScheduler` | the scheduler and the producer, one action per operation, and its properties |
| `FencedTasks` | what it promises about results: grants, withdrawals, one accepted result |
| `MCProbeScheduler` | instances: jobs, chains, profiles of nodes, requests of operators |
| `MCProbeLiveness` | fairness and a bound on faults |
| `ProbeSchedulerProofs` | the inductive invariant and the safety theorems; the scheduler implements `FencedTasks` |
| `FencedTasksProofs` | the abstract specification keeps its promise |
| `OutcomeProofs` | results, the gate of the speed test, states of jobs, complete pipelines |
| `AgentHub` | the Console's side of the agents: sessions, calls, log streams, the stored status |
| `MCAgentHub` | one node whose agent reconnects, a summary, a deletion, a log stream |
| `AgentHubProofs` | types, nobody is orphaned, the successor stays registered |
| `DomainSync` | DNS load balancing: one domain, its records, its servers, and whoever writes them |
| `MCDomainSync` | two servers, two addresses, one request beside the scheduler |
| `DomainSyncProofs` | all its safety and action properties |
| `Page` | what all pages share: the page in focus, its state, its requests, the servers |
| `ProxyToml` | the TOML helpers of the forms, as operators on sequences of lines |
| `ConfigEditor`, `Workspace`, `InstancePage`, `CreateInstance`, `ServerLibrary`, `SavedViews`, `ServerImport`, `ServerBulk`, `Discovery`, `JobsPanel`, `TestCreate`, `TestNodes`, `LbPage`, `Candidates` | one page or panel each |
| `ConsolePages` | the Console: the router over the pages, and the promises they share |
| `MCConsole` | documents, names and bounds per page |
| `FormProofs` | the editor and the form of a new instance, each alone |
| `ConsoleProofs` | what the pages show: answers belong to their question, marks tell what runs, imports happen once |
| `IntentProofs` | what the pages do: one job per intention, of what was chosen; drafts and ticks survive answers |

### ProbeScheduler

State. `node` is `probe_nodes` (existence, seen within 30 seconds, generation
protocol, capabilities); `policy` the saved execution policy; `jobState` the stored
state; `rank` the chain frozen in the job (1 the primary, then the backups, Console
last, 0 outside); `task` the rows; `leased` the rows whose lease is ahead; `producer`,
`results`, `current` the tables of those names. `grants` is history: every answer
`claim` ever gave. Any message of any grant may arrive at any later time, any number of
times, so lost answers, repeated posts, delays and workers that come back from the
dead need no action of their own.

A row is named by what the pipeline inserted it for (job, stage, host, copy); the k-th
claim of a row gets attempt id k where the code draws a random id.

| Action | Code |
|---|---|
| `Heartbeat`, `Poll`, `Sweep` | `heartbeat` 770-790; the queries that call `_expire` 563-703 |
| `Claim`, `ClaimWith` | `claim` 717-768, with `materialize_selection_chunk` |
| `Progress`, `Report` | 798-821, 827-895 |
| `CreateJob`, `CreateSelectionJob`, `SetPolicy` | 487-545, `selection_jobs.py` 22-92, 221-244 |
| `Stop`, `Skip`, `Retry` | `action` 896-940, for a job or one row |
| `StopStage`, `DeleteNode`, `ClearHistory` | 1151-1158, 347-383, 1120-1133 |
| `LeaseRunsOut`, `GoSilent` | the passage of time in the comparisons at 566 and 404-407 |

The order inside a transaction is kept: the sweep (expired rows, then pending rows and
producers whose owner is unusable, then the refresh of the jobs in which an expired
row ended), then the operation on the swept table, then its own refresh. An operation
whose transaction would break `idx_probe_task_pipeline` (`control/database.py:250`)
is disabled, as the code rolls it back.

Definitions called "Sensitivity check of P" are mutated forms of the definition after
them; no specification uses them. They are there so that a run can show that P would
notice.

Abstractions.
- A progress message of a scan carries one address; a chunk of the producer is one
  target where the code takes 250, and `BacklogLimit` replaces 500.
- The sweep looks at every row: the budget of 500 and the cursor that persists
  between calls (593-620) are not reached at this size.
- Local port slots (751-762) are left out; so is progress of the other stages, which
  only rewrites a document.
- `claim` takes any claimable row; the code takes the oldest. So the model allows more.
- A lease is a set membership: it may run out at any moment and a renewal is its
  staying in the set, so the model allows every timing.
- Nodes are enrolled before the run begins; the retention of seven days for a stopped
  producer is taken as open; a producer does not fail.

### FencedTasks

A task is held by at most one attempt; ids are issued once; a result enters the
history only as the result of the holding attempt, and ends it; anything else
withdraws. The refinement maps `holder` to the attempt of a *running* row (a row
being cancelled is held by nobody, although it keeps its locks), `issued` to the number
of claims, `accepted` to `results`. One transaction may withdraw many rows before it
does its own step, so `Grant` and `Accept` allow withdrawals beside them.

### AgentHub

State. `record` is the stored status of a node (`none`: no row), `registry` is
`hub._connections`, `session` the progress of each WebSocket handler, `pending` and
`routed` are `_pending` and `_streams` of each connection, `call` and `stream` the
coroutines that wait and the queue between, `asked` what reached the agent, `thread` the
status that a request in a worker thread is about to write.

| Action | Code |
|---|---|
| `Hello`, `Greet`, `GreetFails`, `Disconnect` | `ws_router.py` 34-113, with `register`, `unregister` and `fail_all` of `hub.py` |
| `Heartbeat`, `Response`, `Data`, `End` | the frames of `ws_router.py` 99-105, `hub.py` 112-144 |
| `StartCall`, `CallSent`, `SendFails`, `Timeout`, `Resume` | `hub.py` 54-80 between its awaits, with what the caller does next: `main.py` 195-215, `router.py` 294-303 |
| `OpenStream`, `StreamSent`, `StreamSendFails`, `Read`, `ReaderEnds`, `ClientLeaves` | `router.py` 551-568, `hub.py` 82-110 |
| `DeleteOffline`, `PingLooks`, `RenameReads`, `ThreadWrites` | `router.py` 281-325, 259-269, `node_store.py` 123-168 |

A step is what a coroutine does between two awaits that can suspend it: `register` and
`unregister` take a lock that is never held across an await, so each runs in one step with
what follows it. The order in which the loop resumes two coroutines that are both ready is
left open. An agent is left open too: it answers what reached it, once, at any time, or never.
A session, a call or a stream that ended may stand for a later one; request ids are random in the
code, so an id is taken again only when nothing of its earlier use is left (`Fresh`).
At most one worker thread writes to a node at a time. Every kind of request is one of
three by what it does to the status afterwards: nothing, `summary`, `decommission`.

### DomainSync

State. `domain` is the row of `lb_domains` with its candidates: enabled, scheduled or manual, the pin (`preferred_server_id`),
the stored address (`current_ip`), whether the last synchronisation went well. `dns` is what Cloudflare has of the managed records
of its name, by address, `fails` the monitor's counters, `library` and `host` the servers and their addresses, `call` what each thread
is about to synchronise, `run` how far the thread has come that holds `sync_lock`: what it read, chose and still has to delete.

| Action | Code |
|---|---|
| `Checked`, `SchedulerNotes` | `health.py` 103-148, `scheduler.py` 29-85 |
| `Ask` | the requests to synchronise and to switch, `router.py` 357-378 |
| `EnterGone`, `EnterRefused`, `Enter` | `syncer.py` 51-84: the lock, the row read again, the choice |
| `Listed`, `AllUnhealthy`, `ListFails`, `Create`, `CreateFails`, `Remove`, `RemoveFails`, `Finish` | one call of Cloudflare each, 86-142, and what is stored, 145-218 with `mark_sync_result` |
| `CreateDomain`, `UpdateDomain`, `ReplaceCandidates`, `AddCandidates`, `RemoveCandidates`, `DeleteDomain` | `lb/store.py` under the lock of `router.py`; only the creation takes none |
| `StartWipe`, `Found`, `Wipe`, `WipeFails`, `Wiped` | the deletion with its records, `router.py` 324-351 |
| `EditServer`, `DeleteServers` | `probe/store.py` 665-751, under the same lock |
| `Restart` | threads, lock and counters are gone; the call under way may have been carried out |

A step is what the holder of the lock does between two calls of Cloudflare, or one transaction. A call that fails may have been
carried out (its answer was lost, or late), but has no effect after it failed; nobody else touches records that carry the mark.
Two servers may have one address, since an entry of the library is an address with a port. Ranking by observations
(`selection.py` 84-119) is open: any healthy candidate may be the best one, unless a healthy one is pinned. A scheduled
domain may be due at any time. The ids of domains are not used again (`AUTOINCREMENT`), which is what keeps a waiting
request from the domain that was created under the same name since. `torn` is history: a deletion failed, or the
Console restarted, in the middle, and no synchronisation went well since.

### The pages

All page modules extend `Page` and share its variables. `page` is the state of the mounted
components as a record (`useState`, `useRef`, the address), `wire` the requests that were sent and are not
answered, `world` what the servers hold, `deeds` counts what the user did. `focus`
names the page a behaviour is about: the router mounts one at a time, and nothing a page does
changes another one's components, so `ConsolePages` chooses the page at the start. What a page leaves behind for
its own next visit (session storage, history, an answer still on its way) is part of its state, and leaving and
coming back are actions of it. Parts that are on the screen together and share state are in one module
(context and instance list; ticks, snapshot and bulk job).

An action is one of three things, each with everything the code does before it waits again:
- a deed of the user, with the guard of the control (`disabled`, a dialog that covers the page, a step of the form),
  the state it sets, the effects of the render that follows and the requests they send;
- an answer, or its loss, handled by the continuation after `await`, with its tests for `cancelled`, a generation
  number, an owner object or an aborted controller;
- a timer, or a step of the servers. A request that changes something is taken (`Of(kind)` with `done` or
  an entry in `world`) apart from its answer, so that an answer can be lost or come late. A read takes its value
  when it is served, before its answer comes, where an old value is the hazard (the summaries of `Workspace`, views, jobs and
  snapshots, records of `Discovery`, tasks, test nodes); elsewhere a request knows what it is about and the answer brings what is there when it comes.

The effects of React run after every render. Where two effects can follow one change, an operator (`Renders`, `RendersDetail`,
`Resettled`, `EditorBecomes`, `Inspects`, `Follow`) gives the outcome after all of them: effects of one
commit run without anything between them.

| Module | Code | What is abstracted |
|---|---|---|
| `ProxyToml` | `lib/proxyToml.ts` | a line is a kind and a value; quoting and blanks are left out, what a field, a comment or a foreign table becomes when a document is rewritten is not |
| `ConfigEditor` | `pages/ConfigEditor.tsx`, `components/ProxyList.tsx` | documents typed are from `Docs`; the server's judgement is `Illegal` |
| `Workspace` | `context/ConsoleContext.tsx`, `pages/Overview.tsx` | an instance is its node, its line, whether it runs and whether it is enabled; the number of lines whose summaries are read is `SummaryRows` (25 in `Overview.tsx` 160, 166); the state of error, the filters by keyword, switch and proxy type |
| `InstancePage` | `pages/Detail.tsx` | contents are the instance they are about |
| `CreateInstance` | `pages/CreateInstance.tsx` | names are numbers, texts from `Addresses` and `Pasted` |
| `ServerLibrary` | `probe/useServers.ts`, the servers tab | a filter stands for groups, labels, tags and state; rows are the query and place they were read for |
| `SavedViews` | views, filters and tag cloud of `pages/Probe.tsx`, `serverViews.ts` | a view is a name and a draft of filters |
| `ServerImport`, `ServerBulk` | `useServerImport.ts`, `useServerBulk.ts` and their panels | a job is created, ends or fails in part; rows are counted |
| `Discovery` | `useDiscovery.ts`, the discovery tab | a record is a number; one record a page |
| `JobsPanel` | `probe/ProbeJobsPanel.tsx` | a filter is one flag; a page has one task |
| `TestCreate` | `pages/TestCreatePage.tsx` | targets typed by hand are present, absent or wrong |
| `TestNodes` | `pages/TestNodesPage.tsx`, `probe/TestNodesDialog.tsx` | the history of failovers, the creation of a node |
| `LbPage` | `pages/LbPage.tsx`, `lib/lbDomainView.ts` | one of three filters; contents of records; the candidates are a dialog that covers the page |
| `Candidates` | `pages/DomainCandidatesDialog.tsx` | a page holds one server; group, measurements, number of matches |

There is no type invariant for the pages: their state is a record per page, and a wrong field shows
at once as an evaluation error of TLC.

## 3. Runs

| Run | Instance and bounds | Properties |
|---|---|---|
| `failover` | one connectivity job over a chain of three; B may lose the generation protocol; skip of the job; four grants, one more than the retry limit | `TypeOK`, `FailoverMonotone`, `GrantsFenced`, `ProjectionFresh`, `NeverReturns`, `ResultsFenced` |
| `retry` | full pipeline over a chain of two, a speed job of the same node and host, retries of single rows, stop of the speed stage; three grants, two rows per stage | `TunnelExclusive`, `SpeedAlone`, `SpeedGated`, `ResultEndsAttempt`, `PipelineComplete` |
| `scan` | two chunks, a hit in the first; stop of the job, retry of rows; three grants, one progress message per attempt | `JobStateAgrees`, `PipelineComplete`, `DoneIsFinal` |
| `selection` | two targets against a backlog of one, three nodes, deletion of a backup, stop of the stage, stop and resume of the job; two grants | `PipelineComplete` |
| `liveness` | full pipeline, chain of two, one silence beyond the start, stop of the job | `JobsEnd`, `CancellationEnds` |
| `wedge` | the pipeline of `retry` without the speed job; four grants | `FailoverCommits`, violated |
| `hub` | one node, two sessions, a summary, a deletion, one log stream with a queue of one | `TypeOK`, `NoOrphans`, `RegistryKept`, `CallsEnd` |
| `ghost_online` | as `hub` | `OfflineWhenGone`, violated |
| `lost_marker` | as `hub` | `EndReachesReader`, violated |
| `sync` | two servers, two addresses, one request beside the scheduler; one failed check makes an address unhealthy, the domain is created once; fair | `TypeOK`, `PinIsCandidate`, `RowHeld`, `SavedIsPublished`, `NeverDangling`, `PinPublished`, `Converges` |
| `console` | each of the fourteen pages, with the bounds below | `AnswersBelong`, `SubmittedOnce`, `SavedWasValidated`, `MarksAreInFlight`, `LinesAreRead`, `ChoiceIsKept`, `CreatedIsNotHeld`, `OwnChangesStay`, `TagsNotContradictory`, `ForeignKept`, `DraftsKept`, `TicksKept` |
| `retry_foreign` | the bulk panel alone, six deeds | `RetryKeepsKey`, violated |

Why the bounds suffice. A chain of three is the smallest in which a row can be
transferred twice and in which a middle owner can come and go. Two rows of a stage (`Copies`)
are what a retry at a recovered primary leads to. Four grants (`failover`) let an attempt be granted,
lost, granted elsewhere, lost, and granted again, with every earlier message still
in flight. A second chunk, target or host is the smallest remainder. `AttemptLimit` is 3 in
`failover`, as in the code, and 2 elsewhere, so that the limit is crossed within the grants.
In `liveness` the bound on grants (9) is never reached: it is the attempt limit of the
code that ends the retries. Node names are model values; symmetry is not used, since
nodes differ in their place in the chain.

In `hub`, two sessions of one node are a connection and its successor, and each may stand for
any number of later ones; nodes do not share anything, so one is enough. A queue of one is full
after one line, as the code's is after 1000. The three runs of the hub do not check for deadlock:
the only node may be deleted, and then its agent is refused and nothing remains to be done.

In `sync`, two addresses are a target and an old record, and a record may be there before the domain is, so up to two are
deleted by a synchronisation of an empty pool. One request at a time with the scheduler are two threads that wait for the
lock; a request that ended may stand for a later one. In the code two
failed checks in a row make an address unhealthy; with one it turns sooner and in more states. That a domain is created once keeps the
check of liveness small: a call that outlives the domain and meets another one of the same name is left to the proofs, which hold for
any `MaxDomains` and `FailThreshold`.

In `console`, a page is bounded by the deeds of its user and of others who change what the servers hold (three to eight together) and its requests in flight
(one to three); timers and answers are not counted, so they come as often as they like (`DeedsOf` and `WireOf`
of `MCConsole`). Each bound is the least that lets the page's hazards happen, and one more where that is affordable:
the mutants of its properties need two to five deeds, the form of a new instance eight, because it has three steps before its
submission. Three instances with the summaries of two are the least for a window to move and keep a line;
two documents, nodes, domains, jobs or groups are what a page can be confused between, and three
test nodes are the least with an order to lose. Two documents, one with a line the forms do not know, two jobs, keys and
snapshots are one original and one repetition. Jobs and groups of tests are interchangeable and appear in no
ordered constant, so TLC may permute them (`Alike`); everything else has a place in an order or a document. Deadlock is not
checked: a user whose deeds are spent, with no answer on the way, is the end of a behaviour of these instances.

No run of the scheduler refuses deadlock checking: `Poll` can always be taken, except where a
sweep cannot commit, which is what `wedge` is about, and there `Stop` or the clock go on.

What the properties say, and what the code does for them:
- `TunnelExclusive`, `SpeedAlone`: the locks of `claim` (745-750) look at running rows and at
  rows being cancelled, over all jobs, and no transfer, retry or expiry makes a row active.
- `FailoverMonotone`, `NeverReturns`: `_next_backup` starts behind the present owner.
- `GrantsFenced`, `ResultsFenced`, `ResultEndsAttempt`: a report must name node, attempt and
  generation of the row (792-796), and every path that takes the row away
  changes its state or attempt.
- `SpeedGated`: the skipped dependency is revived only by a passed test, and retried only
  behind one.
- `PipelineComplete`: a job that says done and was left alone did every chunk, target and stage.
- `JobStateAgrees`: the stored state is never stale, whichever operation ran last.
- `DoneIsFinal`: no stop, retry, expiry or transfer takes a passed row back.
- `ProjectionFresh`: the projection stays inside the history and is not behind it.
- `NoOrphans`: a call and a stream wait only on the connection that serves their node, where
  `fail_all` finds them; the entry that a failed `open_stream` leaves behind goes with its connection.
- `RegistryKept`: `unregister` compares the connection before it removes it (`hub.py` 194).

- `PinIsCandidate`: every operation that takes a candidate or a server takes the pin with it (`lb/store.py` 381-387, the foreign keys).
- `RowHeld`: whatever could change what a synchronisation decided on takes its lock, servers included (`probe/store.py` 712, 726, 750).
- `SavedIsPublished`, `NeverDangling`: a row that says ok names the one record there is; old records are deleted only behind the new one.
- `PinPublished`: a switch pins its server, a fallback drops the pin, and neither overwrites a pin of somebody else.
- `Converges`: failures leave nothing a later synchronisation of the schedule does not repair.

- `AnswersBelong`: of the instance page, the import panel, the library, the task list, the domains page and the candidates: what
  is shown was asked for what the page shows now, over changes of the address, filters and visits, and what is offered to be
  frozen is the number that was counted for the filter on the screen.
- `SubmittedOnce`: imports, changes of ticked servers and tests of a selection carry a key that outlives a lost
  answer and, in the session storage, the visit.
- `SavedWasValidated`: the editor saves a text only on the verdict of that very text.
- `MarksAreInFlight`: the mark of an instance never stays when nothing is on its way that would take it (`PendingIsInFlight`, one
  direction); the marks of a domain's sync and of changes to its candidates are there if and only if their requests, or the reads
  behind them, are on the way, and a removal of a candidate runs alone. The converse for instances is false of the code: see below.
- `LinesAreRead` (`SystemsFitNodes`, `SummariesComing`): once nothing is on its way, the systems shown are those of the nodes
  shown, and each of the first `SummaryRows` visible instances (25 in the code) has its summary or somebody who will bring it. It says
  nothing of the lines behind them, for which the code reads nothing.
- `ChoiceIsKept` (`NodeIsExplained`, `ChosenIsTested`): the node of a new instance and the servers of a test are what was chosen,
  although nodes are read again and targets are frozen under the form.
- `CreatedIsNotHeld`: the guard of the form of a new instance.
- `OwnChangesStay`, `DraftsKept`, `TicksKept`, `ForeignKept`: what the user made is not taken back by what was read before,
  by an answer about something else, or by a rewriting of the document; what was ticked is what is tested.
- `TagsNotContradictory`: no sequence of clicks and views, from a page opened without filters, asks for servers with and without the
  same tag. An address is taken as it is: `parseQuery` (`useServers.ts` 33-37) checks nothing, so one that was typed, or a view saved from
  it, may require and exclude a tag; neither is modelled (`ViewsAssumption`).

Liveness. The store moves only when a node calls, so fairness is asked of Console's
heartbeat (`worker.py`: every ten seconds, a thread of the same process, failures are
caught and repeated), of the claims of nodes that are online (the loop of `run`), and of
each attempt: it is reported, or its lease runs out; which of them is not
promised. No worker has to come back: `JobsEnd` rests on Console, the last of
every chain. Nodes go silent once after the start (`MaxFaults`): a node that flaps for
ever can take a row and lose it for ever, since transfers and waiting are not counted
as attempts (582), so without that bound the property is false of the code.

`CallsEnd` of the hub rests on the event loop alone: a send ends one way or the other (the server
pings every connection and closes the ones that do not answer), a timer that is due fires and a
coroutine that was woken runs. No agent has to answer.

`Converges` rests on the scheduler's loop (every 30 seconds, exceptions caught), on threads getting a lock that is free, and on every call
of Cloudflare ending within its timeout of 15 seconds, well or not. That calls stop failing, and that nobody touches the
domain, its servers or their health, is the premise (`Calm`), from some time on; no fairness makes it come true.

### A disagreement: wedge

`_transfer_task` moves a row with a plain `UPDATE` of its node (454). The unique index
allows one row per job, node, stage and host. A route row that is retried at the
recovered primary, while the connectivity row of the first pass was already moved to
Console, schedules a second connectivity row at the primary. When the primary goes
silent again that row is to be moved to Console as well: the update raises, and as
the sweep is the first thing every worker call does, every heartbeat, claim and report of
every node is rolled back from then on. `docs/aegis/plans/2026-10-23-server-library-scale.md:35` promises that
pending rows of an offline owner go to the first suitable backup. The run `wedge` finds it
in ten steps; in the other runs such calls are disabled actions.

### Two disagreements in the hub: ghost_online, lost_marker

`ping_node` runs in a worker thread: it asks the hub (`control/router.py` 322) and writes `online`
(324). When the session ends between the two, its offline mark (`ws_router.py` 113) is overwritten.
`ws_router.py:9` says that a disconnected node is marked offline, and `router.py:320` that a
node is online only while its agent is connected; the node list returns the
stored status of a node without a session (`router.py` 46). A rename has the same window, as
`update_node` writes back the status it read. The run `ghost_online` finds it in five steps.

`fail_all` and `handle_stream` drop the end marker when the queue is full (`hub.py` 135-138, 155-158)
and forget the stream. The reader drains its queue and waits for ever. `hub.py:90`
says that the queue receives None at the end, and `hub.py:147` that a disconnection wakes every
request and stream. The run `lost_marker` finds it in six steps.

### A disagreement in the bulk panel: retry_foreign

The panel says of a bulk change whose submission is unconfirmed that a retry reuses the original idempotency key
(`pages/Probe.tsx:839`). For the change of a frozen snapshot, `retryPending` (`useServerBulk.ts` 118-131) takes the snapshot
that is shown now, and reuses the pending request only if that is still the same one (92-93). A second freeze replaces
it (77-78), and so does a late poll of an earlier snapshot (45-46). The run `retry_foreign` freezes, deletes, loses the answer, freezes
again and retries: the deletion goes to the other snapshot under a new key. For ticked servers the retry is right (`SubmittedOnce`).

Met while reading, without a run:
- operations on one instance may overlap (`Overview.tsx` 511-557: the switch is held back only by itself, the deletion by nothing) and share
  one mark, which the `finally` of the first to end deletes while the other still runs (`ConsoleContext.tsx` 200, 220, 236): an
  instance without a mark may still be operated on, and its controls are free. No text of the repository says otherwise;
- the list of instances reads configuration summaries for its first 25 lines only (`Overview.tsx` 160, 166): an instance behind them shows none
  until it moves up, and is not found by its server address, ports or proxy types (130-133, 154-155: the filters look at the summaries that were read);
- `scheduler.py:7-8` and `health.py:3` promise that the record of every enabled domain always points to the best healthy address,
  whatever its mode. The scheduler compares the best address with the *stored* one (72). A switch that failed or died between its
  calls leaves the stored address as it was (`syncer.py` 216) and the records changed; if the best address is the stored one, a domain
  in manual mode stays like that until somebody asks, and so does one whose deletion failed after its records were gone
  (`router.py` 345). A scheduled domain is repaired at its next interval, which is why `Converges` is about those;
- a domain deleted between the scheduler's list and its turn raises `KeyError` and ends the round for the domains behind it
  (`scheduler.py` 77-78), and one disabled in that time is synchronised once more;
- `TestCreatePage.tsx` sends targets typed by hand without an idempotency key (192): after a lost answer they are tested twice;
- the answer of a creation navigates to the new job or instance although the user went elsewhere meanwhile
  (`TestCreatePage.tsx` 196, `CreateInstance.tsx` 228);
- the details and logs of an instance are not cancelled when another one is shown (`Detail.tsx` 113, 145), nor is the default
  document of the editor (`ConfigEditor.tsx` 97): a late answer shows under another name;
- a saved or deleted domain closes whichever dialog is open when its answer comes (`LbPage.tsx` 227, 243);
- a read of the next library page is offered by the last answer, also after another filter's read has failed: its place is
  rejected by the server (`DomainCandidatesDialog.tsx` 125, `probe/store.py` 1801);
- the candidates read after an addition or a switch are not compared with the page that is shown by then
  (`DomainCandidatesDialog.tsx` 158-160, 200-202): the rows of another page can stand under its number until the next timer;
- the ticks of servers deleted by a bulk job stay until they are taken (`useServers.ts` 199, `Probe.tsx` 468);
- a retry of a route row at a recovered primary leaves two rows of the later stages, although
  `docs/aegis/baseline/2026-10-21-probe-workers.md:29` says that a retry keeps what succeeded;
- a speed row that was transferred is not retried when the connectivity test passed at
  the earlier owner: the gate (909) looks at the same node, and the request is ignored silently;
- attempts can exceed three through waiting and transfers, which reset the state without
  counting.

## 4. Proofs

Every property of a passing run is proved for all values of the constants, but for five: `ForeignKept` and the four of
liveness (`CallsEnd`, `JobsEnd`, `CancellationEnds`, `Converges`).

### Assumptions

TLC evaluates each of them in every run of the part.

| Assumption | What it says | Why |
|---|---|---|
| `ConstantsAssumption` (scheduler) | finitely many nodes, Console among them; a positive attempt limit; well-formed requests, policies and profiles; room for the initial rows of a job; `NoNode` is neither a node nor an attempt | types of the code |
| | a job without managed execution names its owners | an empty selection of nodes is rejected, `jobs.py` 492-493 |
| | a frozen selection is tested by one test stage or the full pipeline | `selection_jobs.py` 26-27 |
| `HubAssumption` | each session, request and stream has a node; `NoSession` is none | |
| `SyncAssumption` | the threshold is positive; the scheduler is none of the requests; `NoOne` is no server, address, thread or call | |
| `RowsAssumption` | lists of instances have a fixed order (nodes by id, then names: `main.py` 173, `node_store.py` 61, `instance_store.py` 73); at least one summary is read | |
| `OperationsAssumption`, `DomainsAssumption`, `MachinesAssumption`, `ImportAssumption`, `LibraryAssumption` | `NoOne`, the model's `null`, is not one of the values it stands beside; the address without filters is one of the questions | |
| `ViewsAssumption` | stored views have the fields of a view, and no tag of theirs is required and excluded | earlier views were saved by this page (`serverViews.ts` 13-22) from filters that were clicked, not typed into the address; the server checks shapes only (`saved_views.py` 58-105) |
| `FoundAssumption`, `StatesAssumption`, `DefaultModeAssumption` | a bound is a number, a filter and a mode are among those there are | |

Two of these were found by proving: the code's checks that the second and third lines state were missing, and without them a job
could be created that has no row and is never done. Proving also found `CASE`s of the models whose guards overlapped (`DerivedState`, `ProxyPanel`, `ScopeOf`
and `ResolvesFrom`): TLC takes the first, a `CASE` means any of them; the code tests them in order, and so do the `IF`s there are now.

### The scheduler

`ProbeSchedulerProofs` proves `Spec => []IInv`, where

    IInv == TypeOK /\ Sound(task) /\ \A j \in Jobs : ProducerSound(j, producer[j])

`FailoverMonotone` is not inductive alone. A new job freezes a new chain, so its rows must be
known to be absent before (`RowHasJob`, a part of `Sound`), and a producer hands its generation
and owner to the rows it inserts, so it must respect the chain itself and belong to a managed
job (`ProducerSound`); a row never inserted was never claimed (`RowUnclaimed`), or a grant of it
could carry an id twice. Types alone need the rest too: that `NextBackup`, a `CHOOSE`, names a
node at all is the existence of a minimum in a finite set (`MinExists`, by well-foundedness).

Every operation rewrites the table in one or two stages, the sweep and then its own rows.
Two notions carry the argument through both:
- `Sound(tk)`: each row respects its job's chain and has a job;
- `Follows(tk, uk)`: uk comes from tk without starting an attempt, without changing the owner,
  attempt or generation of an active row, and without moving a managed row up its chain.

Each row operator (`LeaseLost`, `FailOver`, `SweptRow`, `Touched`, `NewRow`, `Finished`,
`Cancelled`, `Retried`) has a lemma that it does both, `FollowsTransitive` joins the stages, and
there is one lemma per action. `StepSound` then says what a step may do (`Moves`): it follows, or it starts
one pending row that is not blocked, at its owner, and records the grant.

From these come `FailoverIsMonotone` (from `IInv`); `RowsNeverReturn` (from `Moves`);
`LocksAndFences`, an invariant relative to `IInv`, of which `TunnelIsExclusive`,
`SpeedIsAlone` and `AttemptsAreFenced` are the parts: a following step leaves fewer active rows
in their places, and a start adds one row that conflicts with none.

The second part of `ProbeSchedulerProofs` proves `Spec => ResultsFenced`: initial states map to initial states, and
each step is classified by what it does to the holder of each row. `FencedTasksProofs`
proves `AbsSpec => []OneResultPerAttempt`, from the invariant that an accepted or holding attempt was
issued and that the holder has no result; `AttemptsHaveOneResult` brings it back to the scheduler.

`OutcomeProofs` is about what the rows come to. One more relation, `Settles(tk, uk)`, covers every stage of every operation that
neither starts nor finishes a row: what is done stays, an attempt is kept or dropped, nothing appears and vanishes, and a
speed test of a full job that was waiting opens only where a connectivity test is done. `StepAdvances`: each step settles, begins
one row, finishes one row with its result, or clears history. Each invariant needs a strengthening, and four cases:

| Theorem | Inductive with `IInv` | Why it is needed |
|---|---|---|
| `DoneNeverTakenBack` | nothing more | it reads off `StepAdvances` |
| `ResultsEndAttempts`, `ProjectionIsFresh` | `ResultsInv`: no result has an attempt above the claims of its row; an ended row that still holds an attempt has its result; a projection is a result, the latest of its row | a result may come in long after its row was started again, and must then be an older one's |
| `SpeedIsGated` | `GatesSound`: the gate of a speed row is open in *every* state that does not wait for it | a retried, stopped or transferred row would be started later without a look at the gate |
| `JobStatesAgree` | `JobsAgree`: the stored state is the derived one, or stopped, and then nothing of the job is pending or running | every operation refreshes only the jobs it names |
| `PipelinesComplete` | `PipelineInv`: what is done has handed on to an open row (`HandedOn`), and a created job has a row for all its producer streamed so far (`AllStarted`), also while it runs | the property itself looks only at jobs that are done |

### The hub

`AgentHubProofs` proves `Spec => []HubInv`, where

    HubInv == TypeOK /\ RegistryLive /\ HasSession /\ NoOrphans

`NoOrphans` needs `RegistryLive`: a call registers itself on what the registry names, which must be
a session of its own node, and a session that greets must not be registered yet, or its waiters
would not be the predecessor's. `HasSession` says that whoever waits has a session at all. One lemma
per part and actor; `FailAllEffect` says what waking everybody changes. `HubTypeCorrect`, `NobodyIsOrphaned` and
`SuccessorStaysRegistered` (from `RegistrySteps`) are the results.

### Load balancing

`DomainSyncProofs` proves `Spec => []IInv`, where

    IInv == TypeOK /\ PinIsCandidate /\ RowHeld /\ TargetChosen /\ RecordsKnown /\ SavedIsPublished

`SavedIsPublished` is decided when a result is stored, many steps after the records were listed, so the invariant must say what is known of
the records in between: until a call fails they are the target and what is still to be deleted, and whatever failed, nothing is left to be
deleted unless the target is there (`RecordsKnown`); `NeverDangles` reads the second half off. `TargetChosen` says that the target is the
address of the chosen server, the requested one if one was, and missing only for a domain without candidates, so that the pin which is stored fits
the address (`FinishFacts`, `PinsArePublished`). All of it would be worth nothing without `RowHeld`, which the lock gives: `BesideTheRun` is the
lemma for steps of others, and each of them either finds the lock free or leaves the row and its servers alone. The creation of a domain takes no lock;
it needs a name that is free, and a synchronisation holds one that is not.

### The pages

A behaviour of the Console is about one page: `FocusStays` (no step changes the focus) and `StartOfPage` make an invariant of
a page one of `ConsoleSpec` where that page is shown, so each part below proves its page and lifts it. A page's state is a record, so
each invariant starts with the fields the argument reads being there: an `EXCEPT` then changes its own field and no other.

`FormProofs`, about the specifications of the editor and the form (`FormsOfTheConsole` in `IntentProofs` lifts all three, and `ChoiceIsActedOn` joins the node with `TestsWhatIsChosen`):
- `EditorSavesValidated` is inductive with `SoundDraft`: a clean verdict is kept with the text it is about, and a save is allowed
  only while that text is the draft.
- `CreatedFormLeaves`: the guard asks only while nothing is submitted, so it needs `OneSubmission` (a request on
  its way means a form that submits, and there is one at most) and `DoneIsLeft`. `CreateNodeExplained`: every render settles the
  node again (`Resettled`).

`ConsoleProofs`:

| Invariant | Its point | Theorems |
|---|---|---|
| `WorkInv` | what is read about systems is read about the nodes of now, and fits when nothing is read; the first visible lines are cached or being summarised, whatever the window; a mark has an operation or a summary that takes it | `LinesFollowTheirList`, `MarksTellWhatRuns` |
| `LbInv`, `SyncInv` | a request the dialog still hears was asked for the domain inspected now; each syncing domain is freed by exactly one request | `LbRecordsBelong`, `MarksTellWhatRuns` |
| `CandInv` | the rows answer the question, are being read or failed; one request stands behind each mark, and marks exclude each other | `MarksTellWhatRuns`, `AnswersToTheQuestion` |
| `PanelInv`, `ProxiesInv` | a reading of the job panel that counts is of its filter and place; proxies kept or read are of the instance shown | `AnswersToTheQuestion` |
| `ImportInv` | there *is* a book from keys to confirmations that all submissions, pending or stored, of all visits, agree with; the rows loaded continue those shown | `ImportsOnce`, `AnswersToTheQuestion` |
| `LibraryInv` | a visible list is being read, has failed, or shows its query, and what is read is its query | `FreezeCountsItsFilter`, `AnswersToTheQuestion` |

The book of `ImportInv` is an existential in the invariant: the key of a confirmation is chosen when it is first
submitted, and lives in the storage, a request or a job afterwards, never in one place.

`IntentProofs`:

| Invariant | Its point | Theorems |
|---|---|---|
| `BulkInv` | a confirmation is a selection that is still to be made, or has one key, in whatever is pending, sent or done; a key has one job | `SubmittedAtMostOnce` |
| `TestInv` | a test that was sent or made for the choice of now is of the selection and mode in the address, under the key the session holds; a choice has one test; what the page waits for is the selection of the address | `TestsWhatIsChosen`, `SubmittedAtMostOnce` |
| `ViewsInv` | a list that would be shown was read after the last confirmed change; filters that are drafted, listed, stored or on their way require no tag they exclude | `OwnChangesShown`, `FiltersNotContradictory`, `EditsAreKept` |
| `NodesInv` | at most one request overwrites the order of nodes, and only while it is being saved | `EditsAreKept` |
| `FoundInv` | what is ticked was found and has a target; an import or deletion that is done, but not answered, left none of its records to import | `TicksStay` (with `TicksAreTested`) |
| `SentInv` | while servers are added to a domain, what is ticked was sent or is a member | `TicksStay` |

An action property follows from the invariant of the state before, action by action (`DraftsKept`, `TicksKept`).

### Only model-checked

- `ForeignKept`: which lines of a document survive is a statement about `SelectSeq` and folds over lines, and needs
  induction over the document.
- `CallsEnd`, `JobsEnd`, `CancellationEnds`, `Converges`: liveness under fairness.
- The four violations.

Out of the prover's reach here: liveness, `ENABLED`, and induction over data.

## 5. Not modelled, and what is left

- The worker's threads and clock: an attempt that loses its lease stops before the row is granted again (90 s against
  120 s), and the renewal of entries that began after the heartbeat's snapshot (`worker.py` 33-51). `ResultsFenced` says what this
  can do to the store, nothing says what two workers do to a host.
- Of the load balancer: the ranking of candidates by observations, several domains in one round, the token, records without the mark.
- The bulk worker behind its requests: lease takeover, fenced chunks, retention of producers.
- Of the scheduler: port slots, the budget and cursor of the sweep, enrolment of nodes.
- The agent's own side: `client.py`, the rollback of a failed update in `agent/service.py`.
- Interval arithmetic of scans, maintenance of GeoIP databases: sequential code on data, with tests of their own.
- Of the frontend: login and expiry of a session, the pages of nodes, results, audit, settings and system, facets, dialogs of tags, groups and single servers, scrolling, formatting, toasts; the
  console-wide parts of the context (console information, audit refresh). The list of failovers and the creation of nodes in `TestNodes`.
- Liveness of the pages: every reading is repeated by a timer or by the user, and a server that does not answer leaves
  a page waiting, so there is nothing the code promises beyond `MarksAreInFlight` and `LinesAreRead`.
- Scripts, configuration, SQL, the network probing itself: no concurrent state of their own.

Theorems worth adding: the safety half of `ForeignKept` for one edit of one line, which needs no induction, and the
fencing of the tables that are not modelled yet.
