--------------------------- MODULE ProbeScheduler ---------------------------
(***************************************************************************)
(* The durable probe scheduler: ProbeJobStore in                           *)
(* src/webui/backend/app/probe/jobs.py, with the selection producers of    *)
(* selection_jobs.py.  Every operation of the store is one BEGIN IMMEDIATE *)
(* transaction on SQLite, so every operation is one action here; an        *)
(* operation whose transaction raises is rolled back and changes nothing,  *)
(* so it is a disabled action.                                             *)
(*                                                                         *)
(* Time.  A row's lease_until and a node's last_seen are compared with     *)
(* time.time() only.  The model keeps the result of the comparison:        *)
(* `leased' is the set of rows whose lease is still ahead, node[n].online  *)
(* says that n was heard from within 30 seconds.  LeaseRunsOut and         *)
(* GoSilent are the passage of time; they may happen at any moment.        *)
(*                                                                         *)
(* Variables                                                               *)
(*   node      probe_nodes: existence, last_seen, protocol_features,       *)
(*             capabilities                                                *)
(*   policy    probe_settings['probe_execution_policy']: primary first,    *)
(*             then the requested backups                                  *)
(*   jobState  probe_jobs.state ("absent" before the job is created)       *)
(*   rank      probe_jobs.execution_policy, the owner chain frozen at      *)
(*             creation: 1 for the primary, 2.. for the backups in order,  *)
(*             0 for a node outside the chain (and for unmanaged jobs)     *)
(*   task      probe_tasks                                                 *)
(*   leased    rows with lease_until > now                                 *)
(*   producer  probe_job_producers                                         *)
(*   results   probe_results                                               *)
(*   current   probe_current_results                                       *)
(*   grants    history: every answer claim ever gave; any of them may      *)
(*             reach the store again, late or repeated                     *)
(***************************************************************************)
EXTENDS Naturals, Sequences, FiniteSets

CONSTANTS
  Nodes,        \* probe node ids
  Console,      \* the built-in node, always the last backup
  Ips,          \* target hosts (the port is fixed)
  Jobs,         \* job ids
  JobSpec,      \* what the creator of each job asked for, see JobSpecs
  Policies,     \* policies an operator may save: sequences of distinct workers
  InitialPolicy,\* the policy saved when the deployment was set up
  Profiles,     \* heartbeat contents a node may send: [gen, caps]
  Actions,      \* what an operator may do, e.g. <<"retry", "row">>: see Scopes
  Deletable,    \* nodes an operator may delete
  StopStages,   \* stages an operator may stop across jobs
  ClearKinds,   \* kinds whose history an operator may clear
  AttemptLimit, \* infrastructure retries stop at this many attempts (3)
  BacklogLimit, \* live rows at which a producer waits (500)
  Chunks,       \* scan chunks of a discovery job
  HitChunk,     \* the chunk in which an address is found
  MaxGrants,    \* bound: claims answered in all
  MaxSeq,       \* bound: progress messages of one attempt
  Copies,       \* bound: rows inserted for one job, stage and target
  NoNode, NoResult

NoClaimYet == 0    \* attempt_id IS NULL

Stages     == {"discover", "route", "connectivity", "speed"}
TestStages == Stages \ {"discover"}
Tunnel     == {"connectivity", "speed"}
Terminal   == {"done", "failed", "skipped", "stopped"}
Active     == {"running", "cancelling"}
Live       == Active \cup {"pending"}
Workers    == Nodes \ {Console}

(***************************************************************************)
(* The request behind a job.  `owners' are the explicit nodes of a low     *)
(* level job; a managed job takes the saved primary instead.  `frozen'     *)
(* says that the targets are a server selection streamed by a producer.    *)
(***************************************************************************)
Modes == Stages \cup {"full", "discover+route", "discover+full"}

JobSpecs ==
  [ mode    : Modes,
    managed : BOOLEAN,
    frozen  : BOOLEAN,
    owners  : Seq(Nodes),
    targets : Seq(Ips),
    conc    : 1..16 ]

ASSUME ConstantsAssumption ==
  /\ IsFiniteSet(Nodes) /\ Console \in Nodes /\ NoNode \notin Nodes
  /\ NoNode \notin [attempt : Nat, node : Nodes, gen : Nat]
  /\ JobSpec \in [Jobs -> JobSpecs]
  /\ \A j \in Jobs : Len(JobSpec[j].owners) <= Copies /\ (JobSpec[j].managed => Copies >= 1)
  /\ \A j \in Jobs : ~JobSpec[j].managed => JobSpec[j].owners # <<>>
  /\ \A j \in Jobs : JobSpec[j].frozen => JobSpec[j].mode \in TestStages \cup {"full"}
  /\ AttemptLimit \in Nat \ {0} /\ MaxGrants \in Nat /\ MaxSeq \in Nat
  /\ Chunks \in Nat /\ Copies \in Nat
  /\ Policies \subseteq Seq(Workers) /\ InitialPolicy \in Policies
  /\ Deletable \subseteq Nodes
  /\ Profiles \in [Nodes -> SUBSET [gen : BOOLEAN, caps : SUBSET Stages]]

(***************************************************************************)
(* A row of probe_tasks is named by what the pipeline inserted it for: the *)
(* copy-th row of that job, stage and target.                              *)
(***************************************************************************)
TaskIds ==
  [job : Jobs, stage : TestStages, on : Ips, copy : 1..Copies] \cup
  [job : Jobs, stage : {"discover"}, on : 1..Chunks, copy : 1..Copies]

Errors == {"", "stopped", "skipped", "dependency", "waiting", "fault"}

Rows ==
  [ node     : Nodes,
    state    : Live \cup Terminal \cup {"absent"},
    error    : Errors,
    attempt  : Nat,      \* attempt_id; the k-th claim of a row has id k
    attempts : Nat,      \* the retry counter
    claims   : Nat,      \* history: claims so far, the source of fresh ids
    seq      : Nat,
    gen      : Nat,
    waiting  : BOOLEAN ]

ProducerRows ==
  [ state   : {"none", "queued", "running", "waiting", "done", "stopped"},
    node    : Nodes,
    gen     : Nat,
    cursor  : Nat,       \* targets materialized
    waiting : BOOLEAN ]

Grants  == [task : TaskIds, attempt : Nat, node : Nodes, gen : Nat]
Results == [task : TaskIds, attempt : Nat, node : Nodes, gen : Nat, pass : BOOLEAN]

VARIABLES node, policy, jobState, rank, task, leased, producer, results, current, grants

vars == <<node, policy, jobState, rank, task, leased, producer, results, current, grants>>

TypeOK ==
  /\ node \in [Nodes -> [exists : BOOLEAN, online : BOOLEAN, gen : BOOLEAN, caps : SUBSET Stages]]
  /\ policy \in Seq(Workers)
  /\ jobState \in [Jobs -> {"absent", "running", "done", "failed", "stopped"}]
  /\ rank \in [Jobs -> [Nodes -> Nat]]
  /\ task \in [TaskIds -> Rows]
  /\ leased \subseteq TaskIds
  /\ producer \in [Jobs -> ProducerRows]
  /\ results \subseteq Results
  /\ current \in [Ips \X TestStages -> Results \cup {NoResult}]
  /\ grants \subseteq Grants

NoRow ==
  [ node |-> Console, state |-> "absent", error |-> "", attempt |-> NoClaimYet,
    attempts |-> 0, claims |-> 0, seq |-> 0, gen |-> 0, waiting |-> FALSE ]

NewRow(n, st, g) ==
  [NoRow EXCEPT !.node = n, !.state = st, !.gen = g,
                !.error = IF st = "skipped" THEN "dependency" ELSE ""]

NoProducer == [state |-> "none", node |-> Console, gen |-> 0, cursor |-> 0, waiting |-> FALSE]

LiveProducer(p) == p.state \in {"queued", "running", "waiting"}

Full(j)       == JobSpec[j].mode \in {"full", "discover+full"}
Discovery(j)  == JobSpec[j].mode \in {"discover", "discover+route", "discover+full"}
FirstStage(j) == IF Discovery(j) THEN "discover"
                 ELSE IF JobSpec[j].mode = "full" THEN "route" ELSE JobSpec[j].mode
Targets(j)    == {JobSpec[j].targets[i] : i \in DOMAIN JobSpec[j].targets}

Required(j) ==
  CASE JobSpec[j].mode = "full"           -> TestStages
    [] JobSpec[j].mode = "discover+full"  -> Stages
    [] JobSpec[j].mode = "discover+route" -> {"discover", "route"}
    [] OTHER                              -> {JobSpec[j].mode}

-----------------------------------------------------------------------------
(***************************************************************************)
(* Failover.  Every definition takes the node table as a parameter: a      *)
(* heartbeat sweeps with the table it has just updated.                    *)
(***************************************************************************)

\* A row that left generation 0, or that a backup owns, may only be given to
\* a worker that speaks the generation protocol.
NeedsGeneration(j, n, g) == g > 0 \/ (JobSpec[j].managed /\ rank[j][n] > 1)

Usable(nd, j, n, g) ==
  /\ nd[n].exists /\ nd[n].online
  /\ NeedsGeneration(j, n, g) => nd[n].gen

Eligible(nd, n) ==
  nd[n].exists /\ nd[n].online /\ nd[n].gen /\ nd[n].caps = Stages

\* Sensitivity check of NeverReturns: the search restarts at the head of the chain.
LaterOwnersFromTop(nd, j, n) ==
  {b \in Nodes : rank[j][n] > 0 /\ rank[j][b] > 0 /\ b # n /\ Eligible(nd, b)}

LaterOwners(nd, j, n) ==
  {b \in Nodes : rank[j][n] > 0 /\ rank[j][b] > rank[j][n] /\ Eligible(nd, b)}

NextBackup(nd, j, n) ==
  IF LaterOwners(nd, j, n) = {} THEN NoNode
  ELSE CHOOSE b \in LaterOwners(nd, j, n) :
         \A c \in LaterOwners(nd, j, n) : rank[j][b] <= rank[j][c]

\* Sensitivity check of GrantsFenced: the transfer leaves the attempt running.
TransferKeepingAttempt(r, b) ==
  [r EXCEPT !.node = b, !.gen = @ + 1, !.waiting = FALSE, !.error = ""]

\* Attempts are not reset: only the attempt id, the lease and the progress are.
Transfer(r, b) ==
  [r EXCEPT !.node = b, !.gen = @ + 1, !.waiting = FALSE, !.state = "pending",
            !.attempt = NoClaimYet, !.error = "", !.seq = 0]

Park(r) == [r EXCEPT !.state = "pending", !.error = "waiting", !.waiting = TRUE]

\* Sensitivity check of TypeOK: "no backup" is stored as an owner.
FailOverToNobody(nd, t, r) == Transfer(r, NextBackup(nd, t.job, r.node))

FailOver(nd, t, r) ==
  LET b == NextBackup(nd, t.job, r.node)
  IN  IF b = NoNode THEN Park(r) ELSE Transfer(r, b)

CancelledState(r) == IF r.error \in {"stopped", "skipped"} THEN r.error ELSE "stopped"

\* First half of _expire: an active row whose lease has run out.
LeaseLost(nd, t, r) ==
  CASE r.state = "cancelling" ->
         [r EXCEPT !.state = CancelledState(r), !.error = "fault"]
    [] r.state = "running" /\ JobSpec[t.job].managed /\ ~Usable(nd, t.job, r.node, r.gen) ->
         FailOver(nd, t, r)
    [] OTHER ->
         [r EXCEPT !.state = IF r.attempts < AttemptLimit THEN "pending" ELSE "failed",
                   !.error = "fault"]

\* Sensitivity check of CancellationEnds: rows being cancelled never expire.
ExpiredRowRunning(nd, t) ==
  IF task[t].state = "running" /\ t \notin leased THEN LeaseLost(nd, t, task[t]) ELSE task[t]

ExpiredRow(nd, t) ==
  IF task[t].state \in Active /\ t \notin leased THEN LeaseLost(nd, t, task[t]) ELSE task[t]

\* Sensitivity check of JobsEnd: the owner's return does not clear the wait.
SweptRowStillWaiting(nd, t) ==
  LET r == ExpiredRow(nd, t)
  IN  IF ~(r.state = "pending" /\ JobSpec[t.job].managed /\ jobState[t.job] = "running") THEN r
      ELSE IF ~Usable(nd, t.job, r.node, r.gen) THEN FailOver(nd, t, r)
      ELSE r

\* Second half of _expire: pending rows of running managed jobs, owner by
\* owner.  (The code's budget of 500 rows and its persistent cursor are not
\* reached on small instances: every call sweeps every row.)
SweptRow(nd, t) ==
  LET r == ExpiredRow(nd, t)
  IN  IF ~(r.state = "pending" /\ JobSpec[t.job].managed /\ jobState[t.job] = "running") THEN r
      ELSE IF ~Usable(nd, t.job, r.node, r.gen) THEN FailOver(nd, t, r)
      ELSE IF r.waiting THEN [r EXCEPT !.waiting = FALSE, !.error = ""]
      ELSE r

Swept(nd) == [t \in TaskIds |-> SweptRow(nd, t)]

\* Sensitivity check of PipelineComplete: the new owner starts behind a target
\* that the old one had not materialized.
SweptProducerSkipping(nd, j) ==
  LET p == producer[j]
      b == NextBackup(nd, j, p.node)
  IN  IF ~(LiveProducer(p) /\ jobState[j] = "running" /\ ~Usable(nd, j, p.node, p.gen)) THEN p
      ELSE IF b = NoNode THEN [p EXCEPT !.state = "waiting", !.waiting = TRUE]
      ELSE [p EXCEPT !.node = b, !.gen = @ + 1, !.state = "running", !.waiting = FALSE,
                     !.cursor = IF @ + 1 < Len(JobSpec[j].targets) THEN @ + 1 ELSE @]

SweptProducer(nd, j) ==
  LET p == producer[j]
      b == NextBackup(nd, j, p.node)
  IN  IF ~(LiveProducer(p) /\ jobState[j] = "running") THEN p
      ELSE IF Usable(nd, j, p.node, p.gen)
             THEN IF p.waiting
                    THEN [p EXCEPT !.waiting = FALSE,
                                   !.state = IF p.cursor = 0 THEN "queued" ELSE "running"]
                    ELSE p
      ELSE IF b = NoNode THEN [p EXCEPT !.state = "waiting", !.waiting = TRUE]
      ELSE [p EXCEPT !.node = b, !.gen = @ + 1, !.state = "running", !.waiting = FALSE]

SweptProducers(nd) == [j \in Jobs |-> SweptProducer(nd, j)]

\* idx_probe_task_pipeline: at most one row per job, node, stage and target.
\* An UPDATE that would break it raises and rolls the transaction back.
PipelineUnique(tk) ==
  LET rows == {t \in TaskIds : t.stage # "discover" /\ tk[t].state # "absent"}
  IN  \A t, u \in rows :
        (t # u /\ t.job = u.job /\ t.stage = u.stage /\ t.on = u.on) => tk[t].node # tk[u].node

SweepCommits(nd) == PipelineUnique(Swept(nd))

\* Sensitivity check of JobStateAgrees: rows being cancelled do not count.
DerivedStateIgnoringCancelling(tk, pr, j) ==
  IF LiveProducer(pr[j]) \/ \E t \in TaskIds : t.job = j /\ tk[t].state \in {"pending", "running"}
    THEN "running"
  ELSE IF \E t \in TaskIds : t.job = j /\ tk[t].state = "failed" THEN "failed" ELSE "done"

\* Sensitivity check of JobStateAgrees: a producer with no rows does not count.
DerivedStateIgnoringProducer(tk, pr, j) ==
  IF \E t \in TaskIds : t.job = j /\ tk[t].state \in Live THEN "running"
  ELSE IF \E t \in TaskIds : t.job = j /\ tk[t].state = "failed" THEN "failed" ELSE "done"

DerivedState(tk, pr, j) ==
  IF LiveProducer(pr[j]) \/ \E t \in TaskIds : t.job = j /\ tk[t].state \in Live THEN "running"
  ELSE IF \E t \in TaskIds : t.job = j /\ tk[t].state = "failed" THEN "failed" ELSE "done"

Refresh(js, tk, pr, S) ==
  [j \in Jobs |-> IF j \in S /\ js[j] \notin {"absent", "stopped"}
                    THEN DerivedState(tk, pr, j) ELSE js[j]]

\* _expire refreshes only the jobs in which an expired row became terminal.
EndedJobs(nd) ==
  {t.job : t \in {u \in TaskIds : /\ task[u].state \in Active /\ u \notin leased
                                  /\ ExpiredRow(nd, u).state \in Terminal}}

SweptJobs(nd) == Refresh(jobState, Swept(nd), SweptProducers(nd), EndedJobs(nd))

\* Only active rows hold a lease; every other write stores lease_until = 0 or
\* leaves a row that held none.
StillLeased(tk) == {t \in leased : tk[t].state \in Active}

-----------------------------------------------------------------------------
(***************************************************************************)
(* Inserting a pipeline row (_task): INSERT OR IGNORE under the unique     *)
(* index, then a skipped dependency is revived and an older pending row is *)
(* raised to the generation of the insertion.                              *)
(***************************************************************************)
Key(j, s, o) == [job |-> j, stage |-> s, on |-> o]

RowsOf(k) == {t \in TaskIds : t.job = k.job /\ t.stage = k.stage /\ t.on = k.on}

Present(tk, k, n) ==
  {t \in RowsOf(k) : k.stage # "discover" /\ tk[t].state # "absent" /\ tk[t].node = n}

Unused(tk, k) == {t \in RowsOf(k) : tk[t].state = "absent"}

InsertFits(tk, k, n) == Present(tk, k, n) # {} \/ Unused(tk, k) # {}

\* Sensitivity check of PipelineComplete: INSERT OR IGNORE alone.
TouchedNever(r, st, g) == r

Touched(r, st, g) ==
  CASE st = "pending" /\ r.state = "skipped" /\ r.error = "dependency" ->
         [r EXCEPT !.state = "pending", !.error = "", !.gen = g, !.waiting = FALSE]
    [] st = "pending" /\ r.state = "pending" /\ r.gen < g ->
         [r EXCEPT !.gen = g, !.waiting = FALSE, !.error = IF @ = "waiting" THEN "" ELSE @]
    [] OTHER -> r

Insert(tk, k, n, st, g) ==
  IF Present(tk, k, n) # {}
    THEN [t \in TaskIds |-> IF t \in Present(tk, k, n) THEN Touched(tk[t], st, g) ELSE tk[t]]
    ELSE LET new == CHOOSE t \in Unused(tk, k) : TRUE
         IN  [t \in TaskIds |-> IF t = new THEN NewRow(n, st, g) ELSE tk[t]]

-----------------------------------------------------------------------------
(***************************************************************************)
(* The saved policy and the chain a job freezes from it: the primary, the  *)
(* requested backups, every other full worker, and Console last.           *)
(***************************************************************************)
FullWorker(n) == n \in Workers /\ node[n].exists /\ node[n].caps = Stages

ValidPolicy(p) == p # <<>> /\ \A i \in DOMAIN p : FullWorker(p[i])

Position(p, n) == CHOOSE i \in DOMAIN p : p[i] = n

\* The policy without a node; the nodes of a policy are distinct.
Without(p, n) ==
  IF \E i \in DOMAIN p : p[i] = n
    THEN [i \in 1..(Len(p) - 1) |-> IF i < Position(p, n) THEN p[i] ELSE p[i + 1]]
    ELSE p

\* probe_nodes in the order ORDER BY created_at,id; any fixed order will do.
CreationOrder == CHOOSE f \in [Workers -> 1..Cardinality(Workers)] :
                   \A m, n \in Workers : f[m] = f[n] => m = n

Chain(p) ==
  LET others == {n \in Workers : FullWorker(n) /\ \A i \in DOMAIN p : p[i] # n}
  IN  [n \in Nodes |->
        IF n = Console THEN Len(p) + Cardinality(others) + 1
        ELSE IF n \in others
          THEN Len(p) + Cardinality({m \in others : CreationOrder[m] <= CreationOrder[n]})
        ELSE IF \E i \in DOMAIN p : p[i] = n THEN Position(p, n)
        ELSE 0]

NoChain == [n \in Nodes |-> 0]

Init ==
  /\ node = [n \in Nodes |-> [exists |-> TRUE, online |-> FALSE, gen |-> FALSE, caps |-> Stages]]
  /\ policy = InitialPolicy
  /\ jobState = [j \in Jobs |-> "absent"]
  /\ rank = [j \in Jobs |-> NoChain]
  /\ task = [t \in TaskIds |-> NoRow]
  /\ leased = {}
  /\ producer = [j \in Jobs |-> NoProducer]
  /\ results = {}
  /\ current = [k \in Ips \X TestStages |-> NoResult]
  /\ grants = {}

SetPolicy(p) ==
  /\ ValidPolicy(p)
  /\ policy' = p
  /\ UNCHANGED <<node, jobState, rank, task, leased, producer, results, current, grants>>

-----------------------------------------------------------------------------
(***************************************************************************)
(* Creating jobs.  A low level job inserts one row per target at each of   *)
(* its explicit owners; a managed job has one owner, the saved primary.    *)
(***************************************************************************)
Owners(j) == IF JobSpec[j].managed THEN <<policy[1]>> ELSE JobSpec[j].owners

CanCreate(j) ==
  /\ jobState[j] = "absent"
  /\ JobSpec[j].managed => ValidPolicy(policy)
  /\ \A i \in DOMAIN Owners(j) :
        node[Owners(j)[i]].exists /\ Required(j) \subseteq node[Owners(j)[i]].caps

CreateJob(j) ==
  LET first == IF Discovery(j) THEN {1} ELSE Targets(j)
  IN  /\ ~JobSpec[j].frozen
      /\ CanCreate(j)
      /\ task' = [t \in TaskIds |->
                    IF /\ t.job = j /\ t.stage = FirstStage(j) /\ t.on \in first
                       /\ t.copy \in DOMAIN Owners(j)
                      THEN NewRow(Owners(j)[t.copy], "pending", 0) ELSE task[t]]
      /\ rank' = [rank EXCEPT ![j] = IF JobSpec[j].managed THEN Chain(policy) ELSE NoChain]
      /\ jobState' = Refresh([jobState EXCEPT ![j] = "running"], task', producer, Jobs)
      /\ UNCHANGED <<node, policy, leased, producer, results, current, grants>>

\* create_primary_selection_job: a producer and no rows yet.  Repeating the
\* request with the same idempotency key finds the job and changes nothing.
CreateSelectionJob(j) ==
  /\ JobSpec[j].frozen /\ JobSpec[j].managed
  /\ CanCreate(j)
  /\ producer' = [producer EXCEPT ![j] = [NoProducer EXCEPT !.state = "queued", !.node = policy[1]]]
  /\ rank' = [rank EXCEPT ![j] = Chain(policy)]
  /\ jobState' = [jobState EXCEPT ![j] = "running"]
  /\ UNCHANGED <<node, policy, task, leased, results, current, grants>>

-----------------------------------------------------------------------------
(***************************************************************************)
(* Time and heartbeats.                                                    *)
(***************************************************************************)
LeaseRunsOut(t) ==
  /\ t \in leased
  /\ leased' = leased \ {t}
  /\ UNCHANGED <<node, policy, jobState, rank, task, producer, results, current, grants>>

GoSilent(n) ==
  /\ node[n].online
  /\ node' = [node EXCEPT ![n].online = FALSE]
  /\ UNCHANGED <<policy, jobState, rank, task, leased, producer, results, current, grants>>

\* What every operation that calls _expire commits, with the node table nd.
Sweep(nd) ==
  /\ SweepCommits(nd)
  /\ node' = nd
  /\ task' = Swept(nd)
  /\ producer' = SweptProducers(nd)
  /\ jobState' = SweptJobs(nd)
  /\ leased' = StillLeased(Swept(nd))
  /\ UNCHANGED <<policy, rank, results, current, grants>>

\* heartbeat: the node table first, then _expire, in one transaction.  The
\* leases it renews are those still ahead, so `leased' stays as it is.
Heartbeat(n, profile) ==
  /\ node[n].exists
  /\ Sweep([node EXCEPT ![n] = [exists |-> TRUE, online |-> TRUE,
                                  gen |-> profile.gen, caps |-> profile.caps]])

\* get_job, list_jobs, query_jobs, active_tasks, stage_status.
Poll == Sweep(node)

-----------------------------------------------------------------------------
(***************************************************************************)
(* claim: sweep, let one producer of the node append its next targets,     *)
(* then hand out one pending row.                                          *)
(***************************************************************************)
Backlog(tk, j) == Cardinality({t \in TaskIds : t.job = j /\ tk[t].state \in Live})

NextTarget(pr, j) == JobSpec[j].targets[pr[j].cursor + 1]

Feedable(n) ==
  {j \in Jobs :
    LET p == SweptProducers(node)[j]
    IN  /\ p.state \in {"queued", "running"} /\ p.node = n
        /\ SweptJobs(node)[j] = "running"
        /\ FirstStage(j) \in node[n].caps
        /\ Backlog(Swept(node), j) < BacklogLimit
        /\ p.cursor < Len(JobSpec[j].targets)}

\* One target stands for a chunk of 250.
Materialized(n, j) ==
  LET p == SweptProducers(node)[j]
      k == Key(j, FirstStage(j), NextTarget(SweptProducers(node), j))
  IN  Insert(Swept(node), k, n, "pending", p.gen)

FedProducer(p, j) ==
  [p EXCEPT !.cursor = @ + 1, !.waiting = FALSE,
            !.state = IF p.cursor + 1 < Len(JobSpec[j].targets) THEN "running" ELSE "done"]

\* Sensitivity check of TunnelExclusive: rows being cancelled hold no lock.
BlockedByRunningOnly(tk, t, n) ==
  \/ \E u \in TaskIds : tk[u].state \in Active /\ tk[u].node = n /\ u.stage = "speed"
  \/ t.stage = "speed" /\ \E u \in TaskIds : tk[u].state \in Active /\ tk[u].node = n
  \/ t.stage \in Tunnel /\ \E u \in TaskIds :
        tk[u].state = "running" /\ u.stage \in Tunnel /\ u.on = t.on

\* Sensitivity check of SpeedAlone: only other speed tests are looked at.
BlockedBySpeedOnly(tk, t, n) ==
  \/ \E u \in TaskIds : tk[u].state \in Active /\ tk[u].node = n /\ u.stage = "speed"
  \/ t.stage \in Tunnel /\ \E u \in TaskIds :
        tk[u].state \in Active /\ u.stage \in Tunnel /\ u.on = t.on

\* A speed test has its node to itself; a tunnel test has its host to itself,
\* across all nodes and jobs.
Blocked(tk, t, n) ==
  \/ \E u \in TaskIds : tk[u].state \in Active /\ tk[u].node = n /\ u.stage = "speed"
  \/ t.stage = "speed" /\ \E u \in TaskIds : tk[u].state \in Active /\ tk[u].node = n
  \/ t.stage \in Tunnel /\ \E u \in TaskIds :
        tk[u].state \in Active /\ u.stage \in Tunnel /\ u.on = t.on

Claimable(tk, js, n) ==
  {t \in TaskIds :
    /\ tk[t].state = "pending" /\ tk[t].node = n /\ js[t.job] = "running"
    /\ NeedsGeneration(t.job, n, tk[t].gen) => node[n].gen
    /\ ~tk[t].waiting
    /\ t.stage \in node[n].caps
    /\ Cardinality({u \in TaskIds : tk[u].state \in Active /\ tk[u].node = n}) < JobSpec[t.job].conc
    /\ ~Blocked(tk, t, n)}

\* A claimed row: a fresh attempt id, a new lease, one more attempt.
Granted(r) ==
  [r EXCEPT !.state = "running", !.claims = @ + 1, !.attempt = r.claims + 1,
            !.attempts = @ + 1, !.seq = 0]

ClaimWith(n, tk, pr, js) ==
  /\ producer' = pr
  /\ jobState' = js
  /\ UNCHANGED <<node, policy, rank, results, current>>
  /\ \/ \E t \in Claimable(tk, js, n) :
          /\ Cardinality(grants) < MaxGrants
          /\ task' = [tk EXCEPT ![t] = Granted(tk[t])]
          /\ leased' = StillLeased(tk) \cup {t}
          /\ grants' = grants \cup {[task |-> t, attempt |-> tk[t].claims + 1,
                                      node |-> n, gen |-> tk[t].gen]}
     \/ /\ Claimable(tk, js, n) = {}
        /\ task' = tk
        /\ leased' = StillLeased(tk)
        /\ UNCHANGED grants

Claim(n) ==
  /\ node[n].exists
  /\ SweepCommits(node)
  /\ \/ /\ Feedable(n) = {}
        /\ ClaimWith(n, Swept(node), SweptProducers(node), SweptJobs(node))
     \/ \E j \in Feedable(n) :
          LET k  == Key(j, FirstStage(j), NextTarget(SweptProducers(node), j))
              pr == [SweptProducers(node) EXCEPT ![j] = FedProducer(SweptProducer(node, j), j)]
          IN  /\ InsertFits(Swept(node), k, n)
              /\ ClaimWith(n, Materialized(n, j), pr,
                           Refresh(SweptJobs(node), Materialized(n, j), pr, {j}))

-----------------------------------------------------------------------------
(***************************************************************************)
(* Messages from workers.  `g' is any grant ever given: its worker may     *)
(* repeat a message or deliver it after the row moved on.                  *)
(***************************************************************************)
\* Sensitivity check of ResultEndsAttempt: the attempt id is not compared.
HeldIgnoringAttempt(tk, g, st) ==
  LET r == tk[g.task]
  IN  r.state = st /\ r.node = g.node /\ r.gen = g.gen

\* _valid, and the same test for rows being cancelled.
Held(tk, g, st) ==
  LET r == tk[g.task]
  IN  r.state = st /\ r.node = g.node /\ r.attempt = g.attempt /\ r.gen = g.gen

\* progress of a discovery attempt: message seq carries at most one found
\* address.  A repeated message is acknowledged, a gap refused.  Progress of
\* the other stages only rewrites the progress document.
Progress(g, seq, hit) ==
  LET tk  == Swept(node)
      t   == g.task
      new == /\ Held(tk, g, "running") /\ seq = tk[t].seq + 1
      k   == Key(t.job, "route", hit)
      add == hit \in Ips /\ JobSpec[t.job].mode # "discover" /\ Present(tk, k, g.node) = {}
      acked == [tk EXCEPT ![t].seq = seq]
  IN  /\ node[g.node].exists
      /\ t.stage = "discover"
      /\ hit \in Ips => HitChunk[hit] = t.on
      /\ SweepCommits(node)
      /\ (new /\ add) => InsertFits(acked, k, g.node)
      /\ task' = IF ~new THEN tk
                 ELSE IF add THEN Insert(acked, k, g.node, "pending", tk[t].gen)
                 ELSE acked
      /\ producer' = SweptProducers(node)
      /\ jobState' = SweptJobs(node)
      /\ leased' = StillLeased(Swept(node))
      /\ UNCHANGED <<node, policy, rank, results, current, grants>>

\* Sensitivity check of PipelineComplete: the last chunk is taken for the end.
NextRowsWithoutLastChunk(t, pass) ==
  CASE t.stage = "discover" ->
         IF t.on + 1 < Chunks THEN {<<Key(t.job, "discover", t.on + 1), "pending">>} ELSE {}
    [] t.stage = "route" /\ Full(t.job) ->
         {<<Key(t.job, "connectivity", t.on), "pending">>}
    [] t.stage = "connectivity" /\ Full(t.job) ->
         {<<Key(t.job, "speed", t.on), IF pass THEN "pending" ELSE "skipped">>}
    [] OTHER -> {}

\* The row a finished stage schedules next, as <<key, state>>, or nothing.
NextRows(t, pass) ==
  CASE t.stage = "discover" ->
         IF t.on < Chunks THEN {<<Key(t.job, "discover", t.on + 1), "pending">>} ELSE {}
    [] t.stage = "route" /\ Full(t.job) ->
         {<<Key(t.job, "connectivity", t.on), "pending">>}
    [] t.stage = "connectivity" /\ Full(t.job) ->
         {<<Key(t.job, "speed", t.on), IF pass THEN "pending" ELSE "skipped">>}
    [] OTHER -> {}

WithNextRow(tk, t, n, pass) ==
  IF NextRows(t, pass) = {} THEN tk
  ELSE LET k == CHOOSE x \in NextRows(t, pass) : TRUE
       IN  Insert(tk, k[1], n, k[2], tk[t].gen)

Finished(r, outcome) ==
  IF outcome = "infra"
    THEN [r EXCEPT !.state = IF r.attempts < AttemptLimit THEN "pending" ELSE "failed",
                   !.error = "fault"]
    ELSE [r EXCEPT !.state = IF outcome = "pass" THEN "done" ELSE "failed", !.error = ""]

\* _result and _update_current_result.
ResultOf(g, outcome) ==
  [task |-> g.task, attempt |-> g.attempt, node |-> g.node, gen |-> g.gen, pass |-> outcome = "pass"]

Projects(g) == JobSpec[g.task.job].managed /\ rank[g.task.job][g.node] > 0

Record(g, outcome) ==
  IF g.task.stage \in TestStages /\ outcome # "infra"
    THEN /\ results' = results \cup {ResultOf(g, outcome)}
         /\ current' = IF Projects(g)
                         THEN [current EXCEPT ![<<g.task.on, g.task.stage>>] = ResultOf(g, outcome)]
                         ELSE current
    ELSE UNCHANGED <<results, current>>

\* report.  A target that failed its test is a result; only an infrastructure
\* error is retried.  A discovery chunk always passes.
Report(g, outcome) ==
  LET tk  == Swept(node)
      t   == g.task
      fin == [tk EXCEPT ![t] = Finished(tk[t], outcome)]
  IN  /\ node[g.node].exists
      /\ t.stage = "discover" => outcome # "fail"
      /\ SweepCommits(node)
      /\ producer' = SweptProducers(node)
      /\ \/ /\ Held(tk, g, "cancelling")
            /\ task' = [tk EXCEPT ![t].state = CancelledState(tk[t])]
            /\ jobState' = Refresh(jobState, task', producer', Jobs)
            /\ UNCHANGED <<results, current>>
         \/ /\ Held(tk, g, "running")
            /\ outcome # "infra" => \A x \in NextRows(t, outcome = "pass") : InsertFits(fin, x[1], g.node)
            /\ task' = IF outcome = "infra" THEN fin ELSE WithNextRow(fin, t, g.node, outcome = "pass")
            /\ jobState' = Refresh(jobState, task', producer', Jobs)
            /\ Record(g, outcome)
         \/ /\ ~Held(tk, g, "cancelling") /\ ~Held(tk, g, "running")
            /\ task' = tk
            /\ jobState' = SweptJobs(node)
            /\ UNCHANGED <<results, current>>
      /\ leased' = StillLeased(task')
      /\ UNCHANGED <<node, policy, rank, grants>>

-----------------------------------------------------------------------------
(***************************************************************************)
(* Operator actions.  None of them sweeps.                                 *)
(***************************************************************************)
\* task_ids: the whole job (None, here TaskIds) or a single row of it.
Scopes(j, action) ==
  {TaskIds : s \in Actions \cap {<<action, "job">>}} \cup
  {{t} : t \in {u \in TaskIds : u.job = j /\ task[u].state # "absent"
                                 /\ <<action, "row">> \in Actions}}

Cancelled(r, error) ==
  CASE r.state = "running" -> [r EXCEPT !.state = "cancelling", !.error = error]
    [] r.state = "pending" -> [r EXCEPT !.state = error, !.error = error]
    [] OTHER               -> r

\* A speed test is retried only when its connectivity test passed on the same node.
Gate(t) ==
  \E u \in TaskIds :
    /\ u.job = t.job /\ u.on = t.on /\ u.stage = "connectivity"
    /\ task[u].node = task[t].node /\ task[u].state = "done"

Gated(t) == t.stage = "speed" /\ (JobSpec[t.job].mode = "full" \/ task[t].error = "dependency")

\* Sensitivity check of SpeedGated (operators): retry forgets the gate.
RetryableWithoutGate(t) == task[t].state \in {"failed", "stopped", "skipped"}

\* Sensitivity check of DoneIsFinal: everything that ended may be retried.
RetryableTerminal(t) ==
  /\ task[t].state \in Terminal
  /\ Gated(t) => Gate(t)

Retryable(t) ==
  /\ task[t].state \in {"failed", "stopped", "skipped"}
  /\ Gated(t) => Gate(t)

Retried(r) ==
  [r EXCEPT !.state = "pending", !.attempt = NoClaimYet, !.attempts = 0, !.error = "",
            !.waiting = FALSE, !.seq = 0]

StopOrSkip(j, S, error) ==
  LET whole == S = TaskIds
      p     == producer[j]
      halts == whole /\ (LiveProducer(p) \/ (error = "stopped" /\ p.state = "done"))
  IN  /\ jobState[j] # "absent"
      /\ task' = [t \in TaskIds |-> IF t.job = j /\ t \in S THEN Cancelled(task[t], error) ELSE task[t]]
      /\ producer' = IF halts THEN [producer EXCEPT ![j] = [p EXCEPT !.state = "stopped", !.waiting = FALSE]]
                     ELSE producer
      /\ jobState' = Refresh(IF whole /\ error = "stopped" THEN [jobState EXCEPT ![j] = "stopped"]
                             ELSE jobState, task', producer', Jobs)
      /\ leased' = StillLeased(task')
      /\ UNCHANGED <<node, policy, rank, results, current, grants>>

Stop(j, S) == StopOrSkip(j, S, "stopped")
Skip(j, S) == StopOrSkip(j, S, "skipped")

\* The retry of a whole job resumes a stopped producer (within seven days).
Retry(j, S) ==
  LET p       == producer[j]
      resumes == S = TaskIds /\ p.state = "stopped"
  IN  /\ jobState[j] # "absent"
      /\ resumes => node[p.node].exists
      /\ task' = [t \in TaskIds |->
                    IF t.job = j /\ t \in S /\ Retryable(t) THEN Retried(task[t]) ELSE task[t]]
      /\ producer' = IF resumes
                       THEN [producer EXCEPT ![j] = [p EXCEPT
                              !.state = IF p.cursor < Len(JobSpec[j].targets) THEN "running" ELSE "done",
                              !.waiting = FALSE]]
                       ELSE producer
      /\ jobState' = Refresh([jobState EXCEPT ![j] = "running"], task', producer', Jobs)
      /\ UNCHANGED <<node, policy, rank, leased, results, current, grants>>

\* stop_stage: one stage of every job.
StopStage(stage) ==
  /\ task' = [t \in TaskIds |-> IF t.stage = stage THEN Cancelled(task[t], "skipped") ELSE task[t]]
  /\ producer' = [j \in Jobs |->
                    IF LiveProducer(producer[j]) /\ FirstStage(j) = stage
                      THEN [producer[j] EXCEPT !.state = "stopped", !.waiting = FALSE]
                      ELSE producer[j]]
  /\ jobState' = Refresh(jobState, task', producer', Jobs)
  /\ leased' = StillLeased(task')
  /\ UNCHANGED <<node, policy, rank, results, current, grants>>

\* A job whose producer may still (or again) use the nodes of its chain.
\* (The retry window of a stopped producer is taken as open.)
PinsNodes(j) ==
  /\ producer[j].state # "none"
  /\ jobState[j] = "running" \/ LiveProducer(producer[j]) \/ producer[j].state = "stopped"

DeleteNode(n) ==
  /\ n # Console /\ node[n].exists
  /\ ValidPolicy(policy) /\ policy[1] # n
  /\ \A j \in Jobs : PinsNodes(j) => n # producer[j].node /\ rank[j][n] = 0
  /\ policy' = Without(policy, n)
  /\ node' = [node EXCEPT ![n].exists = FALSE, ![n].online = FALSE]
  /\ task' = [t \in TaskIds |-> IF task[t].node = n THEN Cancelled(task[t], "stopped") ELSE task[t]]
  /\ jobState' = Refresh(jobState, task', producer, Jobs)
  /\ leased' = StillLeased(task')
  /\ UNCHANGED <<rank, producer, results, current, grants>>

\* Sensitivity check of ProjectionFresh: the projection outlives its source.
ClearHistoryOnly(S, kind) ==
  LET gone == {r \in results : r.node \in S /\ r.task.stage = kind}
  IN  /\ results' = results \ gone
      /\ UNCHANGED <<node, policy, jobState, rank, task, leased, producer, current, grants>>

\* clear_history of one node, or of all of them.
ClearHistory(S, kind) ==
  LET gone == {r \in results : r.node \in S /\ r.task.stage = kind}
  IN  /\ results' = results \ gone
      /\ current' = [k \in Ips \X TestStages |-> IF current[k] \in gone THEN NoResult ELSE current[k]]
      /\ UNCHANGED <<node, policy, jobState, rank, task, leased, producer, grants>>

-----------------------------------------------------------------------------
Outcomes == {"pass", "fail", "infra"}

WorkerStep ==
  \/ \E n \in Nodes : Claim(n)
  \/ \E n \in Nodes : \E p \in Profiles[n] : Heartbeat(n, p)
  \/ \E g \in grants, seq \in 1..MaxSeq, hit \in Ips \cup {NoNode} : Progress(g, seq, hit)
  \/ \E g \in grants, outcome \in Outcomes : Report(g, outcome)

OperatorStep ==
  \/ \E p \in Policies : SetPolicy(p)
  \/ \E j \in Jobs : CreateJob(j) \/ CreateSelectionJob(j)
  \/ \E j \in Jobs : \E S \in Scopes(j, "stop")  : Stop(j, S)
  \/ \E j \in Jobs : \E S \in Scopes(j, "skip")  : Skip(j, S)
  \/ \E j \in Jobs : \E S \in Scopes(j, "retry") : Retry(j, S)
  \/ \E stage \in StopStages : StopStage(stage)
  \/ \E n \in Deletable : DeleteNode(n)
  \/ \E S \in {{n} : n \in Nodes} \cup {Nodes}, kind \in ClearKinds : ClearHistory(S, kind)
  \/ Poll

TimeStep ==
  \/ \E t \in TaskIds : LeaseRunsOut(t)
  \/ \E n \in Nodes : GoSilent(n)

Next == WorkerStep \/ OperatorStep \/ TimeStep

Spec == Init /\ [][Next]_vars

-----------------------------------------------------------------------------
(***************************************************************************)
(* What the scheduler promises.                                            *)
(***************************************************************************)
ActiveRows == {t \in TaskIds : task[t].state \in Active}

\* "Tunnel conflicts span all nodes": at any time at most one connectivity or
\* speed test, of whatever job and at whatever node, uses the tunnel ports of a
\* host; a test being cancelled still counts, its worker has not let go yet.
TunnelExclusive ==
  \A t, u \in ActiveRows :
    (t.stage \in Tunnel /\ u.stage \in Tunnel /\ t.on = u.on) => t = u

\* A speed test runs alone on its node: no other test shares the bandwidth it
\* is measuring, although claims, cancellations and transfers move rows around.
SpeedAlone ==
  \A t, u \in ActiveRows :
    (t.stage = "speed" /\ task[t].node = task[u].node) => t = u

\* Failover only walks down the frozen chain: a managed row or producer of
\* generation g has an owner beyond position g.  So it is transferred fewer
\* times than the chain has nodes, and it never bounces between two owners.
FailoverMonotone ==
  \A j \in Jobs :
    /\ producer[j].state # "none" => producer[j].gen < rank[j][producer[j].node]
    /\ \A t \in TaskIds :
         (t.job = j /\ task[t].state # "absent") =>
            IF JobSpec[j].managed THEN task[t].gen < rank[j][task[t].node] ELSE task[t].gen = 0

\* A full job measures speed only through a tunnel that was seen working: a
\* speed row is handed out, or waits to be, only if a connectivity test of the
\* same job and host has passed.
SpeedGated ==
  \A t \in TaskIds :
    (Full(t.job) /\ t.stage = "speed" /\ task[t].state \in {"pending", "running", "done"}) =>
      \E u \in RowsOf(Key(t.job, "connectivity", t.on)) : task[u].state = "done"

\* The stored state of a job is never stale: a job says "running" exactly while
\* it has a live row or producer, and a stopped job has nothing left to hand out.
JobStateAgrees ==
  \A j \in Jobs :
    CASE jobState[j] = "absent"  -> \A t \in TaskIds : t.job = j => task[t].state = "absent"
      [] jobState[j] = "stopped" ->
           /\ ~LiveProducer(producer[j])
           /\ \A t \in TaskIds : t.job = j => task[t].state \notin {"pending", "running"}
      [] OTHER -> (jobState[j] = "running") <=>
                    (LiveProducer(producer[j]) \/ \E t \in TaskIds : t.job = j /\ task[t].state \in Live)

\* An active row is held by the worker it was last granted to: its attempt id
\* was issued to its present owner at its present generation.  A transfer that
\* kept the attempt would let the old owner report into the new owner's row.
GrantsFenced ==
  \A t \in ActiveRows :
    [task |-> t, attempt |-> task[t].attempt, node |-> task[t].node, gen |-> task[t].gen] \in grants

\* Whatever is delivered late or twice, an attempt has at most one result, and
\* the attempt that a row holds has one only if it made the row terminal; a row is
\* done by the result of the attempt it holds and by no other.
ResultEndsAttempt ==
  /\ \A r, q \in results : (q.task = r.task /\ q.attempt = r.attempt) => q = r
  /\ \A r \in results : r.attempt = task[r.task].attempt =>
         task[r.task].state = IF r.pass THEN "done" ELSE "failed"
  /\ \A t \in TaskIds :
       (ClearKinds = {} /\ t.stage \in TestStages /\ task[t].state = "done") =>
         \E r \in results : r.task = t /\ r.attempt = task[t].attempt /\ r.pass

\* The projection shown to users is never older than the history: the current
\* result of a host and stage is still in the history, and no later attempt of
\* the same row has a result.
ProjectionFresh ==
  \A k \in Ips \X TestStages :
    current[k] # NoResult =>
      /\ current[k] \in results
      /\ \A r \in results : r.task = current[k].task => r.attempt <= current[k].attempt

\* Nothing is lost between chunks, stages and owners: a job that says "done",
\* and in which nothing was stopped or skipped, ran every chunk, materialized
\* every target of its selection, and passed every stage for every target.
Undisturbed(j) ==
  /\ producer[j].state # "stopped"
  /\ \A t \in TaskIds : t.job = j =>
       /\ task[t].state # "stopped"
       /\ task[t].state = "skipped" => task[t].error = "dependency"

DoneSomewhere(k) == \E t \in RowsOf(k) : task[t].state = "done"

PipelineComplete ==
  \A j \in Jobs : (jobState[j] = "done" /\ Undisturbed(j)) =>
    /\ JobSpec[j].frozen => producer[j].cursor = Len(JobSpec[j].targets)
    /\ IF Discovery(j) THEN \A c \in 1..Chunks : DoneSomewhere(Key(j, "discover", c))
       ELSE \A o \in Targets(j), s \in Required(j) : DoneSomewhere(Key(j, s, o))

\* A row that passed is never run again: no expiry, transfer, retry, repeated
\* insertion or late message takes "done" back.
DoneIsFinal ==
  [][\A t \in TaskIds : task[t].state = "done" => task'[t] = task[t]]_vars

\* A managed row or producer never returns to an owner earlier in the chain.
NeverReturns ==
  [][\A t \in TaskIds :
       (task[t].state # "absent" /\ JobSpec[t.job].managed) =>
          rank[t.job][task'[t].node] >= rank[t.job][task[t].node]]_vars

\* The scheduler implements FencedTasks: the attempt that holds a row is the one
\* whose worker may still get a result accepted, so a row being cancelled is held
\* by nobody, although it still holds its locks.
Holder(t) ==
  IF task[t].state = "running"
    THEN [attempt |-> task[t].attempt, node |-> task[t].node, gen |-> task[t].gen]
    ELSE NoNode

Fenced == INSTANCE FencedTasks WITH
  Tasks    <- TaskIds,
  None     <- NoNode,
  holder   <- [t \in TaskIds |-> Holder(t)],
  issued   <- [t \in TaskIds |-> task[t].claims],
  accepted <- results

\* Every step of the scheduler is a withdrawal, one grant, one accepted result or
\* a clearing of the history, as FencedTasks defines them.
ResultsFenced == Fenced!AbsSpec

\* A job that is running ends, whoever goes silent in the middle of it, as long
\* as the last node of its chain comes back and operators leave it alone.
JobsEnd ==
  \A j \in Jobs : (jobState[j] = "running") ~> (jobState[j] # "running")

\* A row that was cancelled does not hold the locks of its host and node for
\* ever: its worker lets go, or its lease runs out.
CancellationEnds ==
  \A t \in TaskIds : (task[t].state = "cancelling") ~> (task[t].state # "cancelling")

-----------------------------------------------------------------------------
(***************************************************************************)
(* What the repository says and the code does not do; a violation run      *)
(* shows how.                                                              *)
(***************************************************************************)
\* A pending row whose owner is gone fails over to the first backup online: the
\* sweep that would do it can commit.  Where it cannot, every heartbeat, claim,
\* report and poll of every node is rolled back with it.
FailoverCommits == SweepCommits(node)

=============================================================================
