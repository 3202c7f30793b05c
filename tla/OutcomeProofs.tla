---------------------------- MODULE OutcomeProofs ----------------------------
(***************************************************************************)
(* Proofs about what ProbeScheduler makes of its rows in the end, for      *)
(* every value of its constants: the results, the gate of the speed test,  *)
(* the states of jobs and the completeness of a pipeline.                  *)
(*                                                                         *)
(* One more relation between task tables carries the argument.             *)
(*   Settles(tk, uk)  nothing is started, finished or forgotten from tk to *)
(*                    uk: what is done stays as it is, an attempt is kept  *)
(*                    or dropped, and a speed test of a full job opens     *)
(*                    only behind a connectivity test that is done         *)
(* Every stage of every operation settles, except the one row that a claim *)
(* starts and the one row that an accepted report finishes; StepAdvances   *)
(* says so, and the invariants are proved from it.                         *)
(***************************************************************************)
EXTENDS ProbeSchedulerProofs

\* A row that waits for the dependency it was skipped for, and one that does not.
Dependent(r) == r.state = "skipped" /\ r.error = "dependency"
Opened(r)    == r.state # "absent" /\ ~Dependent(r)

RowSettles(t, r, q) ==
  /\ q.claims = r.claims
  /\ q.attempt \in {r.attempt, NoClaimYet}
  /\ q.state \in Active => r.state \in Active /\ q.attempt = r.attempt
  /\ q.state = "done" => r.state = "done"
  /\ r.state = "done" => q = r
  /\ r.state = "failed" => q.state = "failed" \/ q.attempt = NoClaimYet
  /\ r.state # "absent" => q.state # "absent"
  /\ Opened(r) => Opened(q)
  /\ Dependent(q) => Dependent(r) \/ (t.stage = "speed" /\ Full(t.job))

GateOpen(tk, t) ==
  \E u \in RowsOf(Key(t.job, "connectivity", t.on)) : tk[u].state = "done"

OpensAtGates(tk, uk) ==
  \A t \in TaskIds :
    (Full(t.job) /\ t.stage = "speed" /\ Opened(uk[t])) => Opened(tk[t]) \/ GateOpen(uk, t)

Settles(tk, uk) ==
  /\ \A t \in TaskIds : RowSettles(t, tk[t], uk[t])
  /\ OpensAtGates(tk, uk)

-----------------------------------------------------------------------------
(***************************************************************************)
(* Stages that settle.                                                     *)
(***************************************************************************)
\* A row that stays as it is.
LEMMA RowSettlesSame ==
  ASSUME NEW t, NEW r PROVE RowSettles(t, r, r)
  BY DEF RowSettles

\* A table that opens no row settles when its rows do.
LEMMA SettlesByRows ==
  ASSUME NEW tk, NEW uk, \A t \in TaskIds : RowSettles(t, tk[t], uk[t]),
         \A t \in TaskIds : Opened(uk[t]) => Opened(tk[t])
  PROVE  Settles(tk, uk)
  BY DEF Settles, OpensAtGates

\* A table that stays as it is.
LEMMA SettlesSame ==
  ASSUME NEW tk PROVE Settles(tk, tk)
  BY RowSettlesSame, SettlesByRows

\* A gate that is open stays open.
LEMMA GateStaysOpen ==
  ASSUME NEW tk, NEW uk, Settles(tk, uk), NEW t, GateOpen(tk, t)
  PROVE  GateOpen(uk, t)
<1>1. PICK u \in RowsOf(Key(t.job, "connectivity", t.on)) : tk[u].state = "done"
  BY DEF GateOpen
<1>2. u \in TaskIds
  BY DEF RowsOf
<1>3. uk[u].state = "done"
  BY <1>1, <1>2 DEF Settles, RowSettles
<1> QED BY <1>3 DEF GateOpen

\* What two stages settle, both together do.
LEMMA SettlesTransitive ==
  ASSUME NEW tk, NEW uk, NEW vk, Settles(tk, uk), Settles(uk, vk)
  PROVE  Settles(tk, vk)
<1>1. ASSUME NEW t \in TaskIds PROVE RowSettles(t, tk[t], vk[t])
  <2>1. RowSettles(t, tk[t], uk[t]) /\ RowSettles(t, uk[t], vk[t])
    BY DEF Settles
  <2> QED BY <2>1 DEF RowSettles, Active
<1>2. OpensAtGates(tk, vk)
  BY GateStaysOpen DEF Settles, OpensAtGates
<1> QED BY <1>1, <1>2 DEF Settles

\* A row that fails over was not finished, and is pending.
LEMMA FailOverSettles ==
  ASSUME NEW nd, NEW t \in TaskIds, NEW r \in Rows, r.state \in {"running", "pending"}
  PROVE  RowSettles(t, r, FailOver(nd, t, r))
<1> DEFINE b == NextBackup(nd, t.job, r.node)
           q == FailOver(nd, t, r)
<1>1. q = Park(r) \/ q = Transfer(r, b)
  BY DEF FailOver
<1>2. /\ q.claims = r.claims /\ q.attempt \in {r.attempt, NoClaimYet} /\ q.state = "pending"
  <2> HIDE DEF b, q
  <2> QED BY <1>1 DEF Park, Transfer, Rows
<1> QED BY <1>2 DEF RowSettles, Active, Opened, Dependent

\* A row whose lease has run out keeps its attempt or drops it.
LEMMA ExpiredSettles ==
  ASSUME NEW nd, NEW t \in TaskIds, NEW r \in Rows, r = task[t]
  PROVE  RowSettles(t, r, ExpiredRow(nd, t)) /\ (Opened(ExpiredRow(nd, t)) => Opened(r))
<1> DEFINE q == ExpiredRow(nd, t)
<1>1. CASE ~(r.state \in Active /\ t \notin leased)
  BY <1>1, RowSettlesSame DEF ExpiredRow
<1>2. CASE r.state \in Active /\ t \notin leased
  <2>1. q = LeaseLost(nd, t, r) /\ Opened(r)
    BY <1>2 DEF ExpiredRow, Active, Opened, Dependent
  <2>2. CASE r.state = "running" /\ JobSpec[t.job].managed /\ ~Usable(nd, t.job, r.node, r.gen)
    <3>1. q = FailOver(nd, t, r)
      BY <2>1, <2>2 DEF LeaseLost
    <3> QED BY <2>1, <2>2, <3>1, FailOverSettles
  <2>3. CASE ~(r.state = "running" /\ JobSpec[t.job].managed /\ ~Usable(nd, t.job, r.node, r.gen))
    <3>1. \E st \in {"stopped", "skipped", "pending", "failed"} :
            q = [r EXCEPT !.state = st, !.error = "fault"]
      BY <2>1, <2>3 DEF LeaseLost, CancelledState
    <3> HIDE DEF q
    <3>2. /\ q.claims = r.claims /\ q.attempt = r.attempt
          /\ q.state \in {"stopped", "skipped", "pending", "failed"} /\ q.error = "fault"
      BY <3>1 DEF Rows
    <3>3. RowSettles(t, r, q)
      BY <1>2, <3>2 DEF RowSettles, Active, Opened, Dependent
    <3> QED BY <2>1, <3>3 DEF q
  <2> QED BY <2>2, <2>3
<1> QED BY <1>1, <1>2

\* So does the sweep, whatever node table it is given.
LEMMA SweptSettles ==
  ASSUME IInv, NEW nd
  PROVE  Settles(task, Swept(nd))
<1>1. ASSUME NEW t \in TaskIds
      PROVE  RowSettles(t, task[t], SweptRow(nd, t)) /\ (Opened(SweptRow(nd, t)) => Opened(task[t]))
  <2> DEFINE r == ExpiredRow(nd, t)
             q == SweptRow(nd, t)
  <2>1. RowSettles(t, task[t], r) /\ (Opened(r) => Opened(task[t])) /\ r \in Rows
    BY ExpiredSettles, ExpiredRowSound DEF IInv, TypeOK
  <2>2. CASE q = r
    BY <2>1, <2>2
  <2>3. CASE q # r
    <3>1. r.state = "pending" /\ Opened(r)
      BY <2>3 DEF SweptRow, Opened, Dependent
    <3>2. q = FailOver(nd, t, r) \/ q = [r EXCEPT !.waiting = FALSE, !.error = ""]
      BY <2>3 DEF SweptRow
    <3>3. RowSettles(t, r, q)
      <4>1. CASE q = FailOver(nd, t, r)
        BY <2>1, <3>1, <4>1, FailOverSettles
      <4>2. CASE q = [r EXCEPT !.waiting = FALSE, !.error = ""]
        <5> HIDE DEF r, q
        <5> QED BY <2>1, <3>1, <4>2 DEF RowSettles, Rows, Active, Opened, Dependent
      <4> QED BY <3>2, <4>1, <4>2
    <3> HIDE DEF r, q
    <3>4. RowSettles(t, task[t], q)
      BY <2>1, <3>3 DEF RowSettles, Active
    <3> QED BY <2>1, <3>1, <3>4 DEF q
  <2> QED BY <2>2, <2>3
<1>2. \A t \in TaskIds : Swept(nd)[t] = SweptRow(nd, t)
  BY DEF Swept
<1> QED BY <1>1, <1>2, SettlesByRows

\* Stopping or skipping a row finishes nothing.
LEMMA CancelledSettles ==
  ASSUME NEW t \in TaskIds, NEW r \in Rows, NEW error \in {"stopped", "skipped"}
  PROVE  LET q == Cancelled(r, error)
         IN  RowSettles(t, r, q) /\ (Opened(q) => Opened(r))
<1> DEFINE q == Cancelled(r, error)
<1>1. \/ q = r
      \/ r.state = "running" /\ q = [r EXCEPT !.state = "cancelling", !.error = error]
      \/ r.state = "pending" /\ q = [r EXCEPT !.state = error, !.error = error]
  BY DEF Cancelled
<1> HIDE DEF q
<1>2. CASE q = r
  BY <1>2, RowSettlesSame DEF q
<1>3. CASE q # r
  <2>1. /\ q.claims = r.claims /\ q.attempt = r.attempt /\ q.error = error
        /\ \/ r.state = "running" /\ q.state = "cancelling"
           \/ r.state = "pending" /\ q.state = error
    BY <1>1, <1>3 DEF Rows
  <2>2. RowSettles(t, r, q) /\ Opened(r)
    BY <2>1 DEF RowSettles, Active, Opened, Dependent
  <2> QED BY <2>2 DEF q
<1> QED BY <1>2, <1>3

\* Retrying a row that ended without passing drops its attempt.
LEMMA RetriedSettles ==
  ASSUME NEW t \in TaskIds, NEW r \in Rows, r.state \in {"failed", "stopped", "skipped"}
  PROVE  RowSettles(t, r, Retried(r)) /\ Opened(Retried(r))
<1> DEFINE q == Retried(r)
<1>1. q.claims = r.claims /\ q.attempt = NoClaimYet /\ q.state = "pending"
  BY DEF Retried, Rows
<1> QED BY <1>1 DEF RowSettles, Active, Opened, Dependent

\* An insertion that meets a row may revive it and does nothing else to it.
LEMMA TouchedSettles ==
  ASSUME NEW t \in TaskIds, NEW r \in Rows, NEW st, NEW g
  PROVE  LET q == Touched(r, st, g)
         IN  /\ RowSettles(t, r, q)
             /\ (Opened(q) => Opened(r) \/ (st = "pending" /\ Dependent(r)))
             /\ ((st = "pending" /\ r.state # "absent") => Opened(q))
<1> DEFINE q == Touched(r, st, g)
<1>1. \/ q = r
      \/ /\ st = "pending" /\ Dependent(r)
         /\ q = [r EXCEPT !.state = "pending", !.error = "", !.gen = g, !.waiting = FALSE]
      \/ /\ r.state = "pending"
         /\ \E e \in {"", r.error} : q = [r EXCEPT !.gen = g, !.waiting = FALSE, !.error = e]
  BY DEF Touched, Dependent
<1>2. (st = "pending" /\ Dependent(r)) => q # r
  <2>1. (st = "pending" /\ Dependent(r)) => q.state = "pending"
    BY DEF Touched, Dependent, Rows
  <2> QED BY <2>1 DEF Dependent
<1> HIDE DEF q
<1>3. CASE q = r
  BY <1>2, <1>3, RowSettlesSame DEF Opened, q
<1>4. CASE q # r
  <2>1. /\ q.claims = r.claims /\ q.attempt = r.attempt /\ q.state = "pending"
        /\ r.state = "pending" \/ (st = "pending" /\ Dependent(r))
    BY <1>1, <1>4 DEF Rows
  <2>2. /\ RowSettles(t, r, q) /\ Opened(q)
        /\ Opened(r) \/ (st = "pending" /\ Dependent(r))
    BY <2>1 DEF RowSettles, Active, Opened, Dependent
  <2> QED BY <2>2 DEF q
<1> QED BY <1>3, <1>4

\* A fresh row has no attempt; it waits only if it was inserted as skipped.
LEMMA NewRowSettles ==
  ASSUME NEW t \in TaskIds, NEW r \in Rows, r.state = "absent", r.claims = 0,
         NEW n, NEW st \in {"pending", "skipped"}, NEW g,
         st = "skipped" => t.stage = "speed" /\ Full(t.job)
  PROVE  LET q == NewRow(n, st, g)
         IN  RowSettles(t, r, q) /\ q.state = st /\ (Opened(q) <=> st = "pending")
<1> DEFINE q == NewRow(n, st, g)
<1>1. /\ q.claims = 0 /\ q.attempt = NoClaimYet /\ q.state = st
      /\ q.error = IF st = "skipped" THEN "dependency" ELSE ""
  BY DEF NewRow, NoRow
<1> QED BY <1>1 DEF RowSettles, Active, Opened, Dependent

\* An insertion leaves a row behind, and opens it only as the gate allows.
LEMMA InsertSettles ==
  ASSUME NEW tk, Sound(tk), NEW k, NEW n, NEW st \in {"pending", "skipped"}, NEW g,
         InsertFits(tk, k, n), st = "skipped" => k.stage = "speed" /\ Full(k.job),
         (Full(k.job) /\ k.stage = "speed" /\ st = "pending") => GateOpen(tk, k)
  PROVE  LET uk == Insert(tk, k, n, st, g)
         IN  /\ Settles(tk, uk)
             /\ \E u \in RowsOf(k) : uk[u].state # "absent" /\ (st = "pending" => Opened(uk[u]))
<1> DEFINE uk == Insert(tk, k, n, st, g)
<1>1. ASSUME NEW t \in TaskIds
      PROVE  /\ tk[t] \in Rows /\ (tk[t].state = "absent" => tk[t].claims = 0)
             /\ (t \in RowsOf(k) <=> t.job = k.job /\ t.stage = k.stage /\ t.on = k.on)
  BY DEF Sound, RowUnclaimed, RowsOf
<1>2. \A t \in RowsOf(k) : t \in TaskIds
  BY DEF RowsOf
\* Whichever rows of k the insertion writes, the rest of the table settles with them.
<1>3. ASSUME NEW vk, vk = uk,
             \A t \in TaskIds \ RowsOf(k) : vk[t] = tk[t],
             \A t \in RowsOf(k) : /\ RowSettles(t, tk[t], vk[t])
                                  /\ Opened(vk[t]) => Opened(tk[t]) \/ st = "pending"
      PROVE  Settles(tk, vk)
  <2>1. \A t \in TaskIds : RowSettles(t, tk[t], vk[t])
    BY <1>3, RowSettlesSame
  <2>2. ASSUME NEW t \in TaskIds, Full(t.job), t.stage = "speed", Opened(vk[t]), ~Opened(tk[t])
        PROVE  GateOpen(vk, t)
    <3>1. t \in RowsOf(k) /\ st = "pending"
      BY <1>3, <2>2
    <3>2. GateOpen(tk, t)
      BY <1>1, <2>2, <3>1 DEF GateOpen
    <3>3. PICK u \in RowsOf(Key(t.job, "connectivity", t.on)) : tk[u].state = "done"
      BY <3>2 DEF GateOpen
    <3>4. vk[u].state = "done"
      BY <2>1, <3>3 DEF RowsOf, RowSettles
    <3> QED BY <3>3, <3>4 DEF GateOpen
  <2> QED BY <2>1, <2>2 DEF Settles, OpensAtGates
<1>4. CASE Present(tk, k, n) # {}
  <2>1. uk = [t \in TaskIds |-> IF t \in Present(tk, k, n) THEN Touched(tk[t], st, g) ELSE tk[t]]
    BY <1>4 DEF Insert
  <2>2. \A t \in Present(tk, k, n) : t \in RowsOf(k) /\ tk[t].state # "absent"
    BY DEF Present
  <2>3. ASSUME NEW t \in RowsOf(k)
        PROVE  /\ RowSettles(t, tk[t], uk[t])
               /\ Opened(uk[t]) => Opened(tk[t]) \/ st = "pending"
    <3>1. CASE t \in Present(tk, k, n)
      BY <1>1, <1>2, <2>1, <3>1, TouchedSettles
    <3>2. CASE t \notin Present(tk, k, n)
      BY <1>2, <2>1, <3>2, RowSettlesSame
    <3> QED BY <3>1, <3>2
  <2>4. \A t \in TaskIds \ RowsOf(k) : uk[t] = tk[t]
    BY <2>1, <2>2
  <2>5. PICK u \in Present(tk, k, n) : TRUE
    BY <1>4
  <2>6. /\ u \in RowsOf(k) /\ u \in TaskIds /\ uk[u] = Touched(tk[u], st, g)
        /\ tk[u] \in Rows /\ tk[u].state # "absent"
    BY <1>1, <1>2, <2>1, <2>2, <2>5
  <2>7. uk[u].state # "absent" /\ (st = "pending" => Opened(uk[u]))
    BY <2>6, TouchedSettles DEF RowSettles
  <2>8. Settles(tk, uk)
    BY ONLY <1>3, <2>3, <2>4
  <2> QED BY <2>6, <2>7, <2>8
<1>5. CASE Present(tk, k, n) = {}
  <2> DEFINE new == CHOOSE t \in Unused(tk, k) : TRUE
  <2>1. new \in Unused(tk, k)
    BY <1>5 DEF InsertFits
  <2>2. uk = [t \in TaskIds |-> IF t = new THEN NewRow(n, st, g) ELSE tk[t]]
    BY <1>5 DEF Insert
  <2>3. new \in RowsOf(k) /\ new \in TaskIds /\ tk[new].state = "absent"
    BY <1>2, <2>1 DEF Unused
  <2> HIDE DEF new
  <2>4. /\ RowSettles(new, tk[new], uk[new]) /\ uk[new].state = st
        /\ (Opened(uk[new]) <=> st = "pending")
    <3>1. uk[new] = NewRow(n, st, g) /\ tk[new] \in Rows /\ tk[new].claims = 0
      BY <1>1, <2>2, <2>3
    <3>2. st = "skipped" => new.stage = "speed" /\ Full(new.job)
      BY <1>1, <2>3
    <3> QED BY <2>3, <3>1, <3>2, NewRowSettles
  <2>5. ASSUME NEW t \in RowsOf(k)
        PROVE  /\ RowSettles(t, tk[t], uk[t])
               /\ Opened(uk[t]) => Opened(tk[t]) \/ st = "pending"
    BY <1>2, <2>2, <2>4, RowSettlesSame
  <2>6. \A t \in TaskIds \ RowsOf(k) : uk[t] = tk[t]
    BY <2>2, <2>3
  <2> HIDE DEF uk
  <2> QED BY <1>3, <2>3, <2>4, <2>5, <2>6 DEF uk
<1> QED BY <1>4, <1>5

-----------------------------------------------------------------------------
(***************************************************************************)
(* What a step does to the rows and to the results.                        *)
(***************************************************************************)
\* A claim: a table that settled, and one pending row of it started.
Begins ==
  /\ UNCHANGED <<results, current>>
  /\ \E tk : \E t \in TaskIds, n \in Nodes : Settles(task, tk) /\ Starts(tk, t, n)

\* An accepted report: the row it holds is finished in a table that settled, the
\* row of the next stage is there, and the outcome is recorded.
FinishedIn(tk, g, outcome) == [tk EXCEPT ![g.task] = Finished(tk[g.task], outcome)]

Finishes(tk, g, outcome) ==
  /\ Sound(tk) /\ Follows(task, tk) /\ Settles(task, tk) /\ Held(tk, g, "running")
  /\ Settles(FinishedIn(tk, g, outcome), task')
  /\ \A x \in NextRows(g.task, outcome = "pass") :
       \E u \in RowsOf(x[1]) : task'[u].state # "absent" /\ (x[2] = "pending" => Opened(task'[u]))
  /\ Record(g, outcome)

Clears ==
  /\ UNCHANGED <<task, jobState, rank, producer>>
  /\ \E S : \E kind \in ClearKinds : ClearHistory(S, kind)

Advances ==
  \/ Settles(task, task') /\ UNCHANGED <<results, current>>
  \/ Begins
  \/ \E g \in grants, outcome \in {"pass", "fail"} : \E tk : Finishes(tk, g, outcome)
  \/ Clears

\* Rows that settle one by one, in a step that leaves the results alone.
LEMMA RowwiseAdvances ==
  ASSUME \A t \in TaskIds : /\ RowSettles(t, task[t], task'[t])
                            /\ Opened(task'[t]) => Opened(task[t]),
         UNCHANGED <<results, current>>
  PROVE  Advances
  BY SettlesByRows DEF Advances

\* Stopping and skipping, in whatever scope.
LEMMA CancellingAdvances ==
  ASSUME IInv, UNCHANGED <<results, current>>,
         \A t \in TaskIds :
           \/ task'[t] = task[t]
           \/ \E error \in {"stopped", "skipped"} : task'[t] = Cancelled(task[t], error)
  PROVE  Advances
<1>1. ASSUME NEW t \in TaskIds
      PROVE  RowSettles(t, task[t], task'[t]) /\ (Opened(task'[t]) => Opened(task[t]))
  <2>1. task[t] \in Rows
    BY DEF IInv, TypeOK
  <2> QED BY <2>1, CancelledSettles, RowSettlesSame
<1> QED BY <1>1, RowwiseAdvances

\* A retry opens a skipped speed test only behind its gate.
LEMMA RetryAdvances ==
  ASSUME IInv, NEW j \in Jobs, NEW S, Retry(j, S)
  PROVE  Advances
<1>1. ASSUME NEW t \in TaskIds
      PROVE  \/ task'[t] = task[t]
             \/ Retryable(t) /\ task'[t] = Retried(task[t])
  BY DEF Retry
<1>2. ASSUME NEW t \in TaskIds PROVE RowSettles(t, task[t], task'[t])
  <2>1. task[t] \in Rows
    BY DEF IInv, TypeOK
  <2> QED BY <1>1, <2>1, RetriedSettles, RowSettlesSame DEF Retryable
<1>3. ASSUME NEW t \in TaskIds, t.stage = "speed", Opened(task'[t]), ~Opened(task[t])
      PROVE  GateOpen(task', t)
  <2>1. Retryable(t) /\ Dependent(task[t])
    BY <1>1, <1>3 DEF Opened, Retryable
  <2>2. Gate(t)
    BY <1>3, <2>1 DEF Retryable, Gated, Dependent
  <2>3. PICK u \in TaskIds : /\ u.job = t.job /\ u.on = t.on /\ u.stage = "connectivity"
                             /\ task[u].state = "done"
    BY <2>2 DEF Gate
  <2>4. task'[u].state = "done"
    BY <1>2, <2>3 DEF RowSettles
  <2>5. u \in RowsOf(Key(t.job, "connectivity", t.on))
    BY <2>3 DEF RowsOf, Key
  <2> QED BY <2>4, <2>5 DEF GateOpen
<1>4. Settles(task, task')
  BY <1>2, <1>3 DEF Settles, OpensAtGates
<1> QED BY <1>4 DEF Advances, Retry

\* The first stage of a job is never the speed test of a full job.
LEMMA FirstStageUngated ==
  ASSUME NEW j PROVE Full(j) => FirstStage(j) # "speed"
  BY DEF Full, FirstStage, Discovery

\* The rows of a new job are fresh, and none of them is behind a gate.
LEMMA CreateJobAdvances ==
  ASSUME IInv, NEW j \in Jobs, CreateJob(j)
  PROVE  Advances
<1>1. ASSUME NEW t \in TaskIds
      PROVE  \/ task'[t] = task[t]
             \/ /\ t.job = j /\ t.stage = FirstStage(j)
                /\ \E n : task'[t] = NewRow(n, "pending", 0)
  BY DEF CreateJob
<1>2. ASSUME NEW t \in TaskIds, t.job = j
      PROVE  task[t] \in Rows /\ task[t].state = "absent" /\ task[t].claims = 0
  BY <1>2 DEF CreateJob, CanCreate, IInv, TypeOK, Sound, RowHasJob, RowUnclaimed
<1>3. ASSUME NEW t \in TaskIds PROVE RowSettles(t, task[t], task'[t])
  BY <1>1, <1>2, NewRowSettles, RowSettlesSame
<1>4. ASSUME NEW t \in TaskIds, Full(t.job), t.stage = "speed" PROVE task'[t] = task[t]
  BY <1>1, <1>4, FirstStageUngated
<1>5. Settles(task, task')
  BY <1>3, <1>4 DEF Settles, OpensAtGates
<1> QED BY <1>5 DEF Advances, CreateJob

\* A claim inserts, starts, does both or neither.
LEMMA ClaimAdvances ==
  ASSUME IInv, NEW n \in Nodes, Claim(n)
  PROVE  Advances
<1>1. ASSUME NEW tk, NEW pr, NEW js, Sound(tk), Follows(task, tk), Settles(task, tk), ClaimWith(n, tk, pr, js)
      PROVE  Advances
  <2>1. CASE task' = tk
    BY <1>1, <2>1 DEF Advances, ClaimWith
  <2>2. ASSUME NEW t \in Claimable(tk, js, n),
               task' = [tk EXCEPT ![t] = Granted(tk[t])],
               grants' = grants \cup {[task |-> t, attempt |-> tk[t].claims + 1, node |-> n, gen |-> tk[t].gen]}
        PROVE  Advances
    <3>1. t \in TaskIds /\ Starts(tk, t, n)
      BY <1>1, <2>2 DEF Claimable, Starts
    <3> QED BY <1>1, <3>1 DEF Begins, Advances, ClaimWith
  <2> QED BY <1>1, <2>1, <2>2 DEF ClaimWith
<1>2. Sound(Swept(node)) /\ Follows(task, Swept(node)) /\ Settles(task, Swept(node))
  BY SweepSound, SweptSettles
<1>3. CASE ClaimWith(n, Swept(node), SweptProducers(node), SweptJobs(node))
  BY <1>1, <1>2, <1>3
<1>4. ASSUME NEW j \in Feedable(n), NEW pr, NEW js,
             InsertFits(Swept(node), Key(j, FirstStage(j), NextTarget(SweptProducers(node), j)), n),
             ClaimWith(n, Materialized(n, j), pr, js)
      PROVE  Advances
  <2> DEFINE k == Key(j, FirstStage(j), NextTarget(SweptProducers(node), j))
             uk == Materialized(n, j)
  <2>1. Sound(uk) /\ Follows(task, uk)
    BY <1>4, FeedSound
  <2>2. uk = Insert(Swept(node), k, n, "pending", SweptProducers(node)[j].gen)
    BY DEF Materialized
  <2>3. Full(k.job) => k.stage # "speed"
    BY FirstStageUngated DEF Key
  <2> HIDE DEF k, uk
  <2>4. Settles(Swept(node), uk)
    BY <1>2, <1>4, <2>2, <2>3, InsertSettles DEF k
  <2>5. Settles(task, uk)
    BY <1>2, <2>4, SettlesTransitive
  <2> QED BY <1>1, <1>4, <2>1, <2>5 DEF uk
<1> QED BY <1>3, <1>4 DEF Claim

\* A message that rewrites the row it holds: the table stays sound.
LEMMA HeldRowSound ==
  ASSUME IInv, NEW t \in TaskIds, NEW q \in Rows, RowKeeps(Swept(node)[t], q)
  PROVE  Sound([Swept(node) EXCEPT ![t] = q])
<1> DEFINE tk == Swept(node)
           uk == [tk EXCEPT ![t] = q]
<1>1. Sound(tk) /\ tk \in [TaskIds -> Rows] /\ rank \in [Jobs -> [Nodes -> Nat]]
  BY SweepSound DEF Sound, IInv, TypeOK
<1> HIDE DEF tk
<1>2. uk \in [TaskIds -> Rows] /\ \A u \in TaskIds : RowKeeps(tk[u], uk[u])
  BY <1>1 DEF RowKeeps, tk
<1> HIDE DEF uk
<1>3. Sound(uk)
  BY <1>1, <1>2, KeepsSound
<1> QED BY <1>3 DEF tk, uk

\* A message that rewrites the row it holds: the table settles when the row does.
LEMMA HeldRowSettles ==
  ASSUME IInv, NEW t \in TaskIds, NEW q,
         RowSettles(t, Swept(node)[t], q), Opened(q) => Opened(Swept(node)[t])
  PROVE  Settles(task, [Swept(node) EXCEPT ![t] = q])
<1> DEFINE tk == Swept(node)
           uk == [tk EXCEPT ![t] = q]
<1>1. Settles(task, tk) /\ tk \in [TaskIds -> Rows]
  BY SweepSound, SweptSettles DEF Sound
<1> HIDE DEF tk
<1>2. ASSUME NEW u \in TaskIds
      PROVE  RowSettles(u, tk[u], uk[u]) /\ (Opened(uk[u]) => Opened(tk[u]))
  <2>1. CASE u = t
    BY <1>1, <2>1 DEF tk
  <2>2. CASE u # t
    BY <1>1, <2>2, RowSettlesSame
  <2> QED BY <2>1, <2>2
<1> HIDE DEF uk
<1>3. Settles(tk, uk)
  BY <1>2, SettlesByRows
<1>4. Settles(task, uk)
  BY <1>1, <1>3, SettlesTransitive
<1> QED BY <1>4 DEF tk, uk

\* Progress may insert a route row, which no gate is in front of.
LEMMA ProgressAdvances ==
  ASSUME IInv, NEW g \in grants, NEW seq \in Nat, NEW hit, Progress(g, seq, hit)
  PROVE  Advances
<1> DEFINE tk == Swept(node)
           t == g.task
           q == [tk[t] EXCEPT !.seq = seq]
           acked == [tk EXCEPT ![t].seq = seq]
           k == Key(t.job, "route", hit)
<1>1. Sound(tk) /\ Settles(task, tk) /\ tk[t] \in Rows /\ t \in TaskIds
  BY SweepSound, SweptSettles DEF IInv, TypeOK, Grants, Sound
<1>2. acked = [tk EXCEPT ![t] = q]
  OBVIOUS
<1>3. ASSUME Held(tk, g, "running")
      PROVE  q \in Rows /\ RowKeeps(tk[t], q) /\ RowSettles(t, tk[t], q) /\ (Opened(q) => Opened(tk[t]))
  <2>0. tk[t].state = "running"
    BY <1>3 DEF Held
  <2> HIDE DEF tk, t
  <2>1. /\ q \in Rows /\ q.state = tk[t].state /\ q.error = tk[t].error /\ q.attempt = tk[t].attempt
        /\ q.claims = tk[t].claims /\ q.node = tk[t].node /\ q.gen = tk[t].gen
    BY <1>1 DEF Rows
  <2> QED BY <2>0, <2>1 DEF RowKeeps, RowSettles, Active, Opened, Dependent
<1>4. ASSUME Held(tk, g, "running") PROVE Sound(acked) /\ Settles(task, acked)
  <2> HIDE DEF q, t
  <2> QED BY <1>1, <1>2, <1>3, <1>4, HeldRowSound, HeldRowSettles
<1>5. CASE task' = tk
  BY <1>1, <1>5 DEF Advances, Progress
<1>6. CASE task' = acked /\ Held(tk, g, "running")
  BY <1>4, <1>6 DEF Advances, Progress
<1>7. CASE /\ task' = Insert(acked, k, g.node, "pending", tk[t].gen)
           /\ InsertFits(acked, k, g.node) /\ Held(tk, g, "running")
  <2>0. Sound(acked) /\ Settles(task, acked)
    BY <1>4, <1>7
  <2>1. k.stage = "route"
    BY DEF Key
  <2> HIDE DEF acked, k, tk, t, q
  <2>2. Settles(acked, task')
    BY <1>7, <2>0, <2>1, InsertSettles
  <2>3. Settles(task, task')
    BY <2>0, <2>2, SettlesTransitive
  <2> QED BY <2>3 DEF Advances, Progress
<1> QED BY <1>5, <1>6, <1>7 DEF Progress

\* The row of the next stage: which key, and when it waits for its dependency.
LEMMA NextRowsGate ==
  ASSUME NEW t \in TaskIds, NEW pass, NEW x \in NextRows(t, pass)
  PROVE  /\ x[1].job = t.job /\ x[2] \in {"pending", "skipped"}
         /\ x[2] = "skipped" => x[1].stage = "speed" /\ Full(x[1].job)
         /\ pass => x[2] = "pending"
         /\ (x[1].stage = "speed" /\ x[2] = "pending") =>
               pass /\ t \in RowsOf(Key(x[1].job, "connectivity", x[1].on))
         /\ NextRows(t, pass) = {x}
<1>1. CASE t.stage = "discover"
  BY <1>1 DEF NextRows, Key
<1>2. CASE t.stage = "route"
  BY <1>2 DEF NextRows, Key
<1>3. CASE t.stage = "connectivity"
  BY <1>3 DEF NextRows, Key, RowsOf
<1> QED BY <1>1, <1>2, <1>3 DEF NextRows

\* An accepted report finishes its row and schedules the next stage.
LEMMA AcceptedFinishes ==
  ASSUME IInv, NEW g \in grants, NEW outcome \in {"pass", "fail"}, Held(Swept(node), g, "running"),
         LET fin == FinishedIn(Swept(node), g, outcome)
         IN  /\ task' = WithNextRow(fin, g.task, g.node, outcome = "pass")
             /\ \A x \in NextRows(g.task, outcome = "pass") : InsertFits(fin, x[1], g.node),
         Record(g, outcome)
  PROVE  Finishes(Swept(node), g, outcome)
<1> DEFINE tk == Swept(node)
           t == g.task
           pass == outcome = "pass"
           fin == FinishedIn(tk, g, outcome)
<1>1. /\ Sound(tk) /\ Follows(task, tk) /\ Settles(task, tk)
      /\ tk \in [TaskIds -> Rows] /\ tk[t] \in Rows /\ t \in TaskIds /\ tk[t].state = "running"
  BY SweepSound, SweptSettles DEF IInv, TypeOK, Grants, Sound, Held
<1>2. Sound(fin) /\ (pass => fin[t].state = "done")
  <2> DEFINE q == Finished(tk[t], outcome)
  <2>1. q \in Rows /\ RowKeeps(tk[t], q)
    BY <1>1, FinishedKeeps
  <2>2. Sound([tk EXCEPT ![t] = q])
    BY <1>1, <2>1, HeldRowSound
  <2>3. pass => q.state = "done"
    BY <1>1 DEF Finished, Rows
  <2> QED BY <1>1, <2>2, <2>3 DEF FinishedIn
<1>3. CASE NextRows(t, pass) = {}
  BY <1>1, <1>3, SettlesSame DEF Finishes, WithNextRow
<1>4. ASSUME NEW x \in NextRows(t, pass) PROVE Finishes(tk, g, outcome)
  <2>1. /\ NextRows(t, pass) = {x} /\ x[2] \in {"pending", "skipped"}
        /\ x[2] = "skipped" => x[1].stage = "speed" /\ Full(x[1].job)
        /\ (x[1].stage = "speed" /\ x[2] = "pending") =>
              pass /\ t \in RowsOf(Key(x[1].job, "connectivity", x[1].on))
    <3> HIDE DEF pass, t, tk
    <3> QED BY <1>1, <1>4, NextRowsGate
  <2>2. (CHOOSE y \in NextRows(t, pass) : TRUE) = x
    BY <2>1
  <2>3. task' = Insert(fin, x[1], g.node, x[2], fin[t].gen) /\ InsertFits(fin, x[1], g.node)
    BY <1>4, <2>2 DEF WithNextRow
  <2> HIDE DEF fin, tk, t, pass
  <2>4. (x[1].stage = "speed" /\ x[2] = "pending") => GateOpen(fin, x[1])
    BY <1>2, <2>1 DEF GateOpen
  <2>5. /\ Settles(fin, task')
        /\ \E u \in RowsOf(x[1]) : task'[u].state # "absent" /\ (x[2] = "pending" => Opened(task'[u]))
    BY <1>2, <2>1, <2>3, <2>4, InsertSettles
  <2> QED BY <1>1, <2>1, <2>5 DEF Finishes, fin, tk, t, pass
<1> QED BY <1>3, <1>4

\* A report finishes its row, lets go of it, hands it back for another attempt, or
\* comes too late and changes nothing.
LEMMA ReportAdvances ==
  ASSUME IInv, NEW g \in grants, NEW outcome \in Outcomes, Report(g, outcome)
  PROVE  Advances
<1> DEFINE tk == Swept(node)
           t == g.task
           r == tk[t]
           fin == [tk EXCEPT ![t] = Finished(r, outcome)]
<1>1. Settles(task, tk) /\ r \in Rows /\ t \in TaskIds
  BY SweepSound, SweptSettles DEF IInv, TypeOK, Grants, Sound
<1>2. CASE /\ Held(tk, g, "cancelling") /\ UNCHANGED <<results, current>>
           /\ task' = [tk EXCEPT ![t].state = CancelledState(r)]
  <2> DEFINE q == [r EXCEPT !.state = CancelledState(r)]
  <2>1. /\ q.claims = r.claims /\ q.attempt = r.attempt /\ q.error = r.error
        /\ q.state = CancelledState(r) /\ r.state = "cancelling"
    <3>1. r.state = "cancelling"
      BY <1>2 DEF Held
    <3> HIDE DEF r
    <3> QED BY <1>1, <3>1 DEF Rows
  <2>2. task' = [tk EXCEPT ![t] = q]
    BY <1>2
  <2> HIDE DEF q
  <2>3. RowSettles(t, r, q) /\ Opened(r)
    BY <2>1 DEF RowSettles, CancelledState, Active, Opened, Dependent
  <2>4. Settles(task, task')
    BY <1>1, <2>2, <2>3, HeldRowSettles
  <2> QED BY <1>2, <2>4 DEF Advances
<1>3. CASE Held(tk, g, "running") /\ outcome = "infra" /\ task' = fin /\ Record(g, outcome)
  <2> DEFINE q == Finished(r, outcome)
  <2>1. r.state = "running"
    BY <1>3 DEF Held
  <2>2. /\ q.claims = r.claims /\ q.attempt = r.attempt /\ q.state \in {"pending", "failed"}
        /\ q.error = "fault"
    <3> HIDE DEF r
    <3> QED BY <1>1, <1>3 DEF Finished, Rows
  <2> HIDE DEF q
  <2>3. RowSettles(t, r, q) /\ Opened(r)
    BY <2>1, <2>2 DEF RowSettles, Active, Opened, Dependent
  <2>4. Settles(task, task')
    BY <1>1, <1>3, <2>3, HeldRowSettles DEF q
  <2>5. UNCHANGED <<results, current>>
    BY <1>3 DEF Record
  <2> QED BY <2>4, <2>5 DEF Advances
<1>4. CASE /\ Held(tk, g, "running") /\ outcome # "infra" /\ Record(g, outcome)
           /\ task' = WithNextRow(fin, t, g.node, outcome = "pass")
           /\ \A x \in NextRows(t, outcome = "pass") : InsertFits(fin, x[1], g.node)
  <2>1. outcome \in {"pass", "fail"}
    BY <1>4 DEF Outcomes
  <2>2. Finishes(tk, g, outcome)
    BY <1>4, <2>1, AcceptedFinishes DEF FinishedIn
  <2> QED BY <2>1, <2>2 DEF Advances
<1>5. CASE task' = tk /\ UNCHANGED <<results, current>>
  BY <1>1, <1>5 DEF Advances
<1> QED BY <1>2, <1>3, <1>4, <1>5 DEF Report

\* Every step settles, starts one row, finishes one row or clears the history.
LEMMA StepAdvances ==
  ASSUME IInv, Next PROVE Advances
<1>1. ASSUME NEW nd, Sweep(nd) PROVE Advances
  BY <1>1, SweptSettles DEF Sweep, Advances
<1>2. CASE WorkerStep
  <2>1. ASSUME NEW n \in Nodes, NEW p \in Profiles[n], Heartbeat(n, p) PROVE Advances
    BY <1>1, <2>1 DEF Heartbeat
  <2>2. ASSUME NEW g \in grants, NEW seq \in 1..MaxSeq, NEW hit, Progress(g, seq, hit) PROVE Advances
    <3>1. seq \in Nat
      BY ConstantsAssumption
    <3> QED BY <2>2, <3>1, ProgressAdvances
  <2> QED BY <1>2, <2>1, <2>2, ClaimAdvances, ReportAdvances DEF WorkerStep
<1>3. CASE OperatorStep
  <2>1. ASSUME NEW p, SetPolicy(p) PROVE Advances
    BY <2>1, SettlesSame DEF SetPolicy, Advances
  <2>2. ASSUME NEW j, CreateSelectionJob(j) PROVE Advances
    BY <2>2, SettlesSame DEF CreateSelectionJob, Advances
  <2>3. ASSUME NEW j \in Jobs, NEW S, NEW error \in {"stopped", "skipped"}, StopOrSkip(j, S, error)
        PROVE  Advances
    BY <2>3, CancellingAdvances DEF StopOrSkip
  <2>4. ASSUME NEW stage, StopStage(stage) PROVE Advances
    BY <2>4, CancellingAdvances DEF StopStage
  <2>5. ASSUME NEW n, DeleteNode(n) PROVE Advances
    BY <2>5, CancellingAdvances DEF DeleteNode
  <2>6. ASSUME NEW S, NEW kind \in ClearKinds, ClearHistory(S, kind) PROVE Advances
    BY <2>6 DEF ClearHistory, Clears, Advances
  <2>7. Poll => Advances
    BY <1>1 DEF Poll
  <2> QED BY <1>3, <2>1, <2>2, <2>3, <2>4, <2>5, <2>6, <2>7, CreateJobAdvances, RetryAdvances
          DEF OperatorStep, Stop, Skip
<1>4. CASE TimeStep
  BY <1>4, SettlesSame DEF TimeStep, LeaseRunsOut, GoSilent, Advances
<1> QED BY <1>2, <1>3, <1>4 DEF Next

\* So does a step that changes nothing.
LEMMA StutterAdvances ==
  ASSUME UNCHANGED vars PROVE Advances
  BY SettlesSame DEF vars, Advances

-----------------------------------------------------------------------------
(***************************************************************************)
(* What is done stays done.                                                *)
(***************************************************************************)
\* Rows other than the one that is started, or finished, are left alone.
LEMMA GrantedRows ==
  ASSUME NEW tk, NEW s \in TaskIds, NEW n, Starts(tk, s, n)
  PROVE  /\ tk \in [TaskIds -> Rows] /\ task' \in [TaskIds -> Rows] /\ tk[s].state = "pending"
         /\ task'[s].state = "running" /\ task'[s].claims = tk[s].claims + 1
         /\ task'[s].attempt = tk[s].claims + 1
         /\ \A t \in TaskIds \ {s} : task'[t] = tk[t]
<1>1. tk \in [TaskIds -> Rows] /\ task' = [tk EXCEPT ![s] = Granted(tk[s])] /\ tk[s].state = "pending"
  BY DEF Starts, Sound
<1> QED BY <1>1, GrantedType

\* The row that a report finishes is done or failed by its attempt.
LEMMA FinishedRows ==
  ASSUME IInv, NEW tk, NEW g \in grants, NEW outcome \in {"pass", "fail"}, Finishes(tk, g, outcome)
  PROVE  LET t   == g.task
             fin == FinishedIn(tk, g, outcome)
         IN  /\ tk \in [TaskIds -> Rows] /\ fin \in [TaskIds -> Rows] /\ t \in TaskIds
             /\ tk[t].state = "running" /\ tk[t].attempt = g.attempt /\ tk[t].node = g.node
             /\ fin[t].state = (IF outcome = "pass" THEN "done" ELSE "failed")
             /\ fin[t].attempt = tk[t].attempt /\ fin[t].claims = tk[t].claims
             /\ \A u \in TaskIds \ {t} : fin[u] = tk[u]
<1> DEFINE q == Finished(tk[g.task], outcome)
<1>1. tk \in [TaskIds -> Rows] /\ g.task \in TaskIds /\ tk[g.task].state = "running"
        /\ tk[g.task].attempt = g.attempt /\ tk[g.task].node = g.node
  BY DEF Finishes, Sound, IInv, TypeOK, Grants, Held
<1>2. q \in Rows
  BY <1>1, FinishedKeeps
<1>3. /\ q.state = (IF outcome = "pass" THEN "done" ELSE "failed")
      /\ q.attempt = tk[g.task].attempt /\ q.claims = tk[g.task].claims
  BY <1>1 DEF Finished, Rows
<1> HIDE DEF q
<1> QED BY <1>1, <1>2, <1>3 DEF FinishedIn, q

\* No step changes a row that is done.
LEMMA DoneStays ==
  ASSUME IInv, Advances, NEW t \in TaskIds, task[t].state = "done"
  PROVE  task'[t] = task[t]
<1>1. ASSUME NEW tk, NEW uk, Settles(tk, uk), tk[t].state = "done" PROVE uk[t] = tk[t]
  BY <1>1 DEF Settles, RowSettles
<1>2. ASSUME NEW tk, NEW s \in TaskIds, NEW n, Settles(task, tk), Starts(tk, s, n)
      PROVE  task'[t] = task[t]
  <2>1. tk[t] = task[t] /\ tk[t].state = "done"
    BY <1>1, <1>2
  <2>2. tk[s].state = "pending" /\ \A u \in TaskIds \ {s} : task'[u] = tk[u]
    BY <1>2, GrantedRows
  <2> QED BY <2>1, <2>2
<1>3. ASSUME NEW tk, NEW g \in grants, NEW outcome \in {"pass", "fail"}, Finishes(tk, g, outcome)
      PROVE  task'[t] = task[t]
  <2> DEFINE fin == FinishedIn(tk, g, outcome)
  <2>1. tk[t] = task[t] /\ t # g.task
    BY <1>1, <1>3, FinishedRows DEF Finishes
  <2>2. fin[t] = tk[t]
    BY <1>3, <2>1, FinishedRows
  <2> QED BY <1>1, <1>3, <2>1, <2>2 DEF Finishes
<1> QED BY <1>1, <1>2, <1>3 DEF Advances, Begins, Clears

\* No expiry, transfer, retry, repeated insertion or late message takes back what
\* passed.
THEOREM DoneNeverTakenBack == Spec => DoneIsFinal
<1> DEFINE Kept == \A t \in TaskIds : task[t].state = "done" => task'[t] = task[t]
<1>1. IInv /\ [Next]_vars => [Kept]_vars
  BY StepAdvances, DoneStays
<1> QED BY <1>1, Inductive, PTL DEF Spec, DoneIsFinal

-----------------------------------------------------------------------------
(***************************************************************************)
(* The results.  An active row holds the latest attempt that was issued,   *)
(* so its results are of earlier ones; and the projection of a test is the *)
(* result of its latest attempt.                                           *)
(***************************************************************************)
AttemptsLatest(tk) ==
  \A t \in TaskIds : tk[t].state \in Active => tk[t].attempt = tk[t].claims /\ tk[t].claims > 0

ResultFits(tk, r) ==
  /\ r.attempt > 0 /\ r.attempt <= tk[r.task].claims
  /\ r.attempt = tk[r.task].attempt => tk[r.task].state = IF r.pass THEN "done" ELSE "failed"

Recorded(tk, rs, t) ==
  (t.stage \in TestStages /\ tk[t].state = "done") =>
     \E r \in rs : r.task = t /\ r.attempt = tk[t].attempt /\ r.pass

ResultsFit(tk, rs) ==
  /\ AttemptsLatest(tk)
  /\ \A r \in rs : ResultFits(tk, r)
  /\ ClearKinds = {} => \A t \in TaskIds : Recorded(tk, rs, t)

ProjectionFits(cur, rs, k) ==
  cur[k] # NoResult =>
    /\ cur[k] \in rs
    /\ cur[k].task.on = k[1] /\ cur[k].task.stage = k[2] /\ JobSpec[cur[k].task.job].managed
    /\ \A r \in rs : r.task = cur[k].task => r.attempt <= cur[k].attempt

ResultsInv ==
  /\ ResultsFit(task, results)
  /\ \A k \in Ips \X TestStages : ProjectionFits(current, results, k)

\* What settles keeps the results in place.
LEMMA SettlesKeepsResults ==
  ASSUME NEW tk \in [TaskIds -> Rows], NEW uk \in [TaskIds -> Rows], Settles(tk, uk),
         NEW rs \in SUBSET Results, ResultsFit(tk, rs)
  PROVE  ResultsFit(uk, rs)
<1>1. \A t \in TaskIds : RowSettles(t, tk[t], uk[t])
  BY DEF Settles
<1>2. AttemptsLatest(uk)
  BY <1>1 DEF ResultsFit, AttemptsLatest, RowSettles
<1>3. ASSUME NEW r \in rs PROVE ResultFits(uk, r)
  <2>1. r.task \in TaskIds /\ r.attempt \in Nat /\ r.pass \in BOOLEAN
    BY DEF Results
  <2>2. ResultFits(tk, r) /\ RowSettles(r.task, tk[r.task], uk[r.task])
    BY <1>1, <2>1 DEF ResultsFit
  <2> QED BY <2>1, <2>2 DEF ResultFits, RowSettles, NoClaimYet
<1>4. ASSUME NEW t \in TaskIds, Recorded(tk, rs, t) PROVE Recorded(uk, rs, t)
  BY <1>1, <1>4 DEF Recorded, RowSettles
<1> QED BY <1>2, <1>3, <1>4 DEF ResultsFit

\* A fresh attempt is later than every result of its row.
LEMMA StartKeepsResults ==
  ASSUME NEW tk, NEW s \in TaskIds, NEW n, Starts(tk, s, n),
         NEW rs \in SUBSET Results, ResultsFit(tk, rs)
  PROVE  ResultsFit(task', rs)
<1>1. /\ tk \in [TaskIds -> Rows] /\ tk[s].state = "pending" /\ task'[s].state = "running"
      /\ task'[s].claims = tk[s].claims + 1 /\ task'[s].attempt = tk[s].claims + 1
      /\ \A t \in TaskIds \ {s} : task'[t] = tk[t]
  BY GrantedRows
<1>2. \A t \in TaskIds : tk[t].claims \in Nat
  BY <1>1 DEF Rows
<1>3. AttemptsLatest(task')
  BY <1>1, <1>2 DEF ResultsFit, AttemptsLatest
<1>4. ASSUME NEW r \in rs PROVE ResultFits(task', r)
  <2>1. r.task \in TaskIds /\ r.attempt \in Nat /\ ResultFits(tk, r)
    BY DEF Results, ResultsFit
  <2> QED BY <1>1, <1>2, <2>1 DEF ResultFits
<1>5. ASSUME NEW t \in TaskIds, Recorded(tk, rs, t) PROVE Recorded(task', rs, t)
  <2>1. task'[t].state = "done" => task'[t] = tk[t]
    BY <1>1
  <2> QED BY <1>5, <2>1 DEF Recorded
<1> QED BY <1>3, <1>4, <1>5 DEF ResultsFit

\* The result of the attempt that held the row is its latest, and says how it ended.
LEMMA FinishKeepsResults ==
  ASSUME IInv, NEW tk, NEW g \in grants, NEW outcome \in {"pass", "fail"}, Finishes(tk, g, outcome),
         ResultsFit(tk, results)
  PROVE  ResultsFit(FinishedIn(tk, g, outcome), results')
<1> DEFINE t   == g.task
           fin == FinishedIn(tk, g, outcome)
           new == ResultOf(g, outcome)
<1>1. /\ tk \in [TaskIds -> Rows] /\ t \in TaskIds /\ tk[t].state = "running"
      /\ tk[t].attempt = g.attempt
      /\ fin[t].state = (IF outcome = "pass" THEN "done" ELSE "failed")
      /\ fin[t].attempt = tk[t].attempt /\ fin[t].claims = tk[t].claims
      /\ \A u \in TaskIds \ {t} : fin[u] = tk[u]
  BY FinishedRows
<1>2. tk[t].attempt = tk[t].claims /\ tk[t].claims > 0 /\ tk[t].claims \in Nat
  BY <1>1 DEF ResultsFit, AttemptsLatest, Active, Rows
<1>3. new.task = t /\ new.attempt = g.attempt /\ new.pass = (outcome = "pass")
  BY DEF ResultOf
<1>4. /\ results' = (IF t.stage \in TestStages THEN results \cup {new} ELSE results)
      /\ results \subseteq Results
  BY DEF Finishes, Record, IInv, TypeOK
<1> HIDE DEF fin, new, t
<1>5. AttemptsLatest(fin)
  BY <1>1 DEF ResultsFit, AttemptsLatest, Active
<1>6. ASSUME NEW r \in results PROVE ResultFits(fin, r)
  <2>1. r.task \in TaskIds /\ r.attempt \in Nat /\ ResultFits(tk, r)
    BY <1>4 DEF Results, ResultsFit
  <2> QED BY <1>1, <2>1 DEF ResultFits
<1>7. ResultFits(fin, new)
  <2>1. fin[new.task].state = (IF new.pass THEN "done" ELSE "failed")
    BY <1>1, <1>3
  <2>2. new.attempt = tk[t].claims /\ fin[new.task].claims = tk[t].claims
    BY <1>1, <1>2, <1>3
  <2> QED BY <1>2, <2>1, <2>2 DEF ResultFits
<1>8. ASSUME NEW u \in TaskIds, Recorded(tk, results, u) PROVE Recorded(fin, results', u)
  <2>1. CASE u = t
    BY <1>1, <1>3, <1>4, <2>1 DEF Recorded
  <2>2. CASE u # t
    BY <1>1, <1>4, <1>8, <2>2 DEF Recorded
  <2> QED BY <2>1, <2>2
<1>9. \A r \in results' : ResultFits(fin, r)
  BY <1>4, <1>6, <1>7
<1>10. ClearKinds = {} => \A u \in TaskIds : Recorded(fin, results', u)
  BY <1>8 DEF ResultsFit
<1> QED BY <1>5, <1>9, <1>10 DEF ResultsFit, fin

\* A result that is projected is the latest of its row, and displaces only an older one.
LEMMA FinishKeepsProjection ==
  ASSUME IInv, ResultsInv, NEW tk, NEW g \in grants, NEW outcome \in {"pass", "fail"},
         Finishes(tk, g, outcome), ResultsFit(tk, results), NEW k \in Ips \X TestStages
  PROVE  ProjectionFits(current', results', k)
<1> DEFINE t   == g.task
           new == ResultOf(g, outcome)
<1>1. /\ tk \in [TaskIds -> Rows] /\ t \in TaskIds /\ tk[t].state = "running"
      /\ tk[t].attempt = g.attempt /\ tk[t].node = g.node
  BY FinishedRows
<1>2. g.attempt = tk[t].claims /\ tk[t].claims \in Nat /\ tk[t].gen \in Nat
      /\ t.job \in Jobs /\ g.node \in Nodes
  BY <1>1, TaskJob DEF ResultsFit, AttemptsLatest, Active, Rows
<1>3. JobSpec[t.job].managed => Projects(g)
  <2>1. RowMonotone(t, tk[t]) /\ rank[t.job][g.node] \in Nat
    BY <1>1, <1>2 DEF Finishes, Sound, IInv, TypeOK
  <2> QED BY <1>1, <1>2, <2>1 DEF RowMonotone, Projects
<1>4. new.task = t /\ new.attempt = g.attempt
  BY DEF ResultOf
<1>5. \A r \in results : r.task = t => r.attempt <= g.attempt
  BY <1>2 DEF ResultsFit, ResultFits
<1>6. ProjectionFits(current, results, k) /\ current \in [Ips \X TestStages -> Results \cup {NoResult}]
  BY DEF ResultsInv, IInv, TypeOK
<1>7. CASE t.stage \notin TestStages
  BY <1>6, <1>7 DEF Finishes, Record
<1>8. CASE t.stage \in TestStages
  <2>1. /\ results' = results \cup {new}
        /\ current' = IF Projects(g) THEN [current EXCEPT ![<<t.on, t.stage>>] = new] ELSE current
    BY <1>8 DEF Finishes, Record
  <2> HIDE DEF new
  <2>2. CASE Projects(g) /\ k = <<t.on, t.stage>>
    <3>1. current'[k] = new /\ new \in results'
      BY <1>6, <2>1, <2>2
    <3>2. new.task.on = k[1] /\ new.task.stage = k[2] /\ JobSpec[new.task.job].managed
      BY <1>4, <2>2 DEF Projects
    <3>3. \A r \in results' : r.task = t => r.attempt <= g.attempt
      BY <1>2, <1>4, <1>5, <2>1
    <3> QED BY <1>4, <3>1, <3>2, <3>3 DEF ProjectionFits
  <2>3. CASE ~(Projects(g) /\ k = <<t.on, t.stage>>)
    <3>1. current'[k] = current[k]
      BY <1>6, <2>1, <2>3
    <3>2. ASSUME current[k] # NoResult PROVE current[k].task # t
      <4>1. current[k].task.on = k[1] /\ current[k].task.stage = k[2] /\ JobSpec[current[k].task.job].managed
        BY <1>6, <3>2 DEF ProjectionFits
      <4>2. k = <<k[1], k[2]>>
        OBVIOUS
      <4> QED BY <1>3, <2>3, <4>1, <4>2
    <3> QED BY <1>4, <1>6, <2>1, <3>1, <3>2 DEF ProjectionFits
  <2> QED BY <2>2, <2>3
<1> QED BY <1>7, <1>8

\* Every step keeps the results and their projection in place.
LEMMA ResultsKept ==
  ASSUME IInv, IInv', Advances, ResultsInv PROVE ResultsInv'
<1>1. /\ task \in [TaskIds -> Rows] /\ task' \in [TaskIds -> Rows]
      /\ results \in SUBSET Results /\ results' \in SUBSET Results
  BY DEF IInv, TypeOK
<1>2. /\ ResultsFit(task, results)
      /\ \A k \in Ips \X TestStages : ProjectionFits(current, results, k)
  BY DEF ResultsInv
<1>3. ASSUME NEW tk \in [TaskIds -> Rows], Settles(task, tk) PROVE ResultsFit(tk, results)
  BY <1>1, <1>2, <1>3, SettlesKeepsResults
<1>4. CASE Settles(task, task') /\ UNCHANGED <<results, current>>
  BY <1>1, <1>2, <1>3, <1>4 DEF ResultsInv
<1>5. CASE Begins
  <2>1. PICK tk : \E t \in TaskIds, n \in Nodes : Settles(task, tk) /\ Starts(tk, t, n)
    BY <1>5 DEF Begins
  <2>2. ResultsFit(tk, results)
    BY <1>3, <2>1 DEF Starts, Sound
  <2>3. ResultsFit(task', results)
    BY <1>1, <2>1, <2>2, StartKeepsResults
  <2> QED BY <1>2, <1>5, <2>3 DEF Begins, ResultsInv
<1>6. ASSUME NEW g \in grants, NEW outcome \in {"pass", "fail"}, NEW tk, Finishes(tk, g, outcome)
      PROVE  ResultsInv'
  <2> DEFINE fin == FinishedIn(tk, g, outcome)
  <2>1. ResultsFit(tk, results)
    BY <1>3, <1>6 DEF Finishes, Sound
  <2>2. ResultsFit(fin, results') /\ fin \in [TaskIds -> Rows] /\ Settles(fin, task')
    BY <1>6, <2>1, FinishKeepsResults, FinishedRows DEF Finishes
  <2> HIDE DEF fin
  <2>3. ResultsFit(task', results')
    BY <1>1, <2>2, SettlesKeepsResults
  <2>4. \A k \in Ips \X TestStages : ProjectionFits(current', results', k)
    BY <1>6, <2>1, FinishKeepsProjection
  <2> QED BY <2>3, <2>4 DEF ResultsInv
<1>7. CASE Clears
  <2>1. PICK S : \E kind \in ClearKinds : ClearHistory(S, kind)
    BY <1>7 DEF Clears
  <2>2. PICK kind \in ClearKinds : ClearHistory(S, kind)
    BY <2>1
  <2> DEFINE gone == {r \in results : r.node \in S /\ r.task.stage = kind}
  <2>3. /\ task' = task /\ results' = results \ gone
        /\ current' = [k \in Ips \X TestStages |-> IF current[k] \in gone THEN NoResult ELSE current[k]]
    BY <1>7, <2>2 DEF ClearHistory, Clears
  <2> HIDE DEF gone
  <2>4. ResultsFit(task', results')
    BY <1>2, <2>2, <2>3 DEF ResultsFit
  <2>5. \A k \in Ips \X TestStages : ProjectionFits(current', results', k)
    BY <1>2, <2>3 DEF ProjectionFits
  <2> QED BY <2>4, <2>5 DEF ResultsInv
<1> QED BY <1>4, <1>5, <1>6, <1>7 DEF Advances

LEMMA ResultsInvariant == Spec => []ResultsInv
<1>1. Init => ResultsInv
  <2>1. NoRow.state \notin Active /\ NoRow.state # "done"
    BY DEF NoRow, Active
  <2> QED BY <2>1 DEF Init, ResultsInv, ResultsFit, AttemptsLatest, Recorded, ProjectionFits
<1>2. IInv /\ IInv' /\ ResultsInv /\ [Next]_vars => ResultsInv'
  BY StepAdvances, StutterAdvances, ResultsKept
<1> QED BY <1>1, <1>2, Inductive, PTL DEF Spec

\* Whatever is delivered late or twice, an attempt has at most one result, one that
\* its row still holds says how the row ended, and a test that passed has its result.
THEOREM ResultsEndAttempts == Spec => []ResultEndsAttempt
<1>1. IInv /\ ResultsInv /\ Fenced!OneResultPerAttempt => ResultEndsAttempt
  BY DEF ResultsInv, ResultsFit, ResultFits, Recorded, Fenced!OneResultPerAttempt, ResultEndsAttempt
<1> QED BY <1>1, Inductive, ResultsInvariant, AttemptsHaveOneResult, PTL

\* What users are shown for a host and stage is in the history, and no later
\* attempt of the same row has a result.
THEOREM ProjectionIsFresh == Spec => []ProjectionFresh
<1>1. ResultsInv => ProjectionFresh
  BY DEF ResultsInv, ProjectionFits, ProjectionFresh
<1> QED BY <1>1, ResultsInvariant, PTL
-----------------------------------------------------------------------------
(***************************************************************************)
(* The gate.  Whatever state a speed test of a full job is in, unless it   *)
(* still waits for its dependency, a connectivity test of its job and host *)
(* is done; so the gate is kept where SpeedGated does not look at it.      *)
(***************************************************************************)
GatesSound(tk) ==
  \A t \in TaskIds : (Full(t.job) /\ t.stage = "speed" /\ Opened(tk[t])) => GateOpen(tk, t)

\* What settles keeps every gate, and opens none that is shut.
LEMMA SettlesKeepsGates ==
  ASSUME NEW tk, NEW uk, Settles(tk, uk), GatesSound(tk)
  PROVE  GatesSound(uk)
  BY GateStaysOpen DEF GatesSound, Settles, OpensAtGates

\* So do rows that were open already, as long as what is done stays done.
LEMMA OpenRowsKeepGates ==
  ASSUME NEW tk, NEW uk, GatesSound(tk),
         \A t \in TaskIds : /\ Opened(uk[t]) => Opened(tk[t])
                            /\ tk[t].state = "done" => uk[t].state = "done"
  PROVE  GatesSound(uk)
  BY DEF GatesSound, GateOpen, RowsOf

\* Every step keeps the gates.
LEMMA GatesKept ==
  ASSUME IInv, Advances, GatesSound(task) PROVE GatesSound(task')
<1>1. ASSUME NEW tk, NEW s \in TaskIds, NEW n, Settles(task, tk), Starts(tk, s, n)
      PROVE  GatesSound(task')
  <2>1. GatesSound(tk)
    BY <1>1, SettlesKeepsGates
  <2>2. /\ tk[s].state = "pending" /\ task'[s].state = "running"
        /\ \A t \in TaskIds \ {s} : task'[t] = tk[t]
    BY <1>1, GrantedRows
  <2>3. \A t \in TaskIds : /\ Opened(task'[t]) => Opened(tk[t])
                           /\ tk[t].state = "done" => task'[t].state = "done"
    BY <2>2 DEF Opened, Dependent
  <2> QED BY <2>1, <2>3, OpenRowsKeepGates
<1>2. ASSUME NEW tk, NEW g \in grants, NEW outcome \in {"pass", "fail"}, Finishes(tk, g, outcome)
      PROVE  GatesSound(task')
  <2> DEFINE fin == FinishedIn(tk, g, outcome)
  <2>1. GatesSound(tk) /\ Settles(fin, task')
    BY <1>2, SettlesKeepsGates DEF Finishes
  <2>2. tk[g.task].state = "running" /\ \A t \in TaskIds \ {g.task} : fin[t] = tk[t]
    BY <1>2, FinishedRows
  <2> HIDE DEF fin
  <2>3. \A t \in TaskIds : /\ Opened(fin[t]) => Opened(tk[t])
                           /\ tk[t].state = "done" => fin[t].state = "done"
    BY <2>2 DEF Opened, Dependent
  <2>4. GatesSound(fin)
    BY <2>1, <2>3, OpenRowsKeepGates
  <2> QED BY <2>1, <2>4, SettlesKeepsGates
<1> QED BY <1>1, <1>2, SettlesKeepsGates DEF Advances, Begins, Clears

LEMMA GatesInvariant == Spec => []GatesSound(task)
<1>1. Init => GatesSound(task)
  <2>1. ~Opened(NoRow)
    BY DEF NoRow, Opened
  <2> QED BY <2>1 DEF Init, GatesSound
<1>2. IInv /\ GatesSound(task) /\ [Next]_vars => GatesSound(task)'
  BY StepAdvances, StutterAdvances, GatesKept
<1> QED BY <1>1, <1>2, Inductive, PTL DEF Spec

\* A full job measures speed only behind a connectivity test that passed, whichever
\* insertions, retries, transfers and stops came in between.
THEOREM SpeedIsGated == Spec => []SpeedGated
<1>1. GatesSound(task) => SpeedGated
  BY DEF GatesSound, GateOpen, Opened, Dependent, SpeedGated
<1> QED BY <1>1, GatesInvariant, PTL
-----------------------------------------------------------------------------
(***************************************************************************)
(* The states of jobs.  A stopped job is quiet; the state of any other job *)
(* is the one that refreshing it would give.                               *)
(***************************************************************************)
Quiet(tk, pr, j) ==
  /\ ~LiveProducer(pr[j])
  /\ \A t \in TaskIds : t.job = j => tk[t].state \notin {"pending", "running"}

JobAgrees(st, tk, pr, j) ==
  /\ st = "stopped" => Quiet(tk, pr, j)
  /\ st \notin {"absent", "stopped"} => st = DerivedState(tk, pr, j)

JobsAgree(js, tk, pr) == \A j \in Jobs : JobAgrees(js[j], tk, pr, j)

HasLive(tk, pr, j) ==
  LiveProducer(pr[j]) \/ \E t \in TaskIds : t.job = j /\ tk[t].state \in Live

HasFailed(tk, j) == \E t \in TaskIds : t.job = j /\ tk[t].state = "failed"

\* The derived state, by what it looks at.
LEMMA DerivedFrom ==
  ASSUME NEW tk, NEW pr, NEW j
  PROVE  DerivedState(tk, pr, j) =
           IF HasLive(tk, pr, j) THEN "running" ELSE IF HasFailed(tk, j) THEN "failed" ELSE "done"
<1>1. CASE HasLive(tk, pr, j)
  BY <1>1 DEF DerivedState, HasLive
<1>2. CASE ~HasLive(tk, pr, j) /\ HasFailed(tk, j)
  BY <1>2 DEF DerivedState, HasLive, HasFailed
<1>3. CASE ~HasLive(tk, pr, j) /\ ~HasFailed(tk, j)
  BY <1>3 DEF DerivedState, HasLive, HasFailed
<1> QED BY <1>1, <1>2, <1>3

\* A job none of whose rows becomes live, ends or fails, or stops being so, keeps its state.
LEMMA AgreesAlike ==
  ASSUME NEW tk, NEW uk, NEW pr, NEW qr, NEW j, NEW st, JobAgrees(st, tk, pr, j),
         LiveProducer(qr[j]) <=> LiveProducer(pr[j]),
         \A t \in TaskIds : t.job = j =>
            /\ uk[t].state \in Live <=> tk[t].state \in Live
            /\ uk[t].state = "failed" <=> tk[t].state = "failed",
         st = "stopped" => Quiet(uk, qr, j)
  PROVE  JobAgrees(st, uk, qr, j)
<1>1. HasLive(uk, qr, j) <=> HasLive(tk, pr, j)
  BY DEF HasLive
<1>2. HasFailed(uk, j) <=> HasFailed(tk, j)
  BY DEF HasFailed
<1> QED BY <1>1, <1>2, DerivedFrom DEF JobAgrees

\* What happens to the rows and the producers of other jobs does not matter.
LEMMA AgreesElsewhere ==
  ASSUME NEW tk, NEW uk, NEW pr, NEW qr, NEW j, NEW st, JobAgrees(st, tk, pr, j), qr[j] = pr[j],
         \A t \in TaskIds : t.job = j => uk[t] = tk[t]
  PROVE  JobAgrees(st, uk, qr, j)
<1>1. Quiet(tk, pr, j) => Quiet(uk, qr, j)
  BY DEF Quiet
<1>2. st = "stopped" => Quiet(tk, pr, j)
  BY DEF JobAgrees
<1> QED BY <1>1, <1>2, AgreesAlike

\* A job that is refreshed agrees.
LEMMA RefreshAgrees ==
  ASSUME NEW js, NEW tk, NEW pr, NEW S, NEW j \in Jobs, j \in S, js[j] = "stopped" => Quiet(tk, pr, j)
  PROVE  JobAgrees(Refresh(js, tk, pr, S)[j], tk, pr, j)
<1>1. DerivedState(tk, pr, j) \in {"running", "failed", "done"}
  BY DerivedFrom
<1>2. Refresh(js, tk, pr, S)[j] =
        IF js[j] \notin {"absent", "stopped"} THEN DerivedState(tk, pr, j) ELSE js[j]
  BY DEF Refresh
<1> QED BY <1>1, <1>2 DEF JobAgrees

\* The sweep makes no row of a quiet job pending or running.
LEMMA SweptQuiet ==
  ASSUME IInv, NEW nd, NEW j \in Jobs, jobState[j] = "stopped", Quiet(task, producer, j)
  PROVE  Quiet(Swept(nd), SweptProducers(nd), j)
<1>1. ~LiveProducer(SweptProducers(nd)[j])
  BY DEF Quiet, SweptProducers, SweptProducer
<1>2. ASSUME NEW t \in TaskIds, t.job = j PROVE Swept(nd)[t].state \notin {"pending", "running"}
  <2> DEFINE r == ExpiredRow(nd, t)
  <2>1. task[t].state \notin {"pending", "running"} /\ task[t] \in Rows
    BY <1>2 DEF Quiet, IInv, TypeOK
  <2>2. r = task[t] \/ r = [task[t] EXCEPT !.state = CancelledState(task[t]), !.error = "fault"]
    BY <2>1 DEF ExpiredRow, LeaseLost, Active
  <2> HIDE DEF r
  <2>3. r.state \notin {"pending", "running"}
    BY <2>1, <2>2 DEF CancelledState, Rows
  <2>4. Swept(nd)[t] = r
    BY <2>3 DEF Swept, SweptRow, r
  <2> QED BY <2>3, <2>4
<1> QED BY <1>1, <1>2 DEF Quiet

\* The sweep's second half keeps the states that the first half gave.
LEMMA SweptState ==
  ASSUME IInv, NEW nd, NEW t \in TaskIds
  PROVE  Swept(nd)[t].state = ExpiredRow(nd, t).state
<1> DEFINE r == ExpiredRow(nd, t)
<1>1. r \in Rows
  BY ExpiredRowSound DEF IInv, TypeOK
<1>2. Swept(nd)[t] = SweptRow(nd, t)
  BY DEF Swept
<1>3. \/ SweptRow(nd, t) = r
      \/ r.state = "pending" /\ SweptRow(nd, t) = FailOver(nd, t, r)
      \/ SweptRow(nd, t) = [r EXCEPT !.waiting = FALSE, !.error = ""]
  BY DEF SweptRow
<1> HIDE DEF r
<1>4. r.state = "pending" => FailOver(nd, t, r).state = "pending"
  BY <1>1 DEF FailOver, Park, Transfer, Rows
<1>5. [r EXCEPT !.waiting = FALSE, !.error = ""].state = r.state
  BY <1>1 DEF Rows
<1> QED BY <1>2, <1>3, <1>4, <1>5 DEF r

\* The sweep refreshes every job whose state it may have changed.
LEMMA SweptAgree ==
  ASSUME IInv, JobsAgree(jobState, task, producer), NEW nd
  PROVE  JobsAgree(SweptJobs(nd), Swept(nd), SweptProducers(nd))
<1> SUFFICES ASSUME NEW j \in Jobs
             PROVE  JobAgrees(SweptJobs(nd)[j], Swept(nd), SweptProducers(nd), j)
  BY DEF JobsAgree
<1>1. JobAgrees(jobState[j], task, producer, j)
  BY DEF JobsAgree
<1>2. jobState[j] = "stopped" => Quiet(Swept(nd), SweptProducers(nd), j)
  BY <1>1, SweptQuiet DEF JobAgrees
<1>3. CASE j \in EndedJobs(nd)
  BY <1>2, <1>3, RefreshAgrees DEF SweptJobs
<1>4. CASE j \notin EndedJobs(nd)
  <2>1. SweptJobs(nd)[j] = jobState[j]
    BY <1>4 DEF SweptJobs, Refresh
  <2>2. ASSUME NEW t \in TaskIds, t.job = j
        PROVE  /\ Swept(nd)[t].state \in Live <=> task[t].state \in Live
               /\ Swept(nd)[t].state = "failed" <=> task[t].state = "failed"
    <3> DEFINE r == ExpiredRow(nd, t)
    <3>1. /\ Swept(nd)[t].state = r.state /\ r \in Rows /\ task[t] \in Rows
          /\ task[t].state # "absent" => r.state # "absent"
      BY SweptState, ExpiredRowSound, ExpiredSettles DEF IInv, TypeOK, RowSettles
    <3>2. CASE task[t].state \in Active /\ t \notin leased
      <4>1. r.state \notin Terminal
        BY <1>4, <2>2, <3>2 DEF EndedJobs
      <4> HIDE DEF r
      <4>2. r.state \in Live
        BY <3>1, <3>2, <4>1 DEF Rows, Active
      <4> QED BY <3>1, <3>2, <4>1, <4>2 DEF Live, Active, Terminal
    <3>3. CASE ~(task[t].state \in Active /\ t \notin leased)
      <4>1. r = task[t]
        BY <3>3 DEF ExpiredRow
      <4> QED BY <3>1, <4>1
    <3> QED BY <3>2, <3>3
  <2>3. LiveProducer(SweptProducers(nd)[j]) <=> LiveProducer(producer[j])
    <3>1. producer[j] \in ProducerRows
      BY DEF IInv, TypeOK
    <3> QED BY <3>1 DEF SweptProducers, SweptProducer, LiveProducer, ProducerRows
  <2> QED BY <1>1, <1>2, <2>1, <2>2, <2>3, AgreesAlike
<1> QED BY <1>3, <1>4
\* An insertion touches rows of its own key only.
LEMMA InsertElsewhere ==
  ASSUME NEW tk, NEW k, NEW n, NEW st, NEW g, InsertFits(tk, k, n), NEW t \in TaskIds, t \notin RowsOf(k)
  PROVE  Insert(tk, k, n, st, g)[t] = tk[t]
<1>1. CASE Present(tk, k, n) # {}
  BY <1>1 DEF Insert, Present
<1>2. CASE Present(tk, k, n) = {}
  <2> DEFINE new == CHOOSE u \in Unused(tk, k) : TRUE
  <2>1. new \in Unused(tk, k)
    BY <1>2 DEF InsertFits
  <2>2. t # new
    BY <2>1 DEF Unused
  <2> HIDE DEF new
  <2> QED BY <1>2, <2>2 DEF Insert, new
<1> QED BY <1>1, <1>2

\* A job with a running row is running, and agrees for as long as the row runs.
LEMMA RunningAgrees ==
  ASSUME NEW tk, NEW pr, NEW j, NEW st, st # "absent", JobAgrees(st, tk, pr, j),
         NEW t \in TaskIds, t.job = j, tk[t].state = "running",
         NEW uk, NEW qr, uk[t].state = "running"
  PROVE  st = "running" /\ JobAgrees(st, uk, qr, j)
<1>1. HasLive(tk, pr, j) /\ HasLive(uk, qr, j) /\ ~Quiet(tk, pr, j)
  BY DEF HasLive, Live, Active, Quiet
<1> QED BY <1>1, DerivedFrom DEF JobAgrees

\* A claim starts a row of a running job at most.
LEMMA ClaimWithAgrees ==
  ASSUME NEW n, NEW tk \in [TaskIds -> Rows], NEW pr, NEW js, JobsAgree(js, tk, pr), ClaimWith(n, tk, pr, js)
  PROVE  JobsAgree(jobState', task', producer')
<1>1. producer' = pr /\ jobState' = js
  BY DEF ClaimWith
<1>2. CASE task' = tk
  BY <1>1, <1>2
<1>3. ASSUME NEW t \in Claimable(tk, js, n), task' = [tk EXCEPT ![t] = Granted(tk[t])]
      PROVE  JobsAgree(js, task', pr)
  <2>1. t \in TaskIds /\ tk[t].state = "pending" /\ js[t.job] = "running"
    BY DEF Claimable
  <2>2. /\ task'[t].state = "running"
        /\ \A u \in TaskIds \ {t} : task'[u] = tk[u]
    BY <1>3, <2>1, GrantedType
  <2>3. ASSUME NEW j \in Jobs PROVE JobAgrees(js[j], task', pr, j)
    <3>1. JobAgrees(js[j], tk, pr, j)
      BY DEF JobsAgree
    <3>2. CASE j = t.job
      <4>1. \A u \in TaskIds : /\ task'[u].state \in Live <=> tk[u].state \in Live
                               /\ task'[u].state = "failed" <=> tk[u].state = "failed"
        BY <2>1, <2>2 DEF Live, Active
      <4> QED BY <2>1, <3>1, <3>2, <4>1, AgreesAlike
    <3>3. CASE j # t.job
      <4>1. \A u \in TaskIds : u.job = j => task'[u] = tk[u]
        BY <2>2, <3>3
      <4> QED BY <3>1, <4>1, AgreesElsewhere
    <3> QED BY <3>2, <3>3
  <2> QED BY <2>3 DEF JobsAgree
<1> QED BY <1>1, <1>2, <1>3 DEF ClaimWith

\* A job whose producer is fed is refreshed, the others are left alone.
LEMMA ClaimAgrees ==
  ASSUME IInv, JobsAgree(jobState, task, producer), NEW n \in Nodes, Claim(n)
  PROVE  JobsAgree(jobState', task', producer')
<1> DEFINE tk == Swept(node)
           pr == SweptProducers(node)
           js == SweptJobs(node)
<1>1. JobsAgree(js, tk, pr) /\ tk \in [TaskIds -> Rows]
  BY SweptAgree, SweepSound DEF Sound
<1>2. CASE ClaimWith(n, tk, pr, js)
  <2> HIDE DEF tk, pr, js
  <2> QED BY <1>1, <1>2, ClaimWithAgrees
<1>3. ASSUME NEW j \in Feedable(n),
             LET k == Key(j, FirstStage(j), NextTarget(SweptProducers(node), j))
                 q == [SweptProducers(node) EXCEPT ![j] = FedProducer(SweptProducer(node, j), j)]
             IN  /\ InsertFits(Swept(node), k, n)
                 /\ ClaimWith(n, Materialized(n, j), q,
                              Refresh(SweptJobs(node), Materialized(n, j), q, {j}))
      PROVE  JobsAgree(jobState', task', producer')
  <2> DEFINE k  == Key(j, FirstStage(j), NextTarget(pr, j))
             q  == [pr EXCEPT ![j] = FedProducer(SweptProducer(node, j), j)]
             uk == Materialized(n, j)
             qs == Refresh(js, uk, q, {j})
  <2>1. uk \in [TaskIds -> Rows] /\ ClaimWith(n, uk, q, qs)
    BY <1>3, FeedSound DEF Sound
  <2>2. ASSUME NEW t \in TaskIds, t.job # j PROVE uk[t] = tk[t]
    <3>1. t \notin RowsOf(k)
      BY <2>2 DEF RowsOf, Key
    <3>2. InsertFits(tk, k, n) /\ uk = Insert(tk, k, n, "pending", pr[j].gen)
      BY <1>3 DEF Materialized
    <3> HIDE DEF k, uk, tk, pr
    <3> QED BY <3>1, <3>2, InsertElsewhere
  <2>3. \A i \in Jobs \ {j} : q[i] = pr[i] /\ qs[i] = js[i]
    BY DEF SweptProducers, Refresh
  <2>4. js[j] = "running"
    BY DEF Feedable
  <2> HIDE DEF tk, pr, js, uk, q
  <2>5. ASSUME NEW i \in Jobs PROVE JobAgrees(qs[i], uk, q, i)
    <3>1. CASE i = j
      BY <2>4, <3>1, RefreshAgrees
    <3>2. CASE i # j
      <4> HIDE DEF qs
      <4>1. JobAgrees(js[i], tk, pr, i) /\ q[i] = pr[i] /\ qs[i] = js[i]
        BY <1>1, <2>3, <3>2 DEF JobsAgree
      <4> QED BY <2>2, <3>2, <4>1, AgreesElsewhere
    <3> QED BY <3>1, <3>2
  <2> HIDE DEF qs
  <2>6. JobsAgree(qs, uk, q)
    BY <2>5 DEF JobsAgree
  <2> QED BY <2>1, <2>6, ClaimWithAgrees
<1> QED BY <1>2, <1>3 DEF Claim

\* A message that its row accepts leaves a row running, so the job stays running.
LEMMA ProgressAgrees ==
  ASSUME IInv, JobsAgree(jobState, task, producer), NEW g \in grants, NEW seq \in Nat, NEW hit,
         Progress(g, seq, hit)
  PROVE  JobsAgree(jobState', task', producer')
<1> DEFINE tk == Swept(node)
           pr == SweptProducers(node)
           js == SweptJobs(node)
           t  == g.task
           k  == Key(t.job, "route", hit)
           acked == [tk EXCEPT ![t].seq = seq]
<1>1. /\ JobsAgree(js, tk, pr) /\ Sound(tk) /\ tk \in [TaskIds -> Rows]
      /\ \A j \in Jobs : js[j] = "absent" <=> jobState[j] = "absent"
      /\ t \in TaskIds /\ t.job \in Jobs
  BY SweptAgree, SweepSound, TaskJob DEF Sound, IInv, TypeOK, Grants
<1>2. /\ producer' = pr /\ jobState' = js /\ t.stage = "discover"
      /\ \/ task' = tk
         \/ /\ Held(tk, g, "running")
            /\ \/ task' = acked
               \/ InsertFits(acked, k, g.node) /\ task' = Insert(acked, k, g.node, "pending", tk[t].gen)
  BY DEF Progress
<1>3. acked[t].state = tk[t].state /\ \A u \in TaskIds \ {t} : acked[u] = tk[u]
  <2>1. tk[t] \in Rows
    BY <1>1
  <2> HIDE DEF tk, t
  <2>2. [tk[t] EXCEPT !.seq = seq].state = tk[t].state
    BY <2>1 DEF Rows
  <2> QED BY <1>1, <2>2
<1>4. \A u \in TaskIds : (u.job # t.job \/ u.stage = "discover") => u \notin RowsOf(k)
  BY DEF RowsOf, Key
<1> HIDE DEF tk, pr, js, t, k, acked
<1>5. CASE task' = tk
  BY <1>1, <1>2, <1>5
<1>6. CASE Held(tk, g, "running") /\ task' # tk
  <2>1. ASSUME NEW u \in TaskIds, u.job # t.job \/ u.stage = "discover"
        PROVE  task'[u] = acked[u]
    BY <1>2, <1>4, <1>6, <2>1, InsertElsewhere
  <2>2. tk[t].state = "running" /\ task'[t].state = "running"
    BY <1>1, <1>2, <1>3, <1>6, <2>1 DEF Held, t
  <2>3. js[t.job] # "absent"
    BY <1>1, <2>2 DEF Sound, RowHasJob
  <2>4. ASSUME NEW j \in Jobs PROVE JobAgrees(js[j], task', pr, j)
    <3>1. JobAgrees(js[j], tk, pr, j)
      BY <1>1 DEF JobsAgree
    <3>2. CASE j = t.job
      BY <1>1, <2>2, <2>3, <3>1, <3>2, RunningAgrees
    <3>3. CASE j # t.job
      <4>1. \A u \in TaskIds : u.job = j => task'[u] = tk[u]
        BY <1>3, <2>1, <3>3
      <4> QED BY <3>1, <4>1, AgreesElsewhere
    <3> QED BY <3>2, <3>3
  <2> QED BY <1>2, <2>4 DEF JobsAgree
<1> QED BY <1>2, <1>5, <1>6
\* A step that refreshes every job agrees, as long as stopped jobs stay quiet.
LEMMA RefreshedAgrees ==
  ASSUME NEW js, NEW tk, NEW pr, \A j \in Jobs : js[j] = "stopped" => Quiet(tk, pr, j)
  PROVE  JobsAgree(Refresh(js, tk, pr, Jobs), tk, pr)
  BY RefreshAgrees DEF JobsAgree

\* A job none of whose rows becomes pending or running stays quiet.
LEMMA QuietStays ==
  ASSUME NEW tk, NEW uk, NEW pr, NEW qr, NEW j, Quiet(tk, pr, j),
         LiveProducer(qr[j]) => LiveProducer(pr[j]),
         \A t \in TaskIds : (t.job = j /\ uk[t].state \in {"pending", "running"}) =>
                               tk[t].state \in {"pending", "running"}
  PROVE  Quiet(uk, qr, j)
  BY DEF Quiet

\* A report changes rows of one job; where that job is stopped, it lets go of a row.
LEMMA ReportAgrees ==
  ASSUME IInv, JobsAgree(jobState, task, producer), NEW g \in grants, NEW outcome \in Outcomes,
         Report(g, outcome)
  PROVE  JobsAgree(jobState', task', producer')
<1> DEFINE tk == Swept(node)
           pr == SweptProducers(node)
           t  == g.task
           pass == outcome = "pass"
           fin == [tk EXCEPT ![t] = Finished(tk[t], outcome)]
<1>1. /\ tk \in [TaskIds -> Rows] /\ t \in TaskIds /\ producer' = pr
      /\ \A j \in Jobs : jobState[j] = "stopped" => Quiet(tk, pr, j)
  BY SweepSound, SweptQuiet DEF Sound, IInv, TypeOK, Grants, Report, JobsAgree, JobAgrees
<1>2. CASE task' = tk /\ jobState' = SweptJobs(node)
  BY <1>1, <1>2, SweptAgree
<1>3. CASE /\ Held(tk, g, "cancelling")
           /\ task' = [tk EXCEPT ![t].state = CancelledState(tk[t])]
           /\ jobState' = Refresh(jobState, task', producer', Jobs)
  <2> DEFINE q == [tk[t] EXCEPT !.state = CancelledState(tk[t])]
  <2>1. q.state \notin {"pending", "running"}
    <3>1. tk[t] \in Rows
      BY <1>1
    <3> HIDE DEF tk, t
    <3> QED BY <3>1 DEF Rows, CancelledState
  <2>2. task' = [tk EXCEPT ![t] = q]
    BY <1>3
  <2> HIDE DEF q, tk, t, pr
  <2>3. \A u \in TaskIds : task'[u].state \in {"pending", "running"} => tk[u].state \in {"pending", "running"}
    BY <1>1, <2>1, <2>2
  <2>4. \A j \in Jobs : jobState[j] = "stopped" => Quiet(task', pr, j)
    BY <1>1, <2>3, QuietStays
  <2> QED BY <1>1, <1>3, <2>4, RefreshedAgrees
<1>4. CASE /\ Held(tk, g, "running")
           /\ jobState' = Refresh(jobState, task', producer', Jobs)
           /\ \/ task' = fin
              \/ /\ task' = WithNextRow(fin, t, g.node, pass)
                 /\ \A x \in NextRows(t, pass) : InsertFits(fin, x[1], g.node)
  <2>1. ASSUME NEW u \in TaskIds, u.job # t.job PROVE task'[u] = tk[u]
    <3>1. fin[u] = tk[u]
      BY <1>1, <2>1
    <3>2. CASE task' = fin
      BY <3>1, <3>2
    <3>3. ASSUME NEW x \in NextRows(t, pass), task' = WithNextRow(fin, t, g.node, pass),
                 InsertFits(fin, x[1], g.node)
          PROVE  task'[u] = tk[u]
      <4> HIDE DEF fin, tk, t, pass
      <4>1. x[1].job = t.job /\ NextRows(t, pass) = {x}
        BY <1>1, NextRowsGate
      <4>2. (CHOOSE y \in NextRows(t, pass) : TRUE) = x
        BY <4>1
      <4>3. task' = Insert(fin, x[1], g.node, x[2], fin[t].gen)
        BY <3>3, <4>1, <4>2 DEF WithNextRow
      <4>4. u \notin RowsOf(x[1])
        BY <2>1, <4>1 DEF RowsOf
      <4> QED BY <3>1, <3>3, <4>3, <4>4, InsertElsewhere
    <3>4. CASE task' = WithNextRow(fin, t, g.node, pass) /\ NextRows(t, pass) = {}
      BY <3>1, <3>4 DEF WithNextRow
    <3> QED BY <1>4, <3>2, <3>3, <3>4
  <2>2. tk[t].state = "running"
    BY <1>4 DEF Held
  <2> HIDE DEF fin, tk, t, pass, pr
  <2>3. ASSUME NEW j \in Jobs, jobState[j] = "stopped" PROVE Quiet(task', pr, j)
    <3>1. Quiet(tk, pr, j) /\ j # t.job
      BY <1>1, <2>2, <2>3 DEF Quiet
    <3> QED BY <2>1, <3>1 DEF Quiet
  <2> QED BY <1>1, <1>4, <2>3, RefreshedAgrees
<1> QED BY <1>2, <1>3, <1>4 DEF Report

\* A row that is stopped or skipped does not become pending or running.
LEMMA CancelledQuiet ==
  ASSUME NEW r \in Rows, NEW error \in {"stopped", "skipped"}
  PROVE  Cancelled(r, error).state \notin {"pending", "running"}
<1> DEFINE q == Cancelled(r, error)
<1>1. \/ r.state \notin {"pending", "running"} /\ q = r
      \/ r.state = "running" /\ q = [r EXCEPT !.state = "cancelling", !.error = error]
      \/ r.state = "pending" /\ q = [r EXCEPT !.state = error, !.error = error]
  BY DEF Cancelled
<1> HIDE DEF q
<1>2. q.state \notin {"pending", "running"}
  BY <1>1 DEF Rows
<1> QED BY <1>2 DEF q

\* Stopping a whole job leaves it quiet, and stopping less leaves quiet jobs quiet.
LEMMA StopAgrees ==
  ASSUME IInv, JobsAgree(jobState, task, producer), NEW j \in Jobs, NEW S,
         NEW error \in {"stopped", "skipped"}, StopOrSkip(j, S, error)
  PROVE  JobsAgree(jobState', task', producer')
<1> DEFINE p    == producer[j]
           js   == IF S = TaskIds /\ error = "stopped" THEN [jobState EXCEPT ![j] = "stopped"] ELSE jobState
           halt == [p EXCEPT !.state = "stopped", !.waiting = FALSE]
<1>1. /\ task \in [TaskIds -> Rows] /\ producer \in [Jobs -> ProducerRows]
      /\ jobState \in [Jobs -> JobStates]
  BY DEF IInv, TypeOK, JobStates
<1>2. /\ jobState' = Refresh(js, task', producer', Jobs)
      /\ task' = [t \in TaskIds |-> IF t.job = j /\ t \in S THEN Cancelled(task[t], error) ELSE task[t]]
      /\ \/ producer' = [producer EXCEPT ![j] = halt]
         \/ producer' = producer /\ (S = TaskIds => ~LiveProducer(p))
  BY DEF StopOrSkip
<1>3. ~LiveProducer(halt)
  <2>1. p \in ProducerRows
    BY <1>1
  <2> HIDE DEF p
  <2> QED BY <2>1 DEF ProducerRows, LiveProducer
<1> HIDE DEF halt
<1>4. \A i \in Jobs : LiveProducer(producer'[i]) => LiveProducer(producer[i])
  BY <1>1, <1>2, <1>3
<1>5. \A t \in TaskIds : task'[t].state \in {"pending", "running"} =>
                           task[t].state \in {"pending", "running"} /\ ~(t.job = j /\ t \in S)
  BY <1>1, <1>2, CancelledQuiet
<1>6. ASSUME NEW i \in Jobs, js[i] = "stopped" PROVE Quiet(task', producer', i)
  <2>1. CASE jobState[i] = "stopped"
    <3>1. Quiet(task, producer, i)
      BY <2>1 DEF JobsAgree, JobAgrees
    <3> QED BY <1>4, <1>5, <3>1, QuietStays
  <2>2. CASE jobState[i] # "stopped"
    <3>1. i = j /\ S = TaskIds
      BY <1>1, <1>6, <2>2
    <3>2. ~LiveProducer(producer'[i])
      BY <1>1, <1>2, <1>3, <3>1
    <3> QED BY <1>5, <3>1, <3>2 DEF Quiet
  <2> QED BY <2>1, <2>2
<1> HIDE DEF js
<1> QED BY <1>2, <1>6, RefreshedAgrees

\* Stopping rows of several jobs leaves quiet jobs quiet.
LEMMA CancellingAgrees ==
  ASSUME IInv, JobsAgree(jobState, task, producer),
         jobState' = Refresh(jobState, task', producer', Jobs),
         \A j \in Jobs : LiveProducer(producer'[j]) => LiveProducer(producer[j]),
         \A t \in TaskIds :
           \/ task'[t] = task[t]
           \/ \E error \in {"stopped", "skipped"} : task'[t] = Cancelled(task[t], error)
  PROVE  JobsAgree(jobState', task', producer')
<1>1. task \in [TaskIds -> Rows]
  BY DEF IInv, TypeOK
<1>2. \A t \in TaskIds : task'[t].state \in {"pending", "running"} => task[t].state \in {"pending", "running"}
  BY <1>1, CancelledQuiet
<1>3. \A j \in Jobs : jobState[j] = "stopped" => Quiet(task', producer', j)
  BY <1>2, QuietStays DEF JobsAgree, JobAgrees
<1> QED BY <1>3, RefreshedAgrees

\* A step on one job, which it leaves unstopped, leaves the others quiet.
LEMMA OneJobAgrees ==
  ASSUME IInv, JobsAgree(jobState, task, producer), NEW j \in Jobs,
         jobState' = Refresh([jobState EXCEPT ![j] = "running"], task', producer', Jobs),
         \A i \in Jobs \ {j} : producer'[i] = producer[i],
         \A t \in TaskIds : t.job # j => task'[t] = task[t]
  PROVE  JobsAgree(jobState', task', producer')
<1> DEFINE js == [jobState EXCEPT ![j] = "running"]
<1>1. ASSUME NEW i \in Jobs, js[i] = "stopped" PROVE Quiet(task', producer', i)
  <2>1. i # j /\ jobState[i] = "stopped"
    BY <1>1 DEF IInv, TypeOK
  <2>2. Quiet(task, producer, i)
    BY <2>1 DEF JobsAgree, JobAgrees
  <2> QED BY <2>1, <2>2 DEF Quiet
<1> HIDE DEF js
<1> QED BY <1>1, RefreshedAgrees DEF js

\* A selection job is running from the start: its producer is live.
LEMMA SelectionAgrees ==
  ASSUME IInv, JobsAgree(jobState, task, producer), NEW j \in Jobs, CreateSelectionJob(j)
  PROVE  JobsAgree(jobState', task', producer')
<1> DEFINE p == [NoProducer EXCEPT !.state = "queued", !.node = policy[1]]
<1>1. /\ producer' = [producer EXCEPT ![j] = p] /\ jobState' = [jobState EXCEPT ![j] = "running"]
      /\ task' = task /\ producer \in [Jobs -> ProducerRows] /\ jobState \in [Jobs -> JobStates]
  BY DEF CreateSelectionJob, IInv, TypeOK, JobStates
<1>2. LiveProducer(p)
  BY DEF NoProducer, LiveProducer
<1> HIDE DEF p
<1>3. ASSUME NEW i \in Jobs PROVE JobAgrees(jobState'[i], task', producer', i)
  <2>1. CASE i = j
    <3>1. jobState'[i] = "running" /\ HasLive(task', producer', i)
      BY <1>1, <1>2, <2>1 DEF HasLive
    <3> QED BY <3>1, DerivedFrom DEF JobAgrees
  <2>2. CASE i # j
    <3>1. JobAgrees(jobState'[i], task, producer, i) /\ producer'[i] = producer[i]
      BY <1>1, <2>2 DEF JobsAgree
    <3> QED BY <1>1, <3>1, AgreesElsewhere
  <2> QED BY <2>1, <2>2
<1> QED BY <1>3 DEF JobsAgree
\* Every step keeps the states of jobs.
LEMMA JobsKept ==
  ASSUME IInv, JobsAgree(jobState, task, producer), Next
  PROVE  JobsAgree(jobState', task', producer')
<1> DEFINE Kept == JobsAgree(jobState', task', producer')
<1>1. ASSUME NEW nd, Sweep(nd) PROVE Kept
  BY <1>1, SweptAgree DEF Sweep
<1>2. ASSUME UNCHANGED <<jobState, task, producer>> PROVE Kept
  BY <1>2
<1>3. CASE WorkerStep
  <2>1. ASSUME NEW n \in Nodes, NEW p \in Profiles[n], Heartbeat(n, p) PROVE Kept
    BY <1>1, <2>1 DEF Heartbeat
  <2>2. ASSUME NEW g \in grants, NEW seq \in 1..MaxSeq, NEW hit, Progress(g, seq, hit) PROVE Kept
    <3>1. seq \in Nat
      BY ConstantsAssumption
    <3> QED BY <2>2, <3>1, ProgressAgrees
  <2>3. ASSUME NEW n \in Nodes, Claim(n) PROVE Kept
    BY <2>3, ClaimAgrees
  <2>4. ASSUME NEW g \in grants, NEW outcome \in Outcomes, Report(g, outcome) PROVE Kept
    BY <2>4, ReportAgrees
  <2> QED BY <1>3, <2>1, <2>2, <2>3, <2>4 DEF WorkerStep
<1>4. CASE OperatorStep
  <2>1. ASSUME NEW p, SetPolicy(p) PROVE Kept
    BY <1>2, <2>1 DEF SetPolicy
  <2>2. ASSUME NEW j \in Jobs, CreateJob(j) PROVE Kept
    BY <2>2, OneJobAgrees DEF CreateJob
  <2>3. ASSUME NEW j \in Jobs, CreateSelectionJob(j) PROVE Kept
    BY <2>3, SelectionAgrees
  <2>4. ASSUME NEW j \in Jobs, NEW S, NEW error \in {"stopped", "skipped"}, StopOrSkip(j, S, error)
        PROVE  Kept
    BY <2>4, StopAgrees
  <2>5. ASSUME NEW j \in Jobs, NEW S, Retry(j, S) PROVE Kept
    <3>1. /\ jobState' = Refresh([jobState EXCEPT ![j] = "running"], task', producer', Jobs)
          /\ \A i \in Jobs \ {j} : producer'[i] = producer[i]
          /\ \A t \in TaskIds : t.job # j => task'[t] = task[t]
      BY <2>5 DEF Retry, IInv, TypeOK
    <3> QED BY <3>1, OneJobAgrees
  <2>6. ASSUME NEW stage, StopStage(stage) PROVE Kept
    <3>1. ASSUME NEW j \in Jobs, LiveProducer(producer'[j]) PROVE LiveProducer(producer[j])
      <4>1. \/ producer'[j] = producer[j]
            \/ producer'[j] = [producer[j] EXCEPT !.state = "stopped", !.waiting = FALSE]
        BY <2>6 DEF StopStage
      <4>2. producer[j] \in ProducerRows
        BY DEF IInv, TypeOK
      <4> QED BY <3>1, <4>1, <4>2 DEF LiveProducer, ProducerRows
    <3> QED BY <2>6, <3>1, CancellingAgrees DEF StopStage
  <2>7. ASSUME NEW n, DeleteNode(n) PROVE Kept
    BY <2>7, CancellingAgrees DEF DeleteNode
  <2>8. ASSUME NEW S, NEW kind, ClearHistory(S, kind) PROVE Kept
    BY <1>2, <2>8 DEF ClearHistory
  <2>9. Poll => Kept
    BY <1>1 DEF Poll
  <2> QED BY <1>4, <2>1, <2>2, <2>3, <2>4, <2>5, <2>6, <2>7, <2>8, <2>9 DEF OperatorStep, Stop, Skip
<1>5. CASE TimeStep
  BY <1>2, <1>5 DEF TimeStep, LeaseRunsOut, GoSilent
<1> QED BY <1>3, <1>4, <1>5 DEF Next

LEMMA JobsInvariant == Spec => []JobsAgree(jobState, task, producer)
<1>1. Init => JobsAgree(jobState, task, producer)
  BY DEF Init, JobsAgree, JobAgrees
<1>2. IInv /\ JobsAgree(jobState, task, producer) /\ [Next]_vars => JobsAgree(jobState, task, producer)'
  BY JobsKept DEF vars
<1> QED BY <1>1, <1>2, Inductive, PTL DEF Spec

\* The stored state of a job is never stale, although most operations refresh only
\* the jobs they touched: a job says "running" exactly while something of it is live.
THEOREM JobStatesAgree == Spec => []JobStateAgrees
<1>1. IInv /\ JobsAgree(jobState, task, producer) => JobStateAgrees
  <2> SUFFICES ASSUME IInv, JobsAgree(jobState, task, producer), NEW j \in Jobs
               PROVE  /\ jobState[j] = "absent" => \A t \in TaskIds : t.job = j => task[t].state = "absent"
                      /\ jobState[j] = "stopped" => Quiet(task, producer, j)
                      /\ jobState[j] \notin {"absent", "stopped"} =>
                           (jobState[j] = "running" <=> HasLive(task, producer, j))
    BY DEF JobStateAgrees, Quiet, HasLive
  <2>1. jobState[j] = "absent" => \A t \in TaskIds : t.job = j => task[t].state = "absent"
    BY DEF IInv, Sound, RowHasJob
  <2>2. JobAgrees(jobState[j], task, producer, j)
    BY DEF JobsAgree
  <2> QED BY <2>1, <2>2, DerivedFrom DEF JobAgrees
<1> QED BY <1>1, Inductive, JobsInvariant, PTL
-----------------------------------------------------------------------------
(***************************************************************************)
(* The pipeline.  Three facts say that nothing is lost on the way: a row   *)
(* that is done left the row of its next stage open (HandedOn), a job has  *)
(* a row for everything it has started to stream (Started), and a producer *)
(* is done only at the end of its selection.                               *)
(***************************************************************************)
DependentsSound(tk) == \A t \in TaskIds : Dependent(tk[t]) => t.stage = "speed" /\ Full(t.job)

OpenRowFor(tk, k) == \E u \in RowsOf(k) : Opened(tk[u])

HandedOn(tk) ==
  /\ DependentsSound(tk)
  /\ \A t \in TaskIds : tk[t].state = "done" => \A x \in NextRows(t, TRUE) : OpenRowFor(tk, x[1])

\* The keys a job starts with; a producer that has the state p has streamed this far.
FirstKeys(j, p) ==
  IF Discovery(j) THEN {Key(j, "discover", c) : c \in {1} \cap (1..Chunks)}
  ELSE {Key(j, FirstStage(j), JobSpec[j].targets[i]) :
          i \in 1..(IF JobSpec[j].frozen THEN p.cursor ELSE Len(JobSpec[j].targets))}

RowFor(tk, k) == \E u \in RowsOf(k) : tk[u].state # "absent"

Started(j, st, tk, p) ==
  /\ p.state # "none" =>
       /\ JobSpec[j].frozen /\ p.cursor <= Len(JobSpec[j].targets)
       /\ p.state = "done" => p.cursor = Len(JobSpec[j].targets)
  /\ st # "absent" =>
       /\ JobSpec[j].frozen => p.state # "none"
       /\ \A k \in FirstKeys(j, p) : RowFor(tk, k)

AllStarted(js, tk, pr) == \A j \in Jobs : Started(j, js[j], tk, pr[j])

\* What settles keeps everything that was handed on.
LEMMA SettlesHandsOn ==
  ASSUME NEW tk, NEW uk, Settles(tk, uk), HandedOn(tk) PROVE HandedOn(uk)
<1>1. \A t \in TaskIds : RowSettles(t, tk[t], uk[t])
  BY DEF Settles
<1>2. DependentsSound(uk)
  BY <1>1 DEF HandedOn, DependentsSound, RowSettles
<1>3. ASSUME NEW k, OpenRowFor(tk, k) PROVE OpenRowFor(uk, k)
  BY <1>1, <1>3 DEF OpenRowFor, RowsOf, RowSettles
<1>4. \A t \in TaskIds : uk[t].state = "done" => tk[t].state = "done"
  BY <1>1 DEF RowSettles
<1> QED BY <1>2, <1>3, <1>4 DEF HandedOn

\* What a row that passed schedules is pending.
LEMMA NextRowsPending ==
  ASSUME NEW t \in TaskIds, NEW x \in NextRows(t, TRUE) PROVE x[2] = "pending"
  BY NextRowsGate

\* Every step hands on what it finishes.
LEMMA HandedOnKept ==
  ASSUME IInv, Advances, HandedOn(task) PROVE HandedOn(task')
<1>1. ASSUME NEW tk, NEW s \in TaskIds, NEW n, Settles(task, tk), Starts(tk, s, n)
      PROVE  HandedOn(task')
  <2>1. HandedOn(tk)
    BY <1>1, SettlesHandsOn
  <2>2. /\ tk[s].state = "pending" /\ task'[s].state = "running"
        /\ \A t \in TaskIds \ {s} : task'[t] = tk[t]
    BY <1>1, GrantedRows
  <2>3. \A t \in TaskIds : /\ Opened(tk[t]) => Opened(task'[t])
                           /\ Dependent(task'[t]) => Dependent(tk[t])
                           /\ task'[t].state = "done" => tk[t].state = "done"
    BY <2>2 DEF Opened, Dependent
  <2>4. \A k : OpenRowFor(tk, k) => OpenRowFor(task', k)
    BY <2>3 DEF OpenRowFor, RowsOf
  <2> QED BY <2>1, <2>3, <2>4 DEF HandedOn, DependentsSound
<1>2. ASSUME NEW tk, NEW g \in grants, NEW outcome \in {"pass", "fail"}, Finishes(tk, g, outcome)
      PROVE  HandedOn(task')
  <2> DEFINE fin == FinishedIn(tk, g, outcome)
             t   == g.task
  <2>1. HandedOn(tk)
    BY <1>2, SettlesHandsOn DEF Finishes
  <2>2. /\ tk[t].state = "running" /\ t \in TaskIds
        /\ fin[t].state = (IF outcome = "pass" THEN "done" ELSE "failed")
        /\ \A u \in TaskIds \ {t} : fin[u] = tk[u]
    BY <1>2, FinishedRows
  <2>3. \A u \in TaskIds : RowSettles(u, fin[u], task'[u])
    BY <1>2 DEF Finishes, Settles
  <2>4. \A x \in NextRows(t, outcome = "pass") :
          \E u \in RowsOf(x[1]) : x[2] = "pending" => Opened(task'[u])
    BY <1>2 DEF Finishes
  <2> HIDE DEF fin, t
  <2>5. \A u \in TaskIds : /\ Opened(tk[u]) => Opened(task'[u])
                           /\ Dependent(task'[u]) => Dependent(tk[u]) \/ (u.stage = "speed" /\ Full(u.job))
    BY <2>2, <2>3 DEF Opened, Dependent, RowSettles
  <2>6. \A k : OpenRowFor(tk, k) => OpenRowFor(task', k)
    BY <2>5 DEF OpenRowFor, RowsOf
  <2>7. ASSUME NEW u \in TaskIds, task'[u].state = "done", NEW x \in NextRows(u, TRUE)
        PROVE  OpenRowFor(task', x[1])
    <3>1. fin[u].state = "done"
      BY <2>3, <2>7 DEF RowSettles
    <3>2. CASE u = t
      <4>1. outcome = "pass"
        BY <2>2, <3>1, <3>2
      <4>2. (outcome = "pass") = TRUE
        BY <4>1
      <4>3. x \in NextRows(t, outcome = "pass")
        BY <2>7, <3>2, <4>2
      <4> QED BY <2>4, <2>7, <4>3, NextRowsPending DEF OpenRowFor
    <3>3. CASE u # t
      BY <2>1, <2>2, <2>6, <2>7, <3>1, <3>3 DEF HandedOn
    <3> QED BY <3>2, <3>3
  <2> QED BY <2>1, <2>5, <2>7 DEF HandedOn, DependentsSound
<1> QED BY <1>1, <1>2, SettlesHandsOn DEF Advances, Begins, Clears

\* Rows are never removed.
LEMMA RowsStay ==
  ASSUME Moves, NEW t \in TaskIds, task[t].state # "absent" PROVE task'[t].state # "absent"
<1>1. ASSUME NEW tk, NEW s \in TaskIds, NEW n, Starts(tk, s, n) PROVE task'[t].state # "absent"
  <2>1. tk[t].state # "absent"
    BY <1>1 DEF Starts, Follows, RowFollows
  <2> QED BY <1>1, <2>1, GrantedRows
<1> QED BY <1>1 DEF Moves, Follows, RowFollows

\* A producer that has streamed no further, and is done only if it was or may be.
StreamKept(j, p, q) ==
  /\ q.cursor = p.cursor /\ (q.state = "none" <=> p.state = "none")
  /\ q.state = "done" => p.state = "done" \/ q.cursor >= Len(JobSpec[j].targets)

\* A job that streams no further, in a table that keeps its rows, is as far as it was.
LEMMA StartedStays ==
  ASSUME NEW j \in Jobs, NEW st, NEW tk, NEW p, Started(j, st, tk, p),
         NEW su, NEW uk, NEW q, su # "absent" => st # "absent", StreamKept(j, p, q), p.cursor \in Nat,
         \A t \in TaskIds : tk[t].state # "absent" => uk[t].state # "absent"
  PROVE  Started(j, su, uk, q)
<1>1. FirstKeys(j, q) = FirstKeys(j, p)
  BY DEF FirstKeys, StreamKept
<1>2. \A k : RowFor(tk, k) => RowFor(uk, k)
  BY DEF RowFor, RowsOf
<1>3. Len(JobSpec[j].targets) \in Nat
  BY ConstantsAssumption DEF JobSpecs
<1> QED BY <1>1, <1>2, <1>3 DEF Started, StreamKept

\* Most steps stream nothing.
LEMMA StartedKept ==
  ASSUME IInv, Moves, AllStarted(jobState, task, producer),
         \A j \in Jobs : /\ jobState'[j] # "absent" => jobState[j] # "absent"
                         /\ StreamKept(j, producer[j], producer'[j])
  PROVE  AllStarted(jobState', task', producer')
<1>1. ASSUME NEW j \in Jobs PROVE Started(j, jobState'[j], task', producer'[j])
  <2>1. producer[j].cursor \in Nat
    BY DEF IInv, TypeOK, ProducerRows
  <2>2. Started(j, jobState[j], task, producer[j])
    BY DEF AllStarted
  <2> QED BY <2>1, <2>2, RowsStay, StartedStays
<1> QED BY <1>1 DEF AllStarted
\* The sweep moves producers and does not feed them.
LEMMA SweptStreamKept ==
  ASSUME IInv, NEW nd, NEW j \in Jobs
  PROVE  StreamKept(j, producer[j], SweptProducers(nd)[j])
<1>1. producer[j] \in ProducerRows
  BY DEF IInv, TypeOK
<1> DEFINE p == producer[j]
           q == SweptProducer(nd, j)
<1>2. \/ q = p
      \/ \E st \in {"queued", "running", "waiting"}, w \in BOOLEAN :
            LiveProducer(p) /\ q = [p EXCEPT !.state = st, !.waiting = w]
      \/ \E b : LiveProducer(p) /\ q = [p EXCEPT !.node = b, !.gen = @ + 1, !.state = "running", !.waiting = FALSE]
  BY DEF SweptProducer
<1>3. SweptProducers(nd)[j] = q
  BY DEF SweptProducers
<1> HIDE DEF p, q
<1>4. p \in ProducerRows
  BY <1>1 DEF p
<1>5. StreamKept(j, p, q)
  BY <1>2, <1>4 DEF StreamKept, LiveProducer, ProducerRows
<1> QED BY <1>3, <1>5 DEF p

\* A claim keeps the rows it is given.
LEMMA ClaimWithRowsStay ==
  ASSUME NEW n, NEW tk \in [TaskIds -> Rows], NEW pr, NEW js, ClaimWith(n, tk, pr, js),
         NEW t \in TaskIds, tk[t].state # "absent"
  PROVE  task'[t].state # "absent"
<1>1. ASSUME NEW s \in Claimable(tk, js, n), task' = [tk EXCEPT ![s] = Granted(tk[s])]
      PROVE  task'[t].state # "absent"
  <2>1. s \in TaskIds
    BY DEF Claimable
  <2> QED BY <1>1, <2>1, GrantedType
<1> QED BY <1>1 DEF ClaimWith

\* The row of the target that a producer has just streamed is there.
LEMMA FeedStarts ==
  ASSUME IInv, AllStarted(jobState, task, producer), NEW n \in Nodes, NEW j \in Feedable(n),
         InsertFits(Swept(node), Key(j, FirstStage(j), NextTarget(SweptProducers(node), j)), n)
  PROVE  Started(j, jobState[j], Materialized(n, j), FedProducer(SweptProducer(node, j), j))
<1> DEFINE tk == Swept(node)
           p  == SweptProducer(node, j)
           q  == FedProducer(p, j)
           k  == Key(j, FirstStage(j), NextTarget(SweptProducers(node), j))
           uk == Materialized(n, j)
           N  == Len(JobSpec[j].targets)
<1>1. /\ j \in Jobs /\ SweptProducers(node)[j] = p /\ p \in ProducerRows /\ Sound(tk)
      /\ p.state # "none" /\ p.cursor < N
  BY SweepSound DEF Feedable, SweptProducers
<1>2. N \in Nat /\ p.cursor \in Nat /\ k = Key(j, FirstStage(j), JobSpec[j].targets[p.cursor + 1])
  BY <1>1, ConstantsAssumption DEF JobSpecs, ProducerRows, NextTarget
<1>3. /\ q.cursor = p.cursor + 1 /\ q.state # "none"
      /\ q.state = "done" => p.cursor + 1 >= N
  <2> DEFINE w == [p EXCEPT !.cursor = @ + 1, !.waiting = FALSE]
  <2>1. q = [w EXCEPT !.state = IF p.cursor + 1 < N THEN "running" ELSE "done"]
    BY DEF FedProducer
  <2> HIDE DEF p, q, N
  <2>2. w.cursor = p.cursor + 1 /\ DOMAIN w = DOMAIN p /\ "state" \in DOMAIN w
    BY <1>1 DEF ProducerRows
  <2> HIDE DEF w
  <2> QED BY <1>1, <1>2, <2>1, <2>2
<1>4. Started(j, jobState[j], task, producer[j]) /\ StreamKept(j, producer[j], p)
  BY <1>1, SweptStreamKept DEF AllStarted
<1>5. JobSpec[j].frozen /\ ~Discovery(j) /\ p.cursor = producer[j].cursor /\ producer[j].state # "none"
  <2>1. JobSpec[j].frozen
    BY <1>1, <1>4 DEF Started, StreamKept
  <2> QED BY <1>1, <1>4, <2>1, ConstantsAssumption DEF Started, StreamKept, Discovery, TestStages, Stages
<1>6. /\ \A t \in TaskIds : task[t].state # "absent" => uk[t].state # "absent"
      /\ RowFor(uk, k)
  <2>1. uk = Insert(tk, k, n, "pending", p.gen) /\ InsertFits(tk, k, n)
    BY <1>1 DEF Materialized
  <2>2. (Full(k.job) /\ k.stage = "speed") => FALSE
    BY FirstStageUngated DEF Key
  <2> HIDE DEF tk, k, uk, p
  <2>3. Settles(tk, uk) /\ RowFor(uk, k)
    BY <1>1, <2>1, <2>2, InsertSettles DEF RowFor
  <2>4. Settles(task, tk)
    BY SweptSettles DEF tk
  <2> QED BY <2>3, <2>4 DEF Settles, RowSettles
<1> HIDE DEF tk, p, q, k, uk, N
<1>7. ASSUME NEW x \in FirstKeys(j, q) PROVE x \in FirstKeys(j, producer[j]) \/ x = k
  <2>1. PICK i \in 1..(p.cursor + 1) : x = Key(j, FirstStage(j), JobSpec[j].targets[i])
    BY <1>3, <1>5 DEF FirstKeys
  <2>2. i \in 1..p.cursor \/ i = p.cursor + 1
    BY <1>2
  <2> QED BY <1>2, <1>5, <2>1, <2>2 DEF FirstKeys
<1>8. \A x : RowFor(task, x) => RowFor(uk, x)
  BY <1>6 DEF RowFor, RowsOf
<1>9. q.cursor <= N /\ (q.state = "done" => q.cursor = N)
  BY <1>1, <1>2, <1>3
<1>10. Started(j, jobState[j], uk, q)
  BY <1>3, <1>4, <1>5, <1>6, <1>7, <1>8, <1>9 DEF Started, N
<1> QED BY <1>10 DEF uk, q, p

\* A claim streams one target of one job at most.
LEMMA ClaimStarts ==
  ASSUME IInv, Moves, AllStarted(jobState, task, producer), NEW n \in Nodes, Claim(n)
  PROVE  AllStarted(jobState', task', producer')
<1>1. /\ Sound(Swept(node))
      /\ \A j \in Jobs : SweptJobs(node)[j] = "absent" <=> jobState[j] = "absent"
      /\ SweptJobs(node) \in [Jobs -> JobStates]
  BY SweepSound
<1>2. CASE ClaimWith(n, Swept(node), SweptProducers(node), SweptJobs(node))
  <2>1. producer' = SweptProducers(node) /\ jobState' = SweptJobs(node)
    BY <1>2 DEF ClaimWith
  <2> QED BY <1>1, <2>1, SweptStreamKept, StartedKept
<1>3. ASSUME NEW j \in Feedable(n),
             LET k == Key(j, FirstStage(j), NextTarget(SweptProducers(node), j))
                 q == [SweptProducers(node) EXCEPT ![j] = FedProducer(SweptProducer(node, j), j)]
             IN  /\ InsertFits(Swept(node), k, n)
                 /\ ClaimWith(n, Materialized(n, j), q,
                              Refresh(SweptJobs(node), Materialized(n, j), q, {j}))
      PROVE  AllStarted(jobState', task', producer')
  <2> DEFINE f  == FedProducer(SweptProducer(node, j), j)
             q  == [SweptProducers(node) EXCEPT ![j] = f]
             uk == Materialized(n, j)
             js == Refresh(SweptJobs(node), uk, q, {j})
  <2>1. producer' = q /\ jobState' = js
    BY <1>3 DEF ClaimWith
  <2>2. \A i \in Jobs : js[i] = "absent" <=> jobState[i] = "absent"
    BY <1>1, RefreshType
  <2>3. j \in Jobs /\ q[j] = f /\ \A i \in Jobs \ {j} : q[i] = SweptProducers(node)[i]
    BY DEF Feedable, SweptProducers
  <2>4. uk \in [TaskIds -> Rows] /\ f.cursor \in Nat
    <3>1. q \in [Jobs -> ProducerRows]
      BY <1>3, FeedSound
    <3>2. f \in ProducerRows
      BY <2>3, <3>1
    <3> QED BY <1>3, <3>2, FeedSound DEF Sound, ProducerRows
  <2>5. Started(j, jobState[j], uk, f)
    BY <1>3, FeedStarts
  <2>6. \A t \in TaskIds : uk[t].state # "absent" => task'[t].state # "absent"
    BY <1>3, <2>4, ClaimWithRowsStay
  <2> HIDE DEF f, q, uk, js
  <2>7. Started(j, js[j], task', f)
    <3>1. StreamKept(j, f, f)
      BY DEF StreamKept
    <3>2. js[j] # "absent" => jobState[j] # "absent"
      BY <2>2, <2>3
    <3> QED BY <2>3, <2>4, <2>5, <2>6, <3>1, <3>2, StartedStays
  <2>8. ASSUME NEW i \in Jobs \ {j} PROVE Started(i, js[i], task', q[i])
    <3>1. Started(i, jobState[i], task, producer[i]) /\ producer[i].cursor \in Nat
      BY DEF AllStarted, IInv, TypeOK, ProducerRows
    <3>2. StreamKept(i, producer[i], q[i])
      BY <2>3, SweptStreamKept
    <3>3. js[i] # "absent" => jobState[i] # "absent"
      BY <2>2
    <3>4. \A t \in TaskIds : task[t].state # "absent" => task'[t].state # "absent"
      BY RowsStay
    <3> QED BY <3>1, <3>2, <3>3, <3>4, StartedStays
  <2> QED BY <2>1, <2>3, <2>7, <2>8 DEF AllStarted
<1> QED BY <1>2, <1>3 DEF Claim
\* A new job has its first rows, or a producer at the start of its selection.
LEMMA CreateStarts ==
  ASSUME IInv, Moves, AllStarted(jobState, task, producer), NEW j \in Jobs, CreateJob(j)
  PROVE  AllStarted(jobState', task', producer')
<1> DEFINE js == [jobState EXCEPT ![j] = "running"]
<1>1. /\ producer' = producer /\ jobState' = Refresh(js, task', producer', Jobs) /\ ~JobSpec[j].frozen
      /\ jobState \in [Jobs -> JobStates] /\ producer \in [Jobs -> ProducerRows]
  BY DEF CreateJob, IInv, TypeOK, JobStates
<1>2. js \in [Jobs -> JobStates] /\ \A i \in Jobs \ {j} : js[i] = jobState[i]
  BY <1>1 DEF JobStates
<1> HIDE DEF js
<1>3. \A i \in Jobs \ {j} : jobState'[i] # "absent" => jobState[i] # "absent"
  BY <1>1, <1>2, RefreshType
<1>4. 1 \in 1..Copies /\ 1 \in DOMAIN Owners(j)
  <2>1. CASE JobSpec[j].managed
    BY <2>1, ConstantsAssumption DEF Owners
  <2>2. CASE ~JobSpec[j].managed
    <3>1. Owners(j) \in Seq(Nodes) /\ Owners(j) # <<>> /\ Len(Owners(j)) <= Copies
      BY <2>2, ConstantsAssumption DEF Owners, JobSpecs
    <3> QED BY <3>1, ConstantsAssumption
  <2> QED BY <2>1, <2>2
<1>5. ASSUME NEW t \in TaskIds, t.job = j, t.stage = FirstStage(j), t.copy = 1,
             t.on \in (IF Discovery(j) THEN {1} ELSE Targets(j))
      PROVE  task'[t].state # "absent"
  <2>1. task'[t] = NewRow(Owners(j)[1], "pending", 0)
    BY <1>4, <1>5 DEF CreateJob
  <2> QED BY <2>1 DEF NewRow, NoRow
<1>6. ASSUME NEW k \in FirstKeys(j, producer'[j]) PROVE RowFor(task', k)
  <2> DEFINE t == [job |-> j, stage |-> k.stage, on |-> k.on, copy |-> 1]
  <2>1. CASE Discovery(j)
    <3>1. k = Key(j, "discover", 1) /\ 1 \in 1..Chunks
      BY <1>6, <2>1 DEF FirstKeys
    <3>2. t \in TaskIds /\ t \in RowsOf(k)
      BY <1>4, <3>1 DEF TaskIds, RowsOf, Key
    <3>3. task'[t].state # "absent"
      BY <1>5, <2>1, <3>1, <3>2 DEF Key, FirstStage
    <3> QED BY <3>2, <3>3 DEF RowFor
  <2>2. CASE ~Discovery(j)
    <3>1. PICK i \in 1..Len(JobSpec[j].targets) : k = Key(j, FirstStage(j), JobSpec[j].targets[i])
      BY <1>1, <1>6, <2>2 DEF FirstKeys
    <3>2. JobSpec[j].targets \in Seq(Ips) /\ JobSpec[j].mode \in Modes
      BY ConstantsAssumption DEF JobSpecs
    <3>3. k.on \in Targets(j) /\ k.on \in Ips
      BY <3>1, <3>2 DEF Targets, Key
    <3>4. FirstStage(j) \in TestStages
      BY <2>2, <3>2 DEF FirstStage, Discovery, Modes, TestStages, Stages
    <3>5. t \in TaskIds /\ t \in RowsOf(k)
      BY <1>4, <3>1, <3>3, <3>4 DEF TaskIds, RowsOf, Key
    <3>6. task'[t].state # "absent"
      BY <1>5, <2>2, <3>1, <3>3, <3>5 DEF Key
    <3> QED BY <3>5, <3>6 DEF RowFor
  <2> QED BY <2>1, <2>2
<1>7. Started(j, jobState'[j], task', producer'[j])
  <2>1. Started(j, jobState[j], task, producer[j])
    BY DEF AllStarted
  <2> QED BY <1>1, <1>6, <2>1 DEF Started
<1>8. ASSUME NEW i \in Jobs \ {j} PROVE Started(i, jobState'[i], task', producer'[i])
  <2>1. Started(i, jobState[i], task, producer[i]) /\ producer[i].cursor \in Nat
    BY <1>1 DEF AllStarted, ProducerRows
  <2>2. StreamKept(i, producer[i], producer'[i])
    BY <1>1 DEF StreamKept
  <2>3. jobState'[i] # "absent" => jobState[i] # "absent"
    BY <1>3
  <2>4. \A t \in TaskIds : task[t].state # "absent" => task'[t].state # "absent"
    BY RowsStay
  <2> QED BY <2>1, <2>2, <2>3, <2>4, StartedStays
<1> QED BY <1>7, <1>8 DEF AllStarted

LEMMA CreateSelectionStarts ==
  ASSUME IInv, Moves, AllStarted(jobState, task, producer), NEW j \in Jobs, CreateSelectionJob(j)
  PROVE  AllStarted(jobState', task', producer')
<1> DEFINE p == [NoProducer EXCEPT !.state = "queued", !.node = policy[1]]
<1>1. /\ producer' = [producer EXCEPT ![j] = p] /\ jobState' = [jobState EXCEPT ![j] = "running"]
      /\ task' = task /\ JobSpec[j].frozen
      /\ producer \in [Jobs -> ProducerRows] /\ jobState \in [Jobs -> JobStates]
  BY DEF CreateSelectionJob, IInv, TypeOK, JobStates
<1>2. p.state = "queued" /\ p.cursor = 0
  BY DEF NoProducer
<1> HIDE DEF p
<1>3. ~Discovery(j) /\ Len(JobSpec[j].targets) \in Nat
  <2>1. JobSpec[j].mode \in TestStages \cup {"full"}
    BY <1>1, ConstantsAssumption
  <2> QED BY <2>1, ConstantsAssumption DEF Discovery, TestStages, Stages, JobSpecs
<1>4. FirstKeys(j, p) = {}
  BY <1>1, <1>2, <1>3 DEF FirstKeys
<1>5. Started(j, jobState'[j], task', p)
  BY <1>1, <1>2, <1>3, <1>4 DEF Started
<1>6. \A i \in Jobs \ {j} : producer'[i] = producer[i] /\ jobState'[i] = jobState[i]
  BY <1>1
<1> QED BY <1>1, <1>5, <1>6 DEF AllStarted

\* Stopping and resuming a producer loses no place in its selection.
LEMMA HaltKeepsStream ==
  ASSUME NEW j \in Jobs, NEW p \in ProducerRows, p.state # "none"
  PROVE  /\ StreamKept(j, p, [p EXCEPT !.state = "stopped", !.waiting = FALSE])
         /\ StreamKept(j, p, [p EXCEPT !.state = IF p.cursor < Len(JobSpec[j].targets) THEN "running" ELSE "done",
                                       !.waiting = FALSE])
<1>1. p.cursor \in Nat /\ Len(JobSpec[j].targets) \in Nat
  BY ConstantsAssumption DEF ProducerRows, JobSpecs
<1>2. StreamKept(j, p, [p EXCEPT !.state = "stopped", !.waiting = FALSE])
  BY DEF StreamKept, ProducerRows
<1>3. CASE p.cursor < Len(JobSpec[j].targets)
  <2>1. StreamKept(j, p, [p EXCEPT !.state = "running", !.waiting = FALSE])
    BY DEF StreamKept, ProducerRows
  <2> QED BY <1>2, <1>3, <2>1
<1>4. CASE ~(p.cursor < Len(JobSpec[j].targets))
  <2>1. StreamKept(j, p, [p EXCEPT !.state = "done", !.waiting = FALSE])
    BY <1>1, <1>4 DEF StreamKept, ProducerRows
  <2> QED BY <1>2, <1>4, <2>1
<1> QED BY <1>3, <1>4
\* Every step keeps what its jobs have started.
LEMMA StepStarts ==
  ASSUME IInv, Moves, AllStarted(jobState, task, producer), Next
  PROVE  AllStarted(jobState', task', producer')
<1> DEFINE Kept == AllStarted(jobState', task', producer')
<1>1. jobState \in [Jobs -> JobStates] /\ producer \in [Jobs -> ProducerRows]
  BY DEF IInv, TypeOK, JobStates
<1>2. ASSUME NEW nd, producer' = SweptProducers(nd),
             \/ jobState' = SweptJobs(nd)
             \/ \E tk : jobState' = Refresh(jobState, tk, producer', Jobs)
      PROVE  Kept
  <2>1. \A j \in Jobs : jobState'[j] # "absent" => jobState[j] # "absent"
    BY <1>1, <1>2, RefreshType, SweepSound
  <2> QED BY <1>2, <2>1, SweptStreamKept, StartedKept
<1>3. ASSUME \A j \in Jobs : StreamKept(j, producer[j], producer'[j]),
             NEW js \in [Jobs -> JobStates], jobState' = Refresh(js, task', producer', Jobs),
             \A j \in Jobs : js[j] # "absent" => jobState[j] # "absent"
      PROVE  Kept
  <2>1. \A j \in Jobs : jobState'[j] # "absent" => jobState[j] # "absent"
    BY <1>3, RefreshType
  <2> QED BY <1>3, <2>1, StartedKept
<1>4. \A j \in Jobs : StreamKept(j, producer[j], producer[j])
  BY DEF StreamKept
<1>5. ASSUME UNCHANGED <<jobState, producer>> PROVE Kept
  BY <1>4, <1>5, StartedKept
<1>6. CASE WorkerStep
  <2>1. ASSUME NEW n \in Nodes, NEW p \in Profiles[n], Heartbeat(n, p) PROVE Kept
    BY <1>2, <2>1 DEF Heartbeat, Sweep
  <2>2. ASSUME NEW g \in grants, NEW seq, NEW hit, Progress(g, seq, hit) PROVE Kept
    BY <1>2, <2>2 DEF Progress
  <2>3. ASSUME NEW n \in Nodes, Claim(n) PROVE Kept
    BY <2>3, ClaimStarts
  <2>4. ASSUME NEW g \in grants, NEW outcome \in Outcomes, Report(g, outcome) PROVE Kept
    BY <1>2, <2>4 DEF Report
  <2> QED BY <1>6, <2>1, <2>2, <2>3, <2>4 DEF WorkerStep
<1>7. CASE OperatorStep
  <2>1. ASSUME NEW p, SetPolicy(p) PROVE Kept
    BY <1>5, <2>1 DEF SetPolicy
  <2>2. ASSUME NEW j \in Jobs, CreateJob(j) \/ CreateSelectionJob(j) PROVE Kept
    BY <2>2, CreateStarts, CreateSelectionStarts
  <2>3. ASSUME NEW j \in Jobs, NEW S, NEW error, StopOrSkip(j, S, error) PROVE Kept
    <3> DEFINE js == IF S = TaskIds /\ error = "stopped" THEN [jobState EXCEPT ![j] = "stopped"] ELSE jobState
    <3>1. /\ js \in [Jobs -> JobStates] /\ \A i \in Jobs : js[i] # "absent" => jobState[i] # "absent"
          /\ jobState' = Refresh(js, task', producer', Jobs)
      BY <1>1, <2>3 DEF StopOrSkip, JobStates
    <3>2. ASSUME NEW i \in Jobs PROVE StreamKept(i, producer[i], producer'[i])
      <4> DEFINE q == [producer[j] EXCEPT !.state = "stopped", !.waiting = FALSE]
      <4>1. \/ producer' = producer
            \/ producer[j].state # "none" /\ producer' = [producer EXCEPT ![j] = q]
        BY <2>3 DEF StopOrSkip, LiveProducer
      <4>2. producer[j].state # "none" => StreamKept(j, producer[j], q)
        BY <1>1, HaltKeepsStream
      <4> HIDE DEF q
      <4> QED BY <1>1, <1>4, <4>1, <4>2
    <3> HIDE DEF js
    <3> QED BY <1>3, <3>1, <3>2
  <2>4. ASSUME NEW j \in Jobs, NEW S, Retry(j, S) PROVE Kept
    <3> DEFINE js == [jobState EXCEPT ![j] = "running"]
    <3>1. /\ js \in [Jobs -> JobStates] /\ \A i \in Jobs : js[i] # "absent" => jobState[i] # "absent"
          /\ jobState' = Refresh(js, task', producer', Jobs)
      BY <1>1, <2>4 DEF Retry, JobStates
    <3>2. ASSUME NEW i \in Jobs PROVE StreamKept(i, producer[i], producer'[i])
      <4> DEFINE p == producer[j]
      <4> DEFINE q == [p EXCEPT !.state = IF p.cursor < Len(JobSpec[j].targets) THEN "running" ELSE "done",
                                !.waiting = FALSE]
      <4>1. \/ producer' = producer
            \/ p.state # "none" /\ producer' = [producer EXCEPT ![j] = q]
        BY <2>4 DEF Retry
      <4>2. p.state # "none" => StreamKept(j, p, q)
        BY <1>1, HaltKeepsStream
      <4> HIDE DEF q
      <4> QED BY <1>1, <1>4, <4>1, <4>2
    <3> HIDE DEF js
    <3> QED BY <1>3, <3>1, <3>2
  <2>5. ASSUME NEW stage, StopStage(stage) PROVE Kept
    <3>1. ASSUME NEW i \in Jobs PROVE StreamKept(i, producer[i], producer'[i])
      <4>1. CASE producer'[i] = producer[i]
        BY <1>4, <4>1
      <4>2. CASE producer'[i] # producer[i]
        <5>1. /\ producer[i].state # "none"
              /\ producer'[i] = [producer[i] EXCEPT !.state = "stopped", !.waiting = FALSE]
          BY <2>5, <4>2 DEF StopStage, LiveProducer
        <5>2. producer[i] \in ProducerRows
          BY <1>1
        <5> QED BY ONLY i \in Jobs, <5>1, <5>2, HaltKeepsStream
      <4> QED BY ONLY <4>1, <4>2
    <3>2. jobState' = Refresh(jobState, task', producer', Jobs)
      BY <2>5 DEF StopStage
    <3>3. jobState \in [Jobs -> JobStates]
      BY <1>1
    <3> QED BY ONLY <1>3, <3>1, <3>2, <3>3
  <2>6. ASSUME NEW n, DeleteNode(n) PROVE Kept
    <3>1. producer' = producer /\ jobState' = Refresh(jobState, task', producer', Jobs)
      BY <2>6 DEF DeleteNode
    <3>2. \A j \in Jobs : StreamKept(j, producer[j], producer'[j])
      BY <1>4, <3>1
    <3>3. jobState \in [Jobs -> JobStates]
      BY <1>1
    <3> QED BY ONLY <1>3, <3>1, <3>2, <3>3
  <2>7. ASSUME NEW S, NEW kind, ClearHistory(S, kind) PROVE Kept
    BY <1>5, <2>7 DEF ClearHistory
  <2>8. Poll => Kept
    BY <1>2 DEF Poll, Sweep
  <2> QED BY <1>7, <2>1, <2>2, <2>3, <2>4, <2>5, <2>6, <2>7, <2>8 DEF OperatorStep, Stop, Skip
<1>8. CASE TimeStep
  BY <1>5, <1>8 DEF TimeStep, LeaseRunsOut, GoSilent
<1> QED BY <1>6, <1>7, <1>8 DEF Next

PipelineInv == HandedOn(task) /\ AllStarted(jobState, task, producer)

LEMMA PipelineInvariant == Spec => []PipelineInv
<1>1. Init => PipelineInv
  <2>1. NoRow.state = "absent" /\ NoProducer.state = "none"
    BY DEF NoRow, NoProducer
  <2>2. ASSUME Init PROVE HandedOn(task)
    BY <2>1, <2>2 DEF Init, HandedOn, DependentsSound, Dependent
  <2>3. ASSUME Init PROVE AllStarted(jobState, task, producer)
    BY <2>1, <2>3 DEF Init, AllStarted, Started
  <2> QED BY <2>2, <2>3 DEF PipelineInv
<1>2. IInv /\ PipelineInv /\ [Next]_vars => PipelineInv'
  <2> SUFFICES ASSUME IInv, PipelineInv, [Next]_vars PROVE PipelineInv'
    OBVIOUS
  <2>1. CASE Next
    BY <2>1, StepSound, StepAdvances, StepStarts, HandedOnKept DEF PipelineInv
  <2>2. CASE UNCHANGED vars
    BY <2>2 DEF vars, PipelineInv
  <2> QED BY <2>1, <2>2
<1> QED BY <1>1, <1>2, Inductive, PTL DEF Spec

\* In a job that says "done" and was not disturbed, every row that is open passed.
LEMMA DoneJob ==
  ASSUME IInv, JobsAgree(jobState, task, producer), NEW j \in Jobs, jobState[j] = "done", Undisturbed(j)
  PROVE  /\ producer[j].state \in {"none", "done"}
         /\ \A t \in TaskIds : (t.job = j /\ Opened(task[t])) => task[t].state = "done"
<1>1. ~HasLive(task, producer, j) /\ ~HasFailed(task, j)
  BY DerivedFrom DEF JobsAgree, JobAgrees
<1>2. producer[j] \in ProducerRows /\ task \in [TaskIds -> Rows]
  BY DEF IInv, TypeOK
<1>3. producer[j].state \in {"none", "done"}
  BY <1>1, <1>2 DEF HasLive, LiveProducer, Undisturbed, ProducerRows
<1>4. ASSUME NEW t \in TaskIds, t.job = j, Opened(task[t]) PROVE task[t].state = "done"
  <2>1. task[t].state \in Live \cup Terminal \cup {"absent"}
    BY <1>2 DEF Rows
  <2>2. task[t].state \notin Live /\ task[t].state # "failed"
    BY <1>1, <1>4 DEF HasLive, HasFailed
  <2>3. task[t].state # "stopped" /\ task[t].state # "skipped" /\ task[t].state # "absent"
    BY <1>4 DEF Undisturbed, Opened, Dependent
  <2> QED BY <2>1, <2>2, <2>3 DEF Terminal
<1> QED BY <1>3, <1>4

\* Nothing is lost between chunks, stages and owners: a job that says "done" ran
\* every chunk, or streamed its whole selection and passed every stage of every target.
THEOREM PipelinesComplete == Spec => []PipelineComplete
<1> DEFINE Inv == IInv /\ JobsAgree(jobState, task, producer) /\ PipelineInv
<1>1. ASSUME Inv, NEW j \in Jobs, jobState[j] = "done", Undisturbed(j)
      PROVE  /\ JobSpec[j].frozen => producer[j].cursor = Len(JobSpec[j].targets)
             /\ Discovery(j) => \A c \in 1..Chunks : DoneSomewhere(Key(j, "discover", c))
             /\ ~Discovery(j) => \A o \in Targets(j), s \in Required(j) : DoneSomewhere(Key(j, s, o))
  <2>1. /\ producer[j].state \in {"none", "done"}
        /\ \A t \in TaskIds : (t.job = j /\ Opened(task[t])) => task[t].state = "done"
    BY <1>1, DoneJob
  <2>2. Started(j, "done", task, producer[j])
    BY <1>1 DEF PipelineInv, AllStarted
  <2>3. JobSpec[j].frozen => producer[j].cursor = Len(JobSpec[j].targets)
    BY <2>1, <2>2 DEF Started
  \* The rows a job starts with are done: none of them waits for a dependency.
  <2>4. ASSUME NEW k, k.job = j, RowFor(task, k), ~(k.stage = "speed" /\ Full(j)) PROVE DoneSomewhere(k)
    <3>1. PICK u \in RowsOf(k) : task[u].state # "absent"
      BY <2>4 DEF RowFor
    <3>2. u \in TaskIds /\ u.job = j /\ u.stage = k.stage
      BY <2>4 DEF RowsOf
    <3>3. Opened(task[u])
      BY <1>1, <2>4, <3>1, <3>2 DEF PipelineInv, HandedOn, DependentsSound, Opened
    <3> QED BY <2>1, <3>2, <3>3 DEF DoneSomewhere
  \* What follows a row that is done is done.
  <2>5. ASSUME NEW k, k.job = j, DoneSomewhere(k), NEW n,
               \A t \in RowsOf(k) : \E x \in NextRows(t, TRUE) : x[1] = n, n.job = j
        PROVE  DoneSomewhere(n)
    <3>1. PICK t \in RowsOf(k) : task[t].state = "done"
      BY <2>5 DEF DoneSomewhere
    <3>2. PICK x \in NextRows(t, TRUE) : x[1] = n
      BY <2>5, <3>1
    <3>3. OpenRowFor(task, n)
      BY <1>1, <3>1, <3>2 DEF PipelineInv, HandedOn, RowsOf
    <3> QED BY <2>1, <2>5, <3>3 DEF OpenRowFor, DoneSomewhere, RowsOf
  <2>6. ASSUME Discovery(j), NEW d \in 1..Chunks, ~DoneSomewhere(Key(j, "discover", d)) PROVE FALSE
    <3> DEFINE T == {c \in 1..Chunks : ~DoneSomewhere(Key(j, "discover", c))}
               f == [c \in 1..Chunks |-> c]
    <3>1. PICK c \in T : \A e \in T : c <= e
      <4>1. IsFiniteSet(1..Chunks)
        <5>1. 1 \in Int /\ Chunks \in Int
          BY ConstantsAssumption
        <5> QED BY <5>1, FS_Interval
      <4>2. f \in [1..Chunks -> Nat] /\ T \in SUBSET (1..Chunks) /\ T # {}
        BY <2>6
      <4>3. PICK m \in T : \A e \in T : f[m] <= f[e]
        <5> HIDE DEF f, T
        <5> QED BY <4>1, <4>2, MinExists
      <4> QED BY <4>3
    <3>2. c \in 1..Chunks /\ Chunks \in Nat /\ ~DoneSomewhere(Key(j, "discover", c))
      BY <3>1, ConstantsAssumption
    <3>3. CASE c = 1
      <4>1. Key(j, "discover", c) \in FirstKeys(j, producer[j])
        BY <2>6, <3>2, <3>3 DEF FirstKeys
      <4>2. RowFor(task, Key(j, "discover", c))
        BY <2>2, <4>1 DEF Started
      <4> QED BY <2>4, <3>2, <4>2 DEF Key
    <3>4. CASE c # 1
      <4>1. c - 1 \in 1..Chunks /\ c - 1 \notin T
        BY <3>1, <3>2, <3>4
      <4>2. DoneSomewhere(Key(j, "discover", c - 1))
        BY <4>1
      <4>3. ASSUME NEW t \in RowsOf(Key(j, "discover", c - 1))
            PROVE  \E x \in NextRows(t, TRUE) : x[1] = Key(j, "discover", c)
        <5>1. t.stage = "discover" /\ t.job = j /\ t.on + 1 = c /\ t.on < Chunks
          BY <3>2, <4>1 DEF RowsOf, Key
        <5>2. <<Key(j, "discover", c), "pending">> \in NextRows(t, TRUE)
          BY <5>1 DEF NextRows
        <5> QED BY <5>2
      <4> QED BY <2>5, <3>2, <4>2, <4>3 DEF Key
    <3> QED BY <3>3, <3>4
  <2>7. ASSUME ~Discovery(j), NEW o \in Targets(j), NEW s \in Required(j)
        PROVE  DoneSomewhere(Key(j, s, o))
    <3>1. Key(j, FirstStage(j), o) \in FirstKeys(j, producer[j])
      <4>1. PICK i \in DOMAIN JobSpec[j].targets : o = JobSpec[j].targets[i]
        BY <2>7 DEF Targets
      <4>2. i \in 1..Len(JobSpec[j].targets)
        BY <4>1, ConstantsAssumption DEF JobSpecs
      <4> QED BY <2>3, <2>7, <4>1, <4>2 DEF FirstKeys
    <3>2. DoneSomewhere(Key(j, FirstStage(j), o))
      <4>1. RowFor(task, Key(j, FirstStage(j), o))
        BY <2>2, <3>1 DEF Started
      <4> QED BY <2>4, <4>1, FirstStageUngated DEF Key
    <3>3. CASE JobSpec[j].mode # "full"
      <4>1. JobSpec[j].mode \notin {"discover", "discover+route", "discover+full"}
        BY <2>7 DEF Discovery
      <4>2. Required(j) = {FirstStage(j)}
        BY <3>3, <4>1 DEF Required, FirstStage, Discovery
      <4> QED BY <3>2, <4>2
    <3>4. CASE JobSpec[j].mode = "full"
      <4>1. Full(j) /\ FirstStage(j) = "route" /\ s \in TestStages
        BY <2>7, <3>4 DEF Full, FirstStage, Discovery, Required
      <4>2. ASSUME NEW a, NEW b, NEW t \in RowsOf(Key(j, a, o)),
                   (a = "route" /\ b = "connectivity") \/ (a = "connectivity" /\ b = "speed")
            PROVE  \E x \in NextRows(t, TRUE) : x[1] = Key(j, b, o)
        <5>1. t.job = j /\ t.on = o /\ t.stage = a
          BY DEF RowsOf, Key
        <5>2. <<Key(j, b, o), "pending">> \in NextRows(t, TRUE)
          BY <4>1, <4>2, <5>1 DEF NextRows
        <5> QED BY <5>2
      <4>3. DoneSomewhere(Key(j, "connectivity", o))
        BY <2>5, <3>2, <4>1, <4>2 DEF Key
      <4>4. DoneSomewhere(Key(j, "speed", o))
        <5>1. ASSUME NEW t \in RowsOf(Key(j, "connectivity", o))
              PROVE  \E x \in NextRows(t, TRUE) : x[1] = Key(j, "speed", o)
          BY <4>2, <5>1
        <5>2. Key(j, "connectivity", o).job = j /\ Key(j, "speed", o).job = j
          BY DEF Key
        <5> QED BY <2>5, <4>3, <5>1, <5>2
      <4>5. s \in {"route", "connectivity", "speed"}
        BY <4>1 DEF TestStages, Stages
      <4>6. DoneSomewhere(Key(j, "route", o))
        BY <3>2, <4>1
      <4> QED BY ONLY <4>3, <4>4, <4>5, <4>6
    <3> QED BY <3>3, <3>4
  <2> QED BY <2>3, <2>6, <2>7
<1>2. Inv => PipelineComplete
  BY <1>1 DEF PipelineComplete
<1> QED BY <1>2, Inductive, JobsInvariant, PipelineInvariant, PTL
=============================================================================
