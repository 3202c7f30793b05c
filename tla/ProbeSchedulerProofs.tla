------------------------ MODULE ProbeSchedulerProofs ------------------------
(***************************************************************************)
(* Proofs about ProbeScheduler for every value of its constants: types,    *)
(* locks, the failover chain, the fencing of attempts, and that it         *)
(* implements FencedTasks.                                                 *)
(*                                                                         *)
(* Every operation rewrites the task table in one or two stages: the sweep *)
(* first, then the operation's own rows.  Two notions carry the argument.  *)
(*   Sound(tk)        tk is a task table each row of which respects its    *)
(*                    job's chain, and has a job                           *)
(*   Follows(tk, uk)  uk comes from tk without starting an attempt, without *)
(*                    moving an attempt, a lock or a generation, and       *)
(*                    without moving a managed row up its chain            *)
(* Both hold of each stage on its own, so they hold of the whole.          *)
(***************************************************************************)
EXTENDS ProbeScheduler, FiniteSetTheorems, WellFoundedInduction, TLAPS

\* A row of generation g respects its job's chain.
RowMonotone(t, r) ==
  r.state # "absent" =>
    IF JobSpec[t.job].managed THEN r.gen < rank[t.job][r.node] ELSE r.gen = 0

RowHasJob(t, r) == jobState[t.job] = "absent" => r.state = "absent"

\* A row that was never inserted was never claimed.
RowUnclaimed(r) == r.state = "absent" => r.claims = 0

Sound(tk) ==
  /\ tk \in [TaskIds -> Rows]
  /\ \A t \in TaskIds : RowMonotone(t, tk[t]) /\ RowHasJob(t, tk[t]) /\ RowUnclaimed(tk[t])

RowFollows(t, r, q) ==
  /\ r.state # "absent" =>
       /\ q.state # "absent"
       /\ JobSpec[t.job].managed => rank[t.job][q.node] >= rank[t.job][r.node]
  /\ q.state \in Active =>
       /\ r.state \in Active /\ (q.state = "running" => r.state = "running")
       /\ q.node = r.node /\ q.attempt = r.attempt /\ q.gen = r.gen
  /\ q.claims = r.claims

Follows(tk, uk) == \A t \in TaskIds : RowFollows(t, tk[t], uk[t])

\* A producer belongs to a managed job and respects its chain.
ProducerSound(j, p) ==
  p.state # "none" =>
    /\ JobSpec[j].managed /\ jobState[j] # "absent"
    /\ p.gen < rank[j][p.node]

IInv ==
  /\ TypeOK
  /\ Sound(task)
  /\ \A j \in Jobs : ProducerSound(j, producer[j])

-----------------------------------------------------------------------------
(***************************************************************************)
(* The chain.                                                              *)
(***************************************************************************)
\* A finite set on which a function to Nat is defined has a least element: the
\* sets of smaller elements are well ordered by inclusion.
LEMMA MinExists ==
  ASSUME NEW S, IsFiniteSet(S), NEW f \in [S -> Nat], NEW T \in SUBSET S, T # {}
  PROVE  \E x \in T : \A y \in T : f[x] <= f[y]
<1> DEFINE Below(x) == {y \in T : f[y] < f[x]}
           B == {Below(x) : x \in T}
           L == StrictSubsetOrdering(S)
           F == FiniteSubsetsOf(S)
<1>1. B \subseteq F /\ B # {}
  <2>1. \A x \in T : Below(x) \in SUBSET S
    OBVIOUS
  <2>2. \A D \in SUBSET S : IsFiniteSet(D)
    BY FS_Subset
  <2> QED BY <2>1, <2>2 DEF FiniteSubsetsOf
<1>2. IsWellFoundedOn(L, F)
  BY FS_StrictSubsetOrderingWellFounded
<1>3. \E D \in B : \A E \in B : ~(<<E, D>> \in L)
  <2> HIDE DEF B, L, F
  <2> QED BY <1>1, <1>2, WFMin
<1>4. PICK x \in T : \A y \in T : ~(<<Below(y), Below(x)>> \in L)
  BY <1>3
<1>5. ASSUME NEW y \in T, f[y] < f[x] PROVE FALSE
  <2>1. Below(y) \in SUBSET S /\ Below(x) \in SUBSET S
    OBVIOUS
  <2>2. Below(y) \subseteq Below(x) /\ y \in Below(x) /\ y \notin Below(y)
    BY <1>5
  <2>3. <<Below(y), Below(x)>> \in L
    BY <2>1, <2>2 DEF StrictSubsetOrdering
  <2> QED BY <2>3, <1>4
<1> QED
  BY <1>5

\* The backup that a row fails over to is a node beyond its owner in the chain,
\* or there is none.
LEMMA NextBackupBeyond ==
  ASSUME NEW nd, NEW j \in Jobs, NEW n \in Nodes, rank \in [Jobs -> [Nodes -> Nat]]
  PROVE  LET b == NextBackup(nd, j, n)
         IN  b # NoNode => b \in Nodes /\ rank[j][b] > rank[j][n] /\ rank[j][n] > 0
<1> DEFINE T == LaterOwners(nd, j, n)
<1>1. T \in SUBSET Nodes
  BY DEF LaterOwners
<1>2. rank[j] \in [Nodes -> Nat]
  OBVIOUS
<1>3. CASE T = {}
  BY <1>3 DEF NextBackup
<1>4. CASE T # {}
  <2>1. \E b \in T : \A c \in T : rank[j][b] <= rank[j][c]
    <3> HIDE DEF T
    <3> QED BY <1>1, <1>2, <1>4, MinExists, ConstantsAssumption
  <2>2. NextBackup(nd, j, n) \in T
    BY <1>4, <2>1 DEF NextBackup
  <2> QED BY <2>2 DEF LaterOwners
<1> QED BY <1>3, <1>4

\* The chain that a job freezes, and the place of its first owner in it.
LEMMA ChainType ==
  ASSUME TypeOK
  PROVE  /\ Chain(policy) \in [Nodes -> Nat]
         /\ ValidPolicy(policy) => policy[1] \in Nodes /\ Chain(policy)[policy[1]] > 0
<1> DEFINE others == {n \in Workers : FullWorker(n) /\ \A i \in DOMAIN policy : policy[i] # n}
<1>1. policy \in Seq(Workers)
  BY DEF TypeOK
<1>2. \A D \in SUBSET Nodes : Cardinality(D) \in Nat
  BY FS_Subset, FS_CardinalityType, ConstantsAssumption
<1>3. \A n \in Nodes : (\E i \in DOMAIN policy : policy[i] = n) => Position(policy, n) \in DOMAIN policy
  BY DEF Position
<1>4. Cardinality(others) \in Nat
        /\ \A n \in Nodes :
             Cardinality({m \in others : CreationOrder[m] <= CreationOrder[n]}) \in Nat
  <2>1. others \in SUBSET Nodes
           /\ \A n \in Nodes : {m \in others : CreationOrder[m] <= CreationOrder[n]} \in SUBSET Nodes
    BY DEF Workers
  <2> HIDE DEF others
  <2> QED BY <1>2, <2>1
<1>5. Len(policy) \in Nat /\ DOMAIN policy = 1..Len(policy)
  BY <1>1
<1>6. Chain(policy) \in [Nodes -> Nat]
  <2> DEFINE at(n) ==
        IF n = Console THEN Len(policy) + Cardinality(others) + 1
        ELSE IF n \in others
          THEN Len(policy) + Cardinality({m \in others : CreationOrder[m] <= CreationOrder[n]})
        ELSE IF \E i \in DOMAIN policy : policy[i] = n THEN Position(policy, n)
        ELSE 0
  <2>1. Chain(policy) = [n \in Nodes |-> at(n)]
    BY DEF Chain
  <2>2. ASSUME NEW n \in Nodes PROVE at(n) \in Nat
    <3> HIDE DEF others
    <3> QED BY <1>3, <1>4, <1>5
  <2> HIDE DEF at
  <2> QED BY <2>1, <2>2
<1>7. ASSUME ValidPolicy(policy)
      PROVE  policy[1] \in Nodes /\ Chain(policy)[policy[1]] > 0
  <2>1. 1 \in DOMAIN policy /\ policy[1] \in Workers
    BY <1>1, <1>5, <1>7 DEF ValidPolicy
  <2>2. policy[1] \in Nodes /\ policy[1] # Console /\ policy[1] \notin others
    BY <2>1 DEF Workers
  <2>3. Chain(policy)[policy[1]] = Position(policy, policy[1])
    BY <2>1, <2>2 DEF Chain
  <2> QED BY <1>3, <1>5, <2>1, <2>2, <2>3
<1> QED BY <1>6, <1>7

-----------------------------------------------------------------------------
(***************************************************************************)
(* The sweep.                                                              *)
(***************************************************************************)
LEMMA TaskJob ==
  ASSUME NEW t \in TaskIds PROVE t.job \in Jobs
  BY DEF TaskIds

\* A row that fails over is pending at a later owner, or parked where it is.
LEMMA FailOverSound ==
  ASSUME NEW nd, NEW t \in TaskIds, NEW r \in Rows,
         rank \in [Jobs -> [Nodes -> Nat]], JobSpec[t.job].managed,
         r.state # "absent", RowMonotone(t, r)
  PROVE  LET q == FailOver(nd, t, r)
         IN  /\ q \in Rows /\ q.state = "pending" /\ q.claims = r.claims
             /\ RowMonotone(t, q) /\ rank[t.job][q.node] >= rank[t.job][r.node]
<1> DEFINE b == NextBackup(nd, t.job, r.node)
<1>1. t.job \in Jobs /\ r.node \in Nodes /\ r.gen \in Nat /\ r.gen < rank[t.job][r.node]
  BY TaskJob DEF Rows, RowMonotone
<1>2. b # NoNode => b \in Nodes /\ rank[t.job][b] > rank[t.job][r.node]
  BY <1>1, NextBackupBeyond
<1>3. CASE b = NoNode
  <2>1. FailOver(nd, t, r) = Park(r)
    BY <1>3 DEF FailOver
  <2>2. /\ Park(r) \in Rows /\ Park(r).state = "pending"
        /\ Park(r).node = r.node /\ Park(r).gen = r.gen /\ Park(r).claims = r.claims
    BY DEF Park, Rows, Live, Active, Terminal, Errors
  <2> QED BY <1>1, <2>1, <2>2 DEF RowMonotone
<1>4. CASE b # NoNode
  <2>1. FailOver(nd, t, r) = Transfer(r, b)
    BY <1>4 DEF FailOver
  <2> HIDE DEF b
  <2>2. Transfer(r, b) \in Rows
    <3>1. r.gen + 1 \in Nat
      BY <1>1
    <3> QED BY <3>1, <1>2, <1>4 DEF Transfer, Rows, Live, Active, Terminal, Errors, NoClaimYet
  <2>3. /\ Transfer(r, b).state = "pending" /\ Transfer(r, b).node = b
        /\ Transfer(r, b).gen = r.gen + 1 /\ Transfer(r, b).claims = r.claims
    BY DEF Transfer, Rows
  <2> QED BY <1>1, <1>2, <1>4, <2>1, <2>2, <2>3 DEF RowMonotone
<1> QED BY <1>3, <1>4

\* A row whose lease has run out ends, waits or moves down its chain.
LEMMA ExpiredRowSound ==
  ASSUME NEW nd, NEW t \in TaskIds, rank \in [Jobs -> [Nodes -> Nat]], Sound(task)
  PROVE  /\ ExpiredRow(nd, t) \in Rows
         /\ RowMonotone(t, ExpiredRow(nd, t)) /\ RowFollows(t, task[t], ExpiredRow(nd, t))
         /\ task[t].state = "absent" => ExpiredRow(nd, t) = task[t]
<1> DEFINE r == task[t]
           q == ExpiredRow(nd, t)
<1>1. r \in Rows /\ RowMonotone(t, r)
  BY DEF Sound
<1>2. CASE ~(r.state \in Active /\ t \notin leased)
  BY <1>1, <1>2, TaskJob DEF ExpiredRow, RowFollows, Rows
<1>3. CASE r.state \in Active /\ t \notin leased
  <2>1. q = LeaseLost(nd, t, r) /\ r.state # "absent"
    BY <1>3 DEF ExpiredRow, Active
  <2>2. CASE r.state = "cancelling"
    <3> DEFINE st == CancelledState(r)
    <3>1. st \in {"stopped", "skipped"}
      BY DEF CancelledState
    <3>2. q = [r EXCEPT !.state = st, !.error = "fault"]
      BY <2>1, <2>2 DEF LeaseLost
    <3> HIDE DEF st, q
    <3>3. q \in Rows /\ q.state = st /\ q.node = r.node /\ q.gen = r.gen /\ q.claims = r.claims
      BY <1>1, <3>1, <3>2 DEF Rows, Live, Active, Terminal, Errors
    <3> QED BY <1>1, <2>1, <3>1, <3>3, TaskJob DEF RowFollows, RowMonotone, Rows, Active, q
  <2>3. CASE r.state = "running" /\ JobSpec[t.job].managed /\ ~Usable(nd, t.job, r.node, r.gen)
    <3>1. q = FailOver(nd, t, r)
      BY <2>1, <2>3 DEF LeaseLost
    <3> QED BY <1>1, <2>1, <2>3, <3>1, FailOverSound DEF RowFollows, Active
  <2>4. CASE r.state # "cancelling"
               /\ ~(r.state = "running" /\ JobSpec[t.job].managed /\ ~Usable(nd, t.job, r.node, r.gen))
    <3> DEFINE st == IF r.attempts < AttemptLimit THEN "pending" ELSE "failed"
    <3>1. st \in {"pending", "failed"}
      OBVIOUS
    <3>2. q = [r EXCEPT !.state = st, !.error = "fault"]
      BY <2>1, <2>4 DEF LeaseLost
    <3> HIDE DEF st, q
    <3>3. q \in Rows /\ q.state = st /\ q.node = r.node /\ q.gen = r.gen /\ q.claims = r.claims
      BY <1>1, <3>1, <3>2 DEF Rows, Live, Active, Terminal, Errors
    <3> QED BY <1>1, <2>1, <3>1, <3>3, TaskJob DEF RowFollows, RowMonotone, Rows, Active, q
  <2> QED BY <2>2, <2>3, <2>4
<1> QED BY <1>2, <1>3

\* So does a pending row whose owner is unusable.
LEMMA SweptRowSound ==
  ASSUME NEW nd, NEW t \in TaskIds, rank \in [Jobs -> [Nodes -> Nat]], Sound(task)
  PROVE  /\ SweptRow(nd, t) \in Rows
         /\ RowMonotone(t, SweptRow(nd, t)) /\ RowFollows(t, task[t], SweptRow(nd, t))
         /\ task[t].state = "absent" => SweptRow(nd, t) = task[t]
<1> DEFINE r == ExpiredRow(nd, t)
           q == SweptRow(nd, t)
<1>1. r \in Rows /\ RowMonotone(t, r) /\ RowFollows(t, task[t], r)
        /\ (task[t].state = "absent" => r = task[t])
  BY ExpiredRowSound
<1>2. CASE ~(r.state = "pending" /\ JobSpec[t.job].managed /\ jobState[t.job] = "running")
  BY <1>1, <1>2 DEF SweptRow
<1>3. CASE /\ r.state = "pending" /\ JobSpec[t.job].managed /\ jobState[t.job] = "running"
           /\ ~Usable(nd, t.job, r.node, r.gen)
  <2>1. q = FailOver(nd, t, r)
    BY <1>3 DEF SweptRow
  <2>2. /\ q \in Rows /\ q.state = "pending" /\ q.claims = r.claims /\ RowMonotone(t, q)
        /\ rank[t.job][q.node] >= rank[t.job][r.node]
    BY <1>1, <1>3, <2>1, FailOverSound
  <2>3. task[t].node \in Nodes /\ r.node \in Nodes /\ q.node \in Nodes /\ task[t].state # "absent"
    BY <1>1, <1>3, <2>2 DEF Sound, Rows
  <2> QED BY <1>1, <1>3, <2>2, <2>3, TaskJob DEF RowFollows, Active
<1>4. CASE /\ r.state = "pending" /\ JobSpec[t.job].managed /\ jobState[t.job] = "running"
           /\ Usable(nd, t.job, r.node, r.gen)
  <2>1. q = r \/ q = [r EXCEPT !.waiting = FALSE, !.error = ""]
    BY <1>4 DEF SweptRow
  <2> QED BY <1>1, <1>4, <2>1 DEF RowFollows, RowMonotone, Rows, Active, Errors
<1> QED BY <1>2, <1>3, <1>4

\* The sweep starts nothing and moves rows down their chains only.
LEMMA SweptSound ==
  ASSUME NEW nd, rank \in [Jobs -> [Nodes -> Nat]], Sound(task)
  PROVE  /\ Sound(Swept(nd)) /\ Follows(task, Swept(nd))
         /\ \A t \in TaskIds : task[t].state = "absent" => Swept(nd)[t] = task[t]
<1>1. ASSUME NEW t \in TaskIds PROVE Swept(nd)[t] = SweptRow(nd, t)
  BY DEF Swept
<1>2. Swept(nd) \in [TaskIds -> Rows]
  BY SweptRowSound DEF Swept
<1>3. ASSUME NEW t \in TaskIds
      PROVE  RowHasJob(t, SweptRow(nd, t)) /\ RowUnclaimed(SweptRow(nd, t))
  <2>1. /\ task[t].state = "absent" => SweptRow(nd, t) = task[t]
        /\ task[t].state # "absent" => SweptRow(nd, t).state # "absent"
    BY SweptRowSound DEF RowFollows
  <2> QED BY <2>1 DEF Sound, RowHasJob, RowUnclaimed
<1>4. ASSUME NEW t \in TaskIds
      PROVE  /\ RowMonotone(t, SweptRow(nd, t)) /\ RowFollows(t, task[t], SweptRow(nd, t))
             /\ task[t].state = "absent" => SweptRow(nd, t) = task[t]
  BY SweptRowSound
<1> QED BY <1>1, <1>2, <1>3, <1>4 DEF Sound, Follows

\* A producer moves down the chain of its job, one generation at a time.
LEMMA SweptProducerSound ==
  ASSUME NEW nd, NEW j \in Jobs, rank \in [Jobs -> [Nodes -> Nat]],
         producer \in [Jobs -> ProducerRows], ProducerSound(j, producer[j])
  PROVE  LET q == SweptProducers(nd)[j]
         IN  q \in ProducerRows /\ ProducerSound(j, q) /\ q = SweptProducer(nd, j)
<1> DEFINE p == producer[j]
           b == NextBackup(nd, j, p.node)
           q == SweptProducer(nd, j)
<1>1. p \in ProducerRows /\ SweptProducers(nd)[j] = q
  BY DEF SweptProducers
<1>2. p.node \in Nodes /\ p.gen \in Nat /\ (b # NoNode => b \in Nodes /\ rank[j][b] > rank[j][p.node])
  BY <1>1, NextBackupBeyond DEF ProducerRows
<1>3. CASE q = p
  BY <1>1, <1>3
<1>4. CASE q # p
  <2>1. LiveProducer(p)
    BY <1>4 DEF SweptProducer
  <2>2. p.gen < rank[j][p.node] /\ JobSpec[j].managed /\ jobState[j] # "absent"
    BY <2>1 DEF ProducerSound, LiveProducer
  <2>3. \/ q = [p EXCEPT !.waiting = FALSE, !.state = "queued"]
        \/ q = [p EXCEPT !.waiting = FALSE, !.state = "running"]
        \/ q = [p EXCEPT !.state = "waiting", !.waiting = TRUE]
        \/ /\ b # NoNode
           /\ q = [p EXCEPT !.node = b, !.gen = @ + 1, !.state = "running", !.waiting = FALSE]
    BY <1>4 DEF SweptProducer
  <2>4. p.gen + 1 \in Nat /\ rank[j] \in [Nodes -> Nat]
    BY <1>2
  <2> HIDE DEF b, q
  <2>5. q \in ProducerRows
    BY <1>1, <1>2, <2>3, <2>4 DEF ProducerRows
  <2>6. \/ q.node = p.node /\ q.gen = p.gen
        \/ b # NoNode /\ q.node = b /\ q.gen = p.gen + 1
    BY <1>1, <2>3 DEF ProducerRows
  <2>7. ProducerSound(j, q)
    BY <1>2, <2>2, <2>4, <2>6 DEF ProducerSound
  <2> QED BY <1>1, <2>5, <2>7 DEF q
<1> QED BY <1>3, <1>4

-----------------------------------------------------------------------------
(***************************************************************************)
(* Insertion.                                                              *)
(***************************************************************************)
\* A generation g that may be given to a row of node n.
Fits(j, n, g) == IF JobSpec[j].managed THEN g < rank[j][n] ELSE g = 0

\* An insertion that meets a row raises its generation only where the chain allows.
LEMMA TouchedSound ==
  ASSUME NEW t \in TaskIds, NEW r \in Rows, NEW g \in Nat, NEW st,
         r.state # "absent", RowMonotone(t, r), Fits(t.job, r.node, g),
         rank \in [Jobs -> [Nodes -> Nat]]
  PROVE  LET q == Touched(r, st, g)
         IN  /\ q \in Rows /\ q.state # "absent" /\ RowMonotone(t, q) /\ RowFollows(t, r, q)
<1> DEFINE q == Touched(r, st, g)
<1>1. \/ q = r
      \/ q = [r EXCEPT !.state = "pending", !.error = "", !.gen = g, !.waiting = FALSE]
      \/ /\ r.state = "pending"
         /\ \E e \in {"", r.error} : q = [r EXCEPT !.gen = g, !.waiting = FALSE, !.error = e]
  BY DEF Touched
<1> HIDE DEF q
<1>2. /\ q \in Rows /\ q.node = r.node /\ q.claims = r.claims
      /\ q = r \/ (q.state = "pending" /\ q.gen = g)
  <2>1. CASE q = r
    BY ONLY r \in Rows, <2>1
  <2>2. CASE q = [r EXCEPT !.state = "pending", !.error = "", !.gen = g, !.waiting = FALSE]
    <3>1. q \in Rows
      BY ONLY r \in Rows, g \in Nat, <2>2 DEF Rows, Live, Errors
    <3>2. q.node = r.node /\ q.claims = r.claims /\ q.state = "pending" /\ q.gen = g
      BY ONLY r \in Rows, <2>2 DEF Rows
    <3> QED BY ONLY <3>1, <3>2
  <2>3. CASE /\ r.state = "pending"
             /\ \E e \in {"", r.error} : q = [r EXCEPT !.gen = g, !.waiting = FALSE, !.error = e]
    <3>1. PICK e \in {"", r.error} : q = [r EXCEPT !.gen = g, !.waiting = FALSE, !.error = e]
      BY ONLY <2>3
    <3>2. q \in Rows
      BY ONLY r \in Rows, g \in Nat, <3>1 DEF Rows, Errors
    <3>3. q.node = r.node /\ q.claims = r.claims /\ q.state = "pending" /\ q.gen = g
      BY ONLY r \in Rows, <2>3, <3>1 DEF Rows
    <3> QED BY ONLY <3>2, <3>3
  <2> QED BY ONLY <1>1, <2>1, <2>2, <2>3
<1>3. r.node \in Nodes /\ rank[t.job][r.node] \in Nat
  BY TaskJob DEF Rows
<1>4. q.state # "absent"
  BY <1>2
<1>5. RowMonotone(t, q)
  <2>1. CASE q = r
    BY <2>1
  <2>2. CASE q.gen = g
    BY ONLY <1>2, <2>2, Fits(t.job, r.node, g) DEF RowMonotone, Fits
  <2> QED BY <1>2, <2>1, <2>2
<1>6. RowFollows(t, r, q)
  <2>1. q.state \in Active => q = r
    BY <1>2 DEF Active
  <2>2. q.state \in Active =>
          /\ r.state \in Active /\ (q.state = "running" => r.state = "running")
          /\ q.node = r.node /\ q.attempt = r.attempt /\ q.gen = r.gen
    BY ONLY <2>1
  <2>3. rank[t.job][q.node] >= rank[t.job][r.node]
    BY ONLY <1>2, <1>3
  <2> QED BY ONLY <1>2, <1>4, <2>2, <2>3 DEF RowFollows
<1>7. q \in Rows
  BY <1>2
<1> QED BY ONLY <1>4, <1>5, <1>6, <1>7 DEF q

\* A fresh row fits the chain when its generation fits its owner.
LEMMA NewRowSound ==
  ASSUME NEW t \in TaskIds, NEW n \in Nodes, NEW g \in Nat, NEW st \in {"pending", "skipped"},
         Fits(t.job, n, g)
  PROVE  LET q == NewRow(n, st, g)
         IN  /\ q \in Rows /\ q.state = st /\ q.claims = 0 /\ RowMonotone(t, q)
<1> DEFINE q == NewRow(n, st, g)
<1>1. \E e \in {"", "dependency"} :
         q = [NoRow EXCEPT !.node = n, !.state = st, !.gen = g, !.error = e]
  BY DEF NewRow
<1> HIDE DEF q
<1>2. NoRow \in Rows /\ NoRow.claims = 0
  BY ConstantsAssumption DEF NoRow, Rows, Live, Active, Terminal, Errors, NoClaimYet
<1>3. q \in Rows /\ q.state = st /\ q.claims = 0 /\ q.node = n /\ q.gen = g
  BY <1>1, <1>2 DEF Rows, Live, Active, Terminal, Errors
<1> QED BY <1>3 DEF RowMonotone, Fits, q

\* Inserting a row, or meeting the one that is there, starts nothing.
LEMMA InsertSound ==
  ASSUME NEW tk, Sound(tk), NEW k, NEW n \in Nodes, NEW g \in Nat, NEW st \in {"pending", "skipped"},
         rank \in [Jobs -> [Nodes -> Nat]], jobState[k.job] # "absent",
         InsertFits(tk, k, n), Fits(k.job, n, g)
  PROVE  Sound(Insert(tk, k, n, st, g)) /\ Follows(tk, Insert(tk, k, n, st, g))
<1> DEFINE uk == Insert(tk, k, n, st, g)
<1>1. CASE Present(tk, k, n) # {}
  <2>1. uk = [t \in TaskIds |-> IF t \in Present(tk, k, n) THEN Touched(tk[t], st, g) ELSE tk[t]]
    BY <1>1 DEF Insert
  <2>2. ASSUME NEW t \in TaskIds
        PROVE  /\ uk[t] \in Rows /\ RowMonotone(t, uk[t]) /\ RowHasJob(t, uk[t])
               /\ RowUnclaimed(uk[t]) /\ RowFollows(t, tk[t], uk[t])
    <3>1. CASE t \in Present(tk, k, n)
      <4>1. tk[t].state # "absent" /\ tk[t].node = n /\ t.job = k.job /\ uk[t] = Touched(tk[t], st, g)
        BY <2>1, <3>1 DEF Present, RowsOf
      <4> QED BY <4>1, TouchedSound DEF Sound, RowHasJob, RowUnclaimed
    <3>2. CASE t \notin Present(tk, k, n)
      <4>1. uk[t] = tk[t] /\ tk[t] \in Rows
        BY <2>1, <3>2 DEF Sound
      <4>2. RowFollows(t, tk[t], tk[t])
        BY <4>1, TaskJob DEF RowFollows, Rows
      <4> QED BY <4>1, <4>2 DEF Sound
    <3> QED BY <3>1, <3>2
  <2> QED BY <2>1, <2>2 DEF Sound, Follows
<1>2. CASE Present(tk, k, n) = {}
  <2> DEFINE new == CHOOSE t \in Unused(tk, k) : TRUE
  <2>1. new \in Unused(tk, k)
    BY <1>2 DEF InsertFits
  <2>2. uk = [t \in TaskIds |-> IF t = new THEN NewRow(n, st, g) ELSE tk[t]]
    BY <1>2 DEF Insert
  <2>3. new \in TaskIds /\ new.job = k.job /\ tk[new].state = "absent"
    BY <2>1 DEF Unused, RowsOf
  <2> HIDE DEF new
  <2>4. ASSUME NEW t \in TaskIds
        PROVE  /\ uk[t] \in Rows /\ RowMonotone(t, uk[t]) /\ RowHasJob(t, uk[t])
               /\ RowUnclaimed(uk[t]) /\ RowFollows(t, tk[t], uk[t])
    <3>1. CASE t = new
      <4>1. uk[t] = NewRow(n, st, g) /\ tk[t].claims = 0
        BY <2>2, <2>3, <3>1 DEF Sound, RowUnclaimed
      <4> QED BY <2>3, <3>1, <4>1, NewRowSound DEF RowHasJob, RowUnclaimed, RowFollows, Active
    <3>2. CASE t # new
      <4>1. uk[t] = tk[t] /\ tk[t] \in Rows
        BY <2>2, <3>2 DEF Sound
      <4>2. RowFollows(t, tk[t], tk[t])
        BY <4>1, TaskJob DEF RowFollows, Rows
      <4> QED BY <4>1, <4>2 DEF Sound
    <3> QED BY <3>1, <3>2
  <2> QED BY <2>2, <2>4 DEF Sound, Follows
<1> QED BY <1>1, <1>2

\* What one stage does and then another, both do.
LEMMA FollowsTransitive ==
  ASSUME NEW tk, NEW uk, NEW vk, Sound(tk), Sound(uk), Sound(vk),
         rank \in [Jobs -> [Nodes -> Nat]], Follows(tk, uk), Follows(uk, vk)
  PROVE  Follows(tk, vk)
<1> SUFFICES ASSUME NEW t \in TaskIds PROVE RowFollows(t, tk[t], vk[t])
  BY DEF Follows
<1>1. tk[t] \in Rows /\ uk[t] \in Rows /\ vk[t] \in Rows
  BY DEF Sound
<1>2. /\ rank[t.job][tk[t].node] \in Nat /\ rank[t.job][uk[t].node] \in Nat
      /\ rank[t.job][vk[t].node] \in Nat
  BY <1>1, TaskJob DEF Rows
<1> QED BY <1>2 DEF Follows, RowFollows

-----------------------------------------------------------------------------
(***************************************************************************)
(* Job states.                                                             *)
(***************************************************************************)
JobStates == {"absent", "running", "done", "failed", "stopped"}

\* Refreshing creates no job and removes none.
LEMMA RefreshType ==
  ASSUME NEW js \in [Jobs -> JobStates], NEW tk, NEW pr, NEW S
  PROVE  /\ Refresh(js, tk, pr, S) \in [Jobs -> JobStates]
         /\ \A j \in Jobs : Refresh(js, tk, pr, S)[j] = "absent" <=> js[j] = "absent"
<1>1. \A j \in Jobs : DerivedState(tk, pr, j) \in {"running", "failed", "done"}
  BY DEF DerivedState
<1> QED BY <1>1 DEF Refresh, JobStates

-----------------------------------------------------------------------------
(***************************************************************************)
(* Steps.  A step follows the task table, or it starts one row of a table  *)
(* that follows it.                                                        *)
(***************************************************************************)
\* A row that keeps its place, its generation and its claims.
RowKeeps(r, q) ==
  /\ q.node = r.node /\ q.gen = r.gen /\ q.claims = r.claims
  /\ q.state = "absent" <=> r.state = "absent"
  /\ q.state \in Active =>
       /\ r.state \in Active /\ (q.state = "running" => r.state = "running")
       /\ q.attempt = r.attempt

Starts(tk, t, n) ==
  /\ Sound(tk) /\ Follows(task, tk)
  /\ tk[t].state = "pending" /\ tk[t].node = n /\ ~Blocked(tk, t, n)
  /\ task' = [tk EXCEPT ![t] = Granted(tk[t])]
  /\ grants' = grants \cup {[task |-> t, attempt |-> tk[t].claims + 1, node |-> n, gen |-> tk[t].gen]}

Moves ==
  /\ grants \subseteq grants'
  /\ Follows(task, task') \/ \E tk : \E t \in TaskIds, n \in Nodes : Starts(tk, t, n)

\* A table whose rows keep their places is sound and follows.
LEMMA KeepsSound ==
  ASSUME NEW tk, NEW uk \in [TaskIds -> Rows], Sound(tk), rank \in [Jobs -> [Nodes -> Nat]],
         \A t \in TaskIds : RowKeeps(tk[t], uk[t])
  PROVE  Sound(uk) /\ Follows(tk, uk)
<1> SUFFICES ASSUME NEW t \in TaskIds
             PROVE  /\ RowMonotone(t, uk[t]) /\ RowHasJob(t, uk[t]) /\ RowUnclaimed(uk[t])
                    /\ RowFollows(t, tk[t], uk[t])
  BY DEF Sound, Follows
<1>1. /\ tk[t] \in Rows /\ RowMonotone(t, tk[t]) /\ RowHasJob(t, tk[t]) /\ RowUnclaimed(tk[t])
      /\ RowKeeps(tk[t], uk[t])
  BY DEF Sound
<1>2. rank[t.job][tk[t].node] \in Nat
  BY <1>1, TaskJob DEF Rows
<1> QED BY <1>1, <1>2 DEF RowKeeps, RowMonotone, RowHasJob, RowUnclaimed, RowFollows

\* A row that does not change follows itself.
LEMMA RowFollowsSame ==
  ASSUME NEW t \in TaskIds, NEW r \in Rows, rank \in [Jobs -> [Nodes -> Nat]]
  PROVE  RowFollows(t, r, r)
<1>1. rank[t.job][r.node] \in Nat
  BY TaskJob DEF Rows
<1> QED BY <1>1 DEF RowFollows

\* A table that does not change follows itself.
LEMMA FollowsSame ==
  ASSUME NEW tk, Sound(tk), rank \in [Jobs -> [Nodes -> Nat]]
  PROVE  Follows(tk, tk)
  BY KeepsSound DEF Sound, RowKeeps

\* Soundness does not depend on anything else that a step changes.
LEMMA SoundLater ==
  ASSUME NEW uk, Sound(uk), task' = uk, rank' = rank,
         \A j \in Jobs : jobState'[j] = "absent" => jobState[j] = "absent"
  PROVE  Sound(task)'
  BY TaskJob DEF Sound, RowMonotone, RowHasJob, RowUnclaimed

\* A producer stays sound while its chain stays and jobs are only created.
LEMMA ProducerSoundLater ==
  ASSUME NEW j \in Jobs, NEW p, ProducerSound(j, p), producer'[j] = p, rank' = rank,
         jobState'[j] = "absent" => jobState[j] = "absent"
  PROVE  ProducerSound(j, producer[j])'
  BY DEF ProducerSound

\* Stopping or skipping a row keeps its place.
LEMMA CancelledKeeps ==
  ASSUME NEW r \in Rows, NEW error \in {"stopped", "skipped"}
  PROVE  Cancelled(r, error) \in Rows /\ RowKeeps(r, Cancelled(r, error))
<1> DEFINE q == Cancelled(r, error)
<1>1. \/ q = r
      \/ r.state = "running" /\ q = [r EXCEPT !.state = "cancelling", !.error = error]
      \/ r.state = "pending" /\ q = [r EXCEPT !.state = error, !.error = error]
  BY DEF Cancelled
<1> HIDE DEF q
<1>2. /\ q \in Rows /\ q.node = r.node /\ q.gen = r.gen /\ q.claims = r.claims /\ q.attempt = r.attempt
      /\ \/ q.state = r.state
         \/ r.state = "running" /\ q.state = "cancelling"
         \/ r.state = "pending" /\ q.state \in {"stopped", "skipped"}
  BY <1>1 DEF Rows, Live, Active, Terminal, Errors
<1> QED BY <1>2 DEF RowKeeps, Active, q

\* Retrying a row keeps its place.
LEMMA RetriedKeeps ==
  ASSUME NEW r \in Rows, r.state # "absent"
  PROVE  Retried(r) \in Rows /\ RowKeeps(r, Retried(r))
  BY DEF Retried, RowKeeps, Rows, Live, Active, Terminal, Errors, NoClaimYet

\* Finishing a row keeps its place.
LEMMA FinishedKeeps ==
  ASSUME NEW r \in Rows, NEW outcome, r.state # "absent"
  PROVE  Finished(r, outcome) \in Rows /\ RowKeeps(r, Finished(r, outcome))
<1> DEFINE q == Finished(r, outcome)
<1>1. \E st \in {"pending", "failed", "done"}, e \in {"", "fault"} :
         q = [r EXCEPT !.state = st, !.error = e]
  BY DEF Finished
<1> HIDE DEF q
<1>2. /\ q \in Rows /\ q.node = r.node /\ q.gen = r.gen /\ q.claims = r.claims
      /\ q.state \in {"pending", "failed", "done"}
  BY <1>1 DEF Rows, Live, Active, Terminal, Errors
<1> QED BY <1>2 DEF RowKeeps, Active, q

\* A claimed row is running with a fresh attempt.
LEMMA GrantedType ==
  ASSUME NEW r \in Rows
  PROVE  /\ Granted(r) \in Rows /\ Granted(r).state = "running"
         /\ Granted(r).node = r.node /\ Granted(r).gen = r.gen
         /\ Granted(r).claims = r.claims + 1 /\ Granted(r).attempt = r.claims + 1
<1>1. r.claims \in Nat /\ r.attempts \in Nat /\ r.claims + 1 \in Nat /\ r.attempts + 1 \in Nat
  BY DEF Rows
<1> QED BY <1>1 DEF Granted, Rows, Live, Active

\* The invariant after a step that leaves the chains alone.
LEMMA StepIntro ==
  ASSUME IInv, Sound(task'), rank' = rank,
         jobState' \in [Jobs -> JobStates],
         \A j \in Jobs : jobState'[j] = "absent" => jobState[j] = "absent",
         producer' \in [Jobs -> ProducerRows], \A j \in Jobs : ProducerSound(j, producer'[j]),
         leased' \subseteq TaskIds,
         node' \in [Nodes -> [exists : BOOLEAN, online : BOOLEAN, gen : BOOLEAN, caps : SUBSET Stages]],
         policy' \in Seq(Workers), results' \subseteq Results,
         current' \in [Ips \X TestStages -> Results \cup {NoResult}], grants' \subseteq Grants
  PROVE  IInv'
<1>1. Sound(task)'
  BY SoundLater
<1>2. \A j \in Jobs : ProducerSound(j, producer[j])'
  BY ProducerSoundLater
<1>3. TypeOK'
  BY <1>1 DEF IInv, TypeOK, Sound, JobStates
<1> QED BY <1>1, <1>2, <1>3 DEF IInv

\* What the sweep leaves behind, whatever node table it is given.
LEMMA SweepSound ==
  ASSUME IInv, NEW nd
  PROVE  /\ Sound(Swept(nd)) /\ Follows(task, Swept(nd))
         /\ SweptProducers(nd) \in [Jobs -> ProducerRows]
         /\ \A j \in Jobs : ProducerSound(j, SweptProducers(nd)[j])
         /\ SweptJobs(nd) \in [Jobs -> JobStates]
         /\ \A j \in Jobs : SweptJobs(nd)[j] = "absent" <=> jobState[j] = "absent"
<1>1. rank \in [Jobs -> [Nodes -> Nat]] /\ producer \in [Jobs -> ProducerRows]
        /\ jobState \in [Jobs -> JobStates] /\ Sound(task)
  BY DEF IInv, TypeOK, JobStates
<1>2. ASSUME NEW j \in Jobs
      PROVE  SweptProducers(nd)[j] \in ProducerRows /\ ProducerSound(j, SweptProducers(nd)[j])
  BY <1>1, SweptProducerSound DEF IInv
<1>3. SweptProducers(nd) \in [Jobs -> ProducerRows]
  BY <1>2 DEF SweptProducers
<1> QED BY <1>1, <1>2, <1>3, SweptSound, RefreshType DEF SweptJobs

\* A sweep that commits, with a table in which one node may have changed.
LEMMA SweepStep ==
  ASSUME IInv, NEW nd, Sweep(nd),
         nd \in [Nodes -> [exists : BOOLEAN, online : BOOLEAN, gen : BOOLEAN, caps : SUBSET Stages]]
  PROVE  IInv' /\ Moves
<1>1. Sound(task') /\ Follows(task, task')
  BY SweepSound DEF Sweep
<1>2. IInv'
  BY <1>1, SweepSound, StepIntro DEF IInv, TypeOK, Sweep, StillLeased
<1> QED BY <1>1, <1>2 DEF Moves, Sweep

\* A step that leaves the rows, the chains and the producers alone.
LEMMA QuietStep ==
  ASSUME IInv, UNCHANGED <<jobState, rank, task, producer, grants>>, leased' \subseteq leased,
         node' \in [Nodes -> [exists : BOOLEAN, online : BOOLEAN, gen : BOOLEAN, caps : SUBSET Stages]],
         policy' \in Seq(Workers), results' \subseteq results,
         current' \in [Ips \X TestStages -> Results \cup {NoResult}]
  PROVE  IInv' /\ Moves
<1>1. Follows(task, task')
  BY FollowsSame DEF IInv, TypeOK
<1>2. IInv'
  BY StepIntro DEF IInv, TypeOK, JobStates
<1> QED BY <1>1, <1>2 DEF Moves

\* A step of an operator that keeps every row in its place.
LEMMA KeepingStep ==
  ASSUME IInv, task' \in [TaskIds -> Rows], \A t \in TaskIds : RowKeeps(task[t], task'[t]),
         UNCHANGED <<rank, results, current, grants>>, leased' \subseteq leased,
         node' \in [Nodes -> [exists : BOOLEAN, online : BOOLEAN, gen : BOOLEAN, caps : SUBSET Stages]],
         policy' \in Seq(Workers),
         jobState' \in [Jobs -> JobStates],
         \A j \in Jobs : jobState'[j] = "absent" => jobState[j] = "absent",
         producer' \in [Jobs -> ProducerRows], \A j \in Jobs : ProducerSound(j, producer'[j])
  PROVE  IInv' /\ Moves
<1>1. Sound(task') /\ Follows(task, task')
  BY KeepsSound DEF IInv, TypeOK
<1>2. IInv'
  BY <1>1, StepIntro DEF IInv, TypeOK
<1> QED BY <1>1, <1>2 DEF Moves

\* Stopping or resuming a producer changes neither its owner nor its generation.
LEMMA HaltedSound ==
  ASSUME NEW j \in Jobs, NEW p \in ProducerRows, ProducerSound(j, p), p.state # "none",
         NEW st \in {"stopped", "running", "done"},
         NEW q, q = [p EXCEPT !.state = st, !.waiting = FALSE]
  PROVE  q \in ProducerRows /\ ProducerSound(j, q)
<1>1. q \in ProducerRows /\ q.node = p.node /\ q.gen = p.gen
  BY DEF ProducerRows
<1> QED BY <1>1 DEF ProducerSound

\* Producers of which some are stopped or resumed.
LEMMA HaltedProducers ==
  ASSUME IInv, NEW pr, pr = [j \in Jobs |-> pr[j]],
         \A j \in Jobs :
           \/ pr[j] = producer[j]
           \/ /\ producer[j].state # "none"
              /\ \E st \in {"stopped", "running", "done"} :
                   pr[j] = [producer[j] EXCEPT !.state = st, !.waiting = FALSE]
  PROVE  pr \in [Jobs -> ProducerRows] /\ \A j \in Jobs : ProducerSound(j, pr[j])
<1>1. ASSUME NEW j \in Jobs PROVE pr[j] \in ProducerRows /\ ProducerSound(j, pr[j])
  <2>1. producer[j] \in ProducerRows /\ ProducerSound(j, producer[j])
    BY DEF IInv, TypeOK
  <2>2. ASSUME producer[j].state # "none", NEW st \in {"stopped", "running", "done"},
               pr[j] = [producer[j] EXCEPT !.state = st, !.waiting = FALSE]
        PROVE  pr[j] \in ProducerRows /\ ProducerSound(j, pr[j])
    BY <2>1, <2>2, HaltedSound
  <2> QED BY <2>1, <2>2
<1>2. [j \in Jobs |-> pr[j]] \in [Jobs -> ProducerRows]
  BY <1>1
<1> QED BY <1>1, <1>2

\* Stop and skip, of a job or of a row.
LEMMA StopOrSkipStep ==
  ASSUME IInv, NEW j \in Jobs, NEW S, NEW error \in {"stopped", "skipped"}, StopOrSkip(j, S, error)
  PROVE  IInv' /\ Moves
<1>1. task' \in [TaskIds -> Rows] /\ \A t \in TaskIds : RowKeeps(task[t], task'[t])
  <2>1. ASSUME NEW t \in TaskIds
        PROVE  LET q == IF t.job = j /\ t \in S THEN Cancelled(task[t], error) ELSE task[t]
               IN  q \in Rows /\ RowKeeps(task[t], q)
    BY CancelledKeeps DEF IInv, TypeOK, RowKeeps
  <2> QED BY <2>1 DEF StopOrSkip
<1>2. /\ jobState' \in [Jobs -> JobStates]
      /\ \A i \in Jobs : jobState'[i] = "absent" => jobState[i] = "absent"
  <2> DEFINE js == IF S = TaskIds /\ error = "stopped" THEN [jobState EXCEPT ![j] = "stopped"] ELSE jobState
  <2>1. js \in [Jobs -> JobStates] /\ \A i \in Jobs : js[i] = "absent" => jobState[i] = "absent"
    BY DEF IInv, TypeOK, JobStates
  <2>2. jobState' = Refresh(js, task', producer', Jobs)
    BY DEF StopOrSkip
  <2> HIDE DEF js
  <2> QED BY <2>1, <2>2, RefreshType
<1>3. producer' \in [Jobs -> ProducerRows] /\ \A i \in Jobs : ProducerSound(i, producer'[i])
  <2>1. \/ producer' = producer
        \/ /\ producer[j].state # "none"
           /\ producer' = [producer EXCEPT ![j] = [producer[j] EXCEPT !.state = "stopped", !.waiting = FALSE]]
    BY DEF StopOrSkip, LiveProducer
  <2>2. producer \in [Jobs -> ProducerRows]
    BY DEF IInv, TypeOK
  <2> QED BY <2>1, <2>2, HaltedProducers
<1> QED BY <1>1, <1>2, <1>3, KeepingStep DEF StopOrSkip, StillLeased, IInv, TypeOK

\* Retry, with the resumption of a stopped producer.
LEMMA RetryStep ==
  ASSUME IInv, NEW j \in Jobs, NEW S, Retry(j, S)
  PROVE  IInv' /\ Moves
<1>1. task' \in [TaskIds -> Rows] /\ \A t \in TaskIds : RowKeeps(task[t], task'[t])
  <2>1. ASSUME NEW t \in TaskIds
        PROVE  LET q == IF t.job = j /\ t \in S /\ Retryable(t) THEN Retried(task[t]) ELSE task[t]
               IN  q \in Rows /\ RowKeeps(task[t], q)
    <3>1. task[t] \in Rows
      BY DEF IInv, TypeOK
    <3>2. Retryable(t) => task[t].state # "absent"
      BY DEF Retryable
    <3> QED BY <3>1, <3>2, RetriedKeeps DEF RowKeeps
  <2> QED BY <2>1 DEF Retry
<1>2. /\ jobState' \in [Jobs -> JobStates]
      /\ \A i \in Jobs : jobState'[i] = "absent" => jobState[i] = "absent"
  <2> DEFINE js == [jobState EXCEPT ![j] = "running"]
  <2>1. js \in [Jobs -> JobStates] /\ \A i \in Jobs : js[i] = "absent" => jobState[i] = "absent"
    BY DEF IInv, TypeOK, JobStates
  <2>2. jobState' = Refresh(js, task', producer', Jobs)
    BY DEF Retry
  <2> HIDE DEF js
  <2> QED BY <2>1, <2>2, RefreshType
<1>3. producer' \in [Jobs -> ProducerRows] /\ \A i \in Jobs : ProducerSound(i, producer'[i])
  <2>1. \/ producer' = producer
        \/ /\ producer[j].state # "none"
           /\ \E st \in {"running", "done"} :
                producer' = [producer EXCEPT ![j] = [producer[j] EXCEPT !.state = st, !.waiting = FALSE]]
    BY DEF Retry
  <2>2. producer \in [Jobs -> ProducerRows]
    BY DEF IInv, TypeOK
  <2> QED BY <2>1, <2>2, HaltedProducers
<1> QED BY <1>1, <1>2, <1>3, KeepingStep DEF Retry, IInv, TypeOK

\* One stage of every job is stopped.
LEMMA StopStageStep ==
  ASSUME IInv, NEW stage, StopStage(stage)
  PROVE  IInv' /\ Moves
<1>1. task' \in [TaskIds -> Rows] /\ \A t \in TaskIds : RowKeeps(task[t], task'[t])
  <2>1. ASSUME NEW t \in TaskIds
        PROVE  LET q == IF t.stage = stage THEN Cancelled(task[t], "skipped") ELSE task[t]
               IN  q \in Rows /\ RowKeeps(task[t], q)
    BY CancelledKeeps DEF IInv, TypeOK, RowKeeps
  <2> QED BY <2>1 DEF StopStage
<1>2. /\ jobState' \in [Jobs -> JobStates]
      /\ \A i \in Jobs : jobState'[i] = "absent" => jobState[i] = "absent"
  <2>1. jobState \in [Jobs -> JobStates]
    BY DEF IInv, TypeOK, JobStates
  <2>2. jobState' = Refresh(jobState, task', producer', Jobs)
    BY DEF StopStage
  <2> QED BY <2>1, <2>2, RefreshType
<1>3. producer' \in [Jobs -> ProducerRows] /\ \A i \in Jobs : ProducerSound(i, producer'[i])
  <2>1. ASSUME NEW i \in Jobs
        PROVE  \/ producer'[i] = producer[i]
               \/ /\ producer[i].state # "none"
                  /\ producer'[i] = [producer[i] EXCEPT !.state = "stopped", !.waiting = FALSE]
    BY DEF StopStage, LiveProducer
  <2>2. producer' = [i \in Jobs |-> producer'[i]]
    BY DEF StopStage
  <2> QED BY <2>1, <2>2, HaltedProducers
<1> QED BY <1>1, <1>2, <1>3, KeepingStep DEF StopStage, StillLeased, IInv, TypeOK

\* A policy without one of its nodes is a policy.
LEMMA WithoutType ==
  ASSUME NEW p \in Seq(Workers), NEW n PROVE Without(p, n) \in Seq(Workers)
<1>1. CASE \E i \in DOMAIN p : p[i] = n
  <2>1. Len(p) - 1 \in Nat /\ \A i \in 1..(Len(p) - 1) : i \in DOMAIN p /\ i + 1 \in DOMAIN p
    BY <1>1
  <2>2. Without(p, n) \in [1..(Len(p) - 1) -> Workers]
    BY <1>1, <2>1 DEF Without
  <2> QED BY <2>1, <2>2
<1>2. CASE ~\E i \in DOMAIN p : p[i] = n
  BY <1>2 DEF Without
<1> QED BY <1>1, <1>2

\* A node is deleted; rows of it are cancelled where they are.
LEMMA DeleteNodeStep ==
  ASSUME IInv, NEW n \in Nodes, DeleteNode(n)
  PROVE  IInv' /\ Moves
<1>1. task' \in [TaskIds -> Rows] /\ \A t \in TaskIds : RowKeeps(task[t], task'[t])
  <2>1. ASSUME NEW t \in TaskIds
        PROVE  LET q == IF task[t].node = n THEN Cancelled(task[t], "stopped") ELSE task[t]
               IN  q \in Rows /\ RowKeeps(task[t], q)
    BY CancelledKeeps DEF IInv, TypeOK, RowKeeps
  <2> QED BY <2>1 DEF DeleteNode
<1>2. /\ jobState' \in [Jobs -> JobStates]
      /\ \A i \in Jobs : jobState'[i] = "absent" => jobState[i] = "absent"
  <2>1. jobState \in [Jobs -> JobStates]
    BY DEF IInv, TypeOK, JobStates
  <2> QED BY <2>1, RefreshType DEF DeleteNode
<1>3. policy' \in Seq(Workers)
  BY WithoutType DEF DeleteNode, IInv, TypeOK
<1>4. node' \in [Nodes -> [exists : BOOLEAN, online : BOOLEAN, gen : BOOLEAN, caps : SUBSET Stages]]
  <2>1. node \in [Nodes -> [exists : BOOLEAN, online : BOOLEAN, gen : BOOLEAN, caps : SUBSET Stages]]
    BY DEF IInv, TypeOK
  <2>2. node' = [node EXCEPT ![n].exists = FALSE, ![n].online = FALSE]
    BY DEF DeleteNode
  <2> QED BY ONLY <2>1, <2>2
<1>5. UNCHANGED <<rank, results, current, grants>> /\ UNCHANGED producer
  BY DEF DeleteNode
<1>6. leased' \subseteq leased
  BY DEF DeleteNode, StillLeased
<1>7. producer' \in [Jobs -> ProducerRows] /\ \A j \in Jobs : ProducerSound(j, producer'[j])
  BY <1>5 DEF IInv, TypeOK
<1> QED BY ONLY IInv, <1>1, <1>2, <1>3, <1>4, <1>5, <1>6, <1>7, KeepingStep

\* The invariant after a step that freezes the chain of a new job.
LEMMA CreateStep ==
  ASSUME IInv, NEW j \in Jobs, jobState[j] = "absent",
         NEW chain \in [Nodes -> Nat], rank' = [rank EXCEPT ![j] = chain],
         task' \in [TaskIds -> Rows],
         \A t \in TaskIds :
           \/ task'[t] = task[t]
           \/ /\ t.job = j
              /\ \E n \in Nodes :
                   /\ task'[t] = NewRow(n, "pending", 0)
                   /\ JobSpec[j].managed => chain[n] > 0,
         jobState' \in [Jobs -> JobStates], jobState'[j] # "absent",
         \A i \in Jobs : jobState'[i] = "absent" => jobState[i] = "absent",
         \/ producer' = producer
         \/ /\ JobSpec[j].managed
            /\ \E n \in Nodes :
                 /\ chain[n] > 0
                 /\ producer' = [producer EXCEPT ![j] = [NoProducer EXCEPT !.state = "queued", !.node = n]],
         UNCHANGED <<node, policy, leased, results, current, grants>>
  PROVE  IInv' /\ Moves
<1>1. /\ rank \in [Jobs -> [Nodes -> Nat]] /\ rank' \in [Jobs -> [Nodes -> Nat]]
      /\ rank'[j] = chain /\ \A i \in Jobs \ {j} : rank'[i] = rank[i]
  BY DEF IInv, TypeOK
<1>2. ASSUME NEW t \in TaskIds
      PROVE  /\ RowMonotone(t, task[t])' /\ RowHasJob(t, task[t])' /\ RowUnclaimed(task'[t])
             /\ RowFollows(t, task[t], task'[t])
  <2>1. /\ task[t] \in Rows /\ RowMonotone(t, task[t]) /\ RowHasJob(t, task[t])
        /\ RowUnclaimed(task[t]) /\ t.job \in Jobs
    BY TaskJob DEF IInv, Sound
  <2>2. t.job = j => task[t].state = "absent" /\ task[t].claims = 0
    BY <2>1 DEF RowHasJob, RowUnclaimed
  <2>3. CASE task'[t] = task[t]
    <3>1. RowFollows(t, task[t], task[t])
      BY <1>1, <2>1, RowFollowsSame
    <3>2. task[t].state # "absent" => rank'[t.job] = rank[t.job] /\ jobState'[t.job] # "absent"
      BY <1>1, <2>1, <2>2 DEF RowHasJob
    <3>3. RowMonotone(t, task[t])'
      BY <2>1, <2>3, <3>2 DEF RowMonotone
    <3>4. RowHasJob(t, task[t])' /\ RowUnclaimed(task'[t])
      BY <2>1, <2>3, <3>2 DEF RowHasJob
    <3> QED BY <2>3, <3>1, <3>3, <3>4
  <2>4. ASSUME t.job = j, NEW n \in Nodes, task'[t] = NewRow(n, "pending", 0),
               JobSpec[j].managed => chain[n] > 0
        PROVE  /\ RowMonotone(t, task[t])' /\ RowHasJob(t, task[t])' /\ RowUnclaimed(task'[t])
               /\ RowFollows(t, task[t], task'[t])
    <3>1. /\ task'[t].node = n /\ task'[t].state = "pending" /\ task'[t].gen = 0
          /\ task'[t].claims = 0
      BY <2>4 DEF NewRow, NoRow
    <3>2. RowMonotone(t, task[t])'
      BY <1>1, <2>4, <3>1 DEF RowMonotone
    <3>3. RowHasJob(t, task[t])' /\ RowUnclaimed(task'[t])
      BY <2>4, <3>1 DEF RowHasJob, RowUnclaimed
    <3>4. RowFollows(t, task[t], task'[t])
      BY <2>2, <2>4, <3>1 DEF RowFollows, Active
    <3> QED BY <3>2, <3>3, <3>4
  <2> QED BY <2>3, <2>4
<1>3. Sound(task)'
  BY <1>2 DEF Sound
<1>4. producer' \in [Jobs -> ProducerRows] /\ \A i \in Jobs : ProducerSound(i, producer[i])'
  <2>1. ASSUME NEW i \in Jobs, producer'[i] = producer[i] PROVE ProducerSound(i, producer[i])'
    BY <1>1, <2>1 DEF IInv, ProducerSound
  <2>2. CASE producer' = producer
    BY <2>1, <2>2 DEF IInv, TypeOK
  <2>3. ASSUME JobSpec[j].managed, NEW n \in Nodes, chain[n] > 0,
               producer' = [producer EXCEPT ![j] = [NoProducer EXCEPT !.state = "queued", !.node = n]]
        PROVE  producer' \in [Jobs -> ProducerRows] /\ \A i \in Jobs : ProducerSound(i, producer[i])'
    <3> DEFINE q == [NoProducer EXCEPT !.state = "queued", !.node = n]
    <3>1. q \in ProducerRows /\ q.node = n /\ q.gen = 0
      BY ConstantsAssumption DEF NoProducer, ProducerRows
    <3>2. producer \in [Jobs -> ProducerRows] /\ producer' = [producer EXCEPT ![j] = q]
      BY <2>3 DEF IInv, TypeOK
    <3> HIDE DEF q
    <3>3. producer' \in [Jobs -> ProducerRows] /\ producer'[j] = q
            /\ \A i \in Jobs \ {j} : producer'[i] = producer[i]
      BY <3>1, <3>2
    <3>4. ProducerSound(j, producer[j])'
      BY <1>1, <2>3, <3>1, <3>3 DEF ProducerSound
    <3> QED BY <2>1, <3>3, <3>4
  <2> QED BY <2>2, <2>3
<1>5. TypeOK'
  BY <1>1, <1>4 DEF IInv, TypeOK, JobStates
<1>6. Follows(task, task')
  BY <1>2 DEF Follows
<1> QED BY <1>3, <1>4, <1>5, <1>6 DEF IInv, Moves

\* A job with rows of its own: its first owner heads the frozen chain.
LEMMA CreateJobStep ==
  ASSUME IInv, NEW j \in Jobs, CreateJob(j)
  PROVE  IInv' /\ Moves
<1> DEFINE chain == IF JobSpec[j].managed THEN Chain(policy) ELSE NoChain
<1>1. chain \in [Nodes -> Nat] /\ rank' = [rank EXCEPT ![j] = chain]
  BY ChainType DEF CreateJob, NoChain, IInv
<1>2. ASSUME NEW i \in DOMAIN Owners(j)
      PROVE  Owners(j)[i] \in Nodes /\ (JobSpec[j].managed => chain[Owners(j)[i]] > 0)
  <2>1. CASE JobSpec[j].managed
    BY <1>2, <2>1, ChainType DEF Owners, CreateJob, CanCreate, IInv
  <2>2. CASE ~JobSpec[j].managed
    <3>1. JobSpec[j].owners \in Seq(Nodes)
      BY ConstantsAssumption DEF JobSpecs
    <3> QED BY <1>2, <2>2, <3>1 DEF Owners
  <2> QED BY <2>1, <2>2
<1>3. ASSUME NEW t \in TaskIds
      PROVE  \/ task'[t] = task[t]
             \/ /\ t.job = j
                /\ \E n \in Nodes :
                     /\ task'[t] = NewRow(n, "pending", 0)
                     /\ JobSpec[j].managed => chain[n] > 0
  BY <1>2 DEF CreateJob
<1>4. task' \in [TaskIds -> Rows]
  <2>1. ASSUME NEW t \in TaskIds PROVE task'[t] \in Rows
    <3>1. \A n \in Nodes : NewRow(n, "pending", 0) \in Rows
      BY ConstantsAssumption DEF NewRow, NoRow, Rows, Live, Active, Terminal, Errors, NoClaimYet
    <3> QED BY <1>3, <3>1 DEF IInv, TypeOK
  <2>2. task' = [t \in TaskIds |-> task'[t]]
    BY DEF CreateJob
  <2>3. [t \in TaskIds |-> task'[t]] \in [TaskIds -> Rows]
    BY <2>1
  <2> QED BY <2>2, <2>3
<1>5. /\ jobState' \in [Jobs -> JobStates] /\ jobState'[j] # "absent"
      /\ \A i \in Jobs : jobState'[i] = "absent" => jobState[i] = "absent"
  <2> DEFINE js == [jobState EXCEPT ![j] = "running"]
  <2>1. /\ js \in [Jobs -> JobStates] /\ js[j] # "absent"
        /\ \A i \in Jobs : js[i] = "absent" => jobState[i] = "absent"
    BY DEF IInv, TypeOK, JobStates
  <2>2. jobState' = Refresh(js, task', producer, Jobs)
    BY DEF CreateJob
  <2> HIDE DEF js
  <2> QED BY <2>1, <2>2, RefreshType
<1>6. jobState[j] = "absent" /\ UNCHANGED <<node, policy, leased, producer, results, current, grants>>
  BY DEF CreateJob, CanCreate
<1> HIDE DEF chain
<1> QED BY <1>1, <1>3, <1>4, <1>5, <1>6, CreateStep

\* A job with a producer: its first owner heads the frozen chain.
LEMMA CreateSelectionJobStep ==
  ASSUME IInv, NEW j \in Jobs, CreateSelectionJob(j)
  PROVE  IInv' /\ Moves
<1>1. /\ Chain(policy) \in [Nodes -> Nat] /\ policy[1] \in Nodes /\ Chain(policy)[policy[1]] > 0
      /\ jobState[j] = "absent" /\ JobSpec[j].managed
  BY ChainType DEF CreateSelectionJob, CanCreate, IInv
<1>2. /\ jobState' \in [Jobs -> JobStates] /\ jobState'[j] # "absent"
      /\ \A i \in Jobs : jobState'[i] = "absent" => jobState[i] = "absent"
  BY DEF CreateSelectionJob, IInv, TypeOK, JobStates
<1>3. /\ UNCHANGED <<node, policy, task, leased, results, current, grants>>
      /\ rank' = [rank EXCEPT ![j] = Chain(policy)]
      /\ producer' = [producer EXCEPT ![j] = [NoProducer EXCEPT !.state = "queued", !.node = policy[1]]]
  BY DEF CreateSelectionJob
<1>4. task' \in [TaskIds -> Rows]
  BY <1>3 DEF IInv, TypeOK
<1> QED BY <1>1, <1>2, <1>3, <1>4, CreateStep

-----------------------------------------------------------------------------
(***************************************************************************)
(* Steps of the workers.                                                   *)
(***************************************************************************)
LEMMA HeartbeatStep ==
  ASSUME IInv, NEW n \in Nodes, NEW profile \in Profiles[n], Heartbeat(n, profile)
  PROVE  IInv' /\ Moves
<1> DEFINE nd == [node EXCEPT ![n] = [exists |-> TRUE, online |-> TRUE,
                                       gen |-> profile.gen, caps |-> profile.caps]]
<1>1. profile \in [gen : BOOLEAN, caps : SUBSET Stages]
  BY ConstantsAssumption
<1>2. nd \in [Nodes -> [exists : BOOLEAN, online : BOOLEAN, gen : BOOLEAN, caps : SUBSET Stages]]
  BY <1>1 DEF IInv, TypeOK
<1>3. Sweep(nd)
  BY DEF Heartbeat
<1> HIDE DEF nd
<1> QED BY <1>2, <1>3, SweepStep

\* A query sweeps.
LEMMA PollStep ==
  ASSUME IInv, Poll PROVE IInv' /\ Moves
  BY SweepStep DEF Poll, IInv, TypeOK

\* The tail of claim, after a table that follows the present one.
LEMMA ClaimWithStep ==
  ASSUME IInv, NEW n \in Nodes, NEW tk, NEW pr, NEW js,
         Sound(tk), Follows(task, tk),
         pr \in [Jobs -> ProducerRows], \A j \in Jobs : ProducerSound(j, pr[j]),
         js \in [Jobs -> JobStates], \A j \in Jobs : js[j] = "absent" => jobState[j] = "absent",
         ClaimWith(n, tk, pr, js)
  PROVE  IInv' /\ Moves
<1> USE DEF ClaimWith
<1>1. CASE task' = tk /\ leased' = StillLeased(tk) /\ grants' = grants
  <2>1. IInv'
    BY <1>1, StepIntro DEF IInv, TypeOK, StillLeased
  <2> QED BY <1>1, <2>1 DEF Moves
<1>2. ASSUME NEW t \in Claimable(tk, js, n),
             task' = [tk EXCEPT ![t] = Granted(tk[t])],
             leased' = StillLeased(tk) \cup {t},
             grants' = grants \cup {[task |-> t, attempt |-> tk[t].claims + 1, node |-> n, gen |-> tk[t].gen]}
      PROVE  IInv' /\ Moves
  <2>1. t \in TaskIds /\ tk[t].state = "pending" /\ tk[t].node = n /\ ~Blocked(tk, t, n)
    BY DEF Claimable
  <2>2. tk \in [TaskIds -> Rows] /\ tk[t] \in Rows
    BY <2>1 DEF Sound
  <2>3. /\ Granted(tk[t]) \in Rows /\ Granted(tk[t]).state = "running"
        /\ Granted(tk[t]).node = tk[t].node /\ Granted(tk[t]).gen = tk[t].gen
    BY <2>2, GrantedType
  <2>4. Sound(task')
    <3>1. task' \in [TaskIds -> Rows]
      BY <1>2, <2>2, <2>3
    <3>2. ASSUME NEW u \in TaskIds
          PROVE  RowMonotone(u, task'[u]) /\ RowHasJob(u, task'[u]) /\ RowUnclaimed(task'[u])
      <4>1. RowMonotone(u, tk[u]) /\ RowHasJob(u, tk[u]) /\ RowUnclaimed(tk[u])
        BY DEF Sound
      <4>2. task'[u] = IF u = t THEN Granted(tk[t]) ELSE tk[u]
        BY <1>2, <2>1, <2>2
      <4> QED BY <2>1, <2>3, <4>1, <4>2 DEF RowMonotone, RowHasJob, RowUnclaimed
    <3> QED BY <3>1, <3>2 DEF Sound
  <2>5. [task |-> t, attempt |-> tk[t].claims + 1, node |-> n, gen |-> tk[t].gen] \in Grants
    <3>1. tk[t].claims + 1 \in Nat /\ tk[t].gen \in Nat
      BY <2>2 DEF Rows
    <3> QED BY <2>1, <3>1 DEF Grants
  <2>6. grants' \subseteq Grants /\ leased' \subseteq TaskIds
    BY <1>2, <2>1, <2>5 DEF IInv, TypeOK, StillLeased
  <2>7. IInv'
    BY <2>4, <2>6, StepIntro DEF IInv, TypeOK
  <2>8. Starts(tk, t, n)
    BY <1>2, <2>1 DEF Starts
  <2> QED BY <1>2, <2>1, <2>7, <2>8 DEF Moves
<1> QED BY <1>1, <1>2

\* A producer that is fed inserts its next target at its own node, with its own
\* generation.
LEMMA FeedSound ==
  ASSUME IInv, NEW n \in Nodes, NEW j \in Feedable(n),
         InsertFits(Swept(node), Key(j, FirstStage(j), NextTarget(SweptProducers(node), j)), n)
  PROVE  LET q == [SweptProducers(node) EXCEPT ![j] = FedProducer(SweptProducer(node, j), j)]
         IN  /\ Sound(Materialized(n, j)) /\ Follows(task, Materialized(n, j))
             /\ q \in [Jobs -> ProducerRows] /\ \A i \in Jobs : ProducerSound(i, q[i])
<1> DEFINE tk == Swept(node)
           pr == SweptProducers(node)
           js == SweptJobs(node)
           k  == Key(j, FirstStage(j), NextTarget(pr, j))
           p  == pr[j]
           q  == [pr EXCEPT ![j] = FedProducer(SweptProducer(node, j), j)]
           uk == Materialized(n, j)
<1>1. /\ Sound(tk) /\ Follows(task, tk)
      /\ pr \in [Jobs -> ProducerRows] /\ \A i \in Jobs : ProducerSound(i, pr[i])
      /\ js \in [Jobs -> JobStates] /\ \A i \in Jobs : js[i] = "absent" <=> jobState[i] = "absent"
  BY SweepSound
<1>2. /\ j \in Jobs /\ p.state # "none" /\ p.node = n /\ js[j] = "running"
      /\ p = SweptProducer(node, j)
  BY <1>1, SweptProducerSound DEF Feedable, IInv, TypeOK
<1>3. uk = Insert(tk, k, n, "pending", p.gen) /\ InsertFits(tk, k, n)
  BY DEF Materialized
<1>4. k.job = j /\ p.gen \in Nat /\ Fits(j, n, p.gen) /\ jobState[j] # "absent"
  BY <1>1, <1>2 DEF Key, ProducerRows, ProducerSound, Fits
<1>5. q \in [Jobs -> ProducerRows] /\ \A i \in Jobs : ProducerSound(i, q[i])
  <2> DEFINE f == FedProducer(p, j)
  <2>1. f \in ProducerRows /\ f.node = p.node /\ f.gen = p.gen
    <3>1. p \in ProducerRows /\ p.cursor + 1 \in Nat
      BY <1>1, <1>2 DEF ProducerRows
    <3>2. \E st \in {"running", "done"} :
            f = [p EXCEPT !.cursor = @ + 1, !.waiting = FALSE, !.state = st]
      BY DEF FedProducer
    <3> HIDE DEF f, p
    <3> QED BY <3>1, <3>2 DEF ProducerRows
  <2>2. ProducerSound(j, f)
    BY <1>1, <1>2, <2>1 DEF ProducerSound
  <2>3. q = [pr EXCEPT ![j] = f]
    BY <1>2
  <2> HIDE DEF f, q, pr
  <2> QED BY <1>1, <1>2, <2>1, <2>2, <2>3
<1> HIDE DEF tk, pr, js, uk, k, p
<1>6. Sound(uk) /\ Follows(tk, uk)
  BY <1>1, <1>3, <1>4, InsertSound DEF IInv, TypeOK
<1>7. Follows(task, uk)
  BY <1>1, <1>6, FollowsTransitive DEF IInv, TypeOK
<1> QED BY <1>5, <1>6, <1>7 DEF uk, pr

\* A claim sweeps, may insert a producer's next target, and starts at most one row.
LEMMA ClaimStep ==
  ASSUME IInv, NEW n \in Nodes, Claim(n)
  PROVE  IInv' /\ Moves
<1> DEFINE tk == Swept(node)
           pr == SweptProducers(node)
           js == SweptJobs(node)
<1>1. /\ Sound(tk) /\ Follows(task, tk)
      /\ pr \in [Jobs -> ProducerRows] /\ \A j \in Jobs : ProducerSound(j, pr[j])
      /\ js \in [Jobs -> JobStates] /\ \A j \in Jobs : js[j] = "absent" <=> jobState[j] = "absent"
  BY SweepSound
<1>2. CASE ClaimWith(n, tk, pr, js)
  <2> HIDE DEF tk, pr, js
  <2> QED BY <1>1, <1>2, ClaimWithStep
<1>3. ASSUME NEW j \in Feedable(n),
             LET k == Key(j, FirstStage(j), NextTarget(SweptProducers(node), j))
                 q == [SweptProducers(node) EXCEPT ![j] = FedProducer(SweptProducer(node, j), j)]
             IN  /\ InsertFits(Swept(node), k, n)
                 /\ ClaimWith(n, Materialized(n, j), q,
                              Refresh(SweptJobs(node), Materialized(n, j), q, {j}))
      PROVE  IInv' /\ Moves
  <2> DEFINE q  == [pr EXCEPT ![j] = FedProducer(SweptProducer(node, j), j)]
             uk == Materialized(n, j)
             qs == Refresh(js, uk, q, {j})
  <2>1. /\ Sound(uk) /\ Follows(task, uk)
        /\ q \in [Jobs -> ProducerRows] /\ \A i \in Jobs : ProducerSound(i, q[i])
    BY <1>3, FeedSound
  <2>2. ClaimWith(n, uk, q, qs)
    BY <1>3
  <2> HIDE DEF tk, pr, js, uk, q
  <2>3. qs \in [Jobs -> JobStates] /\ \A i \in Jobs : qs[i] = "absent" => jobState[i] = "absent"
    BY <1>1, RefreshType
  <2> HIDE DEF qs
  <2> QED BY <2>1, <2>2, <2>3, ClaimWithStep
<1> QED BY <1>2, <1>3 DEF Claim

\* A message changes a row that it holds, then inserts at the same node and
\* with the same generation.
LEMMA HeldInsertSound ==
  ASSUME IInv, NEW g \in grants, NEW fk \in [TaskIds -> Rows], NEW k, NEW st \in {"pending", "skipped"},
         NEW live \in Active,
         Held(Swept(node), g, live), \A u \in TaskIds : RowKeeps(Swept(node)[u], fk[u]),
         k.job = g.task.job, InsertFits(fk, k, g.node)
  PROVE  LET uk == Insert(fk, k, g.node, st, Swept(node)[g.task].gen)
         IN  Sound(uk) /\ Follows(task, uk)
<1> DEFINE tk == Swept(node)
           r  == tk[g.task]
           uk == Insert(fk, k, g.node, st, r.gen)
<1>1. Sound(tk) /\ Follows(task, tk) /\ rank \in [Jobs -> [Nodes -> Nat]]
  BY SweepSound DEF IInv, TypeOK
<1>2. g.task \in TaskIds /\ g.node \in Nodes /\ r.node = g.node /\ r.state # "absent"
  BY DEF IInv, TypeOK, Grants, Held, Active
<1>3. /\ r \in Rows /\ r.gen \in Nat
      /\ Fits(k.job, g.node, r.gen) /\ jobState[k.job] # "absent"
  BY <1>1, <1>2 DEF Sound, Rows, RowMonotone, RowHasJob, Fits
<1> HIDE DEF tk
<1>4. Sound(fk) /\ Follows(tk, fk)
  BY <1>1, KeepsSound DEF tk
<1>5. Sound(uk) /\ Follows(fk, uk)
  BY <1>1, <1>2, <1>3, <1>4, InsertSound
<1>6. Follows(task, fk)
  BY <1>1, <1>4, FollowsTransitive DEF IInv
<1>7. Follows(task, uk)
  BY <1>1, <1>4, <1>5, <1>6, FollowsTransitive DEF IInv
<1> QED BY <1>5, <1>7 DEF tk

\* Progress sweeps and may insert a route row of the scan's generation.
LEMMA ProgressStep ==
  ASSUME IInv, NEW g \in grants, NEW seq \in Nat, NEW hit, Progress(g, seq, hit)
  PROVE  IInv' /\ Moves
<1> DEFINE tk == Swept(node)
           t == g.task
           acked == [tk EXCEPT ![t].seq = seq]
           k == Key(t.job, "route", hit)
<1>1. Sound(tk) /\ Follows(task, tk) /\ tk \in [TaskIds -> Rows] /\ t \in TaskIds
  BY SweepSound DEF IInv, TypeOK, Grants, Sound
<1>2. acked \in [TaskIds -> Rows] /\ \A u \in TaskIds : RowKeeps(tk[u], acked[u])
  <2> DEFINE q == [tk[t] EXCEPT !.seq = seq]
  <2>1. q \in Rows /\ RowKeeps(tk[t], q)
    <3>1. tk[t] \in Rows
      BY <1>1
    <3> HIDE DEF tk, t
    <3> QED BY <3>1 DEF Rows, RowKeeps, Active
  <2>2. acked = [tk EXCEPT ![t] = q]
    OBVIOUS
  <2> HIDE DEF q, tk, t
  <2> QED BY <1>1, <2>1, <2>2 DEF RowKeeps
<1>3. Sound(task') /\ Follows(task, task')
  <2>1. CASE task' = tk
    BY <1>1, <2>1
  <2>2. CASE task' = acked
    <3>1. Sound(acked) /\ Follows(tk, acked)
      BY <1>1, <1>2, KeepsSound DEF IInv, TypeOK
    <3> HIDE DEF tk, acked
    <3> QED BY <1>1, <2>2, <3>1, FollowsTransitive DEF IInv, TypeOK
  <2>3. CASE /\ task' = Insert(acked, k, g.node, "pending", tk[t].gen)
             /\ Held(tk, g, "running") /\ InsertFits(acked, k, g.node)
    <3>1. k.job = g.task.job
      BY DEF Key
    <3> HIDE DEF acked, k
    <3> QED BY <1>2, <2>3, <3>1, HeldInsertSound DEF Active
  <2> QED BY <2>1, <2>2, <2>3 DEF Progress
<1>4. IInv'
  BY <1>3, SweepSound, StepIntro DEF Progress, StillLeased, IInv, TypeOK
<1> QED BY <1>3, <1>4 DEF Moves, Progress

\* The next row of a stage belongs to the same job.
LEMMA NextRowsType ==
  ASSUME NEW t, NEW pass, NEW x \in NextRows(t, pass)
  PROVE  x[1].job = t.job /\ x[2] \in {"pending", "skipped"}
<1>1. \E s, o : \E st \in {"pending", "skipped"} : x = <<Key(t.job, s, o), st>>
  BY DEF NextRows
<1> QED BY <1>1 DEF Key

\* The rows that report leaves behind.
LEMMA ReportRows ==
  ASSUME IInv, NEW g \in grants, NEW outcome \in Outcomes, Report(g, outcome)
  PROVE  Sound(task') /\ Follows(task, task')
<1> DEFINE tk == Swept(node)
           t == g.task
           fin == [tk EXCEPT ![t] = Finished(tk[t], outcome)]
<1>1. /\ Sound(tk) /\ Follows(task, tk) /\ tk \in [TaskIds -> Rows] /\ t \in TaskIds
      /\ tk[t] \in Rows
  BY SweepSound DEF IInv, TypeOK, Grants, Sound
<1>2. ASSUME NEW fk \in [TaskIds -> Rows], \A u \in TaskIds : RowKeeps(tk[u], fk[u]), task' = fk
      PROVE  Sound(task') /\ Follows(task, task')
  <2>1. Sound(fk) /\ Follows(tk, fk)
    BY <1>1, <1>2, KeepsSound DEF IInv, TypeOK
  <2> HIDE DEF tk
  <2> QED BY <1>1, <1>2, <2>1, FollowsTransitive DEF IInv, TypeOK
<1>3. CASE task' = [tk EXCEPT ![t].state = CancelledState(tk[t])] /\ Held(tk, g, "cancelling")
  <2> DEFINE q == [tk[t] EXCEPT !.state = CancelledState(tk[t])]
             fk == [tk EXCEPT ![t] = q]
  <2>1. q \in Rows /\ RowKeeps(tk[t], q)
    <3>1. CancelledState(tk[t]) \in {"stopped", "skipped"} /\ tk[t].state # "absent"
      BY <1>3 DEF CancelledState, Held
    <3> HIDE DEF tk, t
    <3> QED BY <1>1, <3>1 DEF RowKeeps, Rows, Live, Active, Terminal
  <2>2. task' = fk
    BY <1>3
  <2> HIDE DEF q, tk, t
  <2>3. fk \in [TaskIds -> Rows] /\ \A u \in TaskIds : RowKeeps(tk[u], fk[u])
    BY <1>1, <2>1 DEF RowKeeps
  <2> QED BY <1>2, <2>2, <2>3
<1>4. ASSUME Held(tk, g, "running")
      PROVE  fin \in [TaskIds -> Rows] /\ \A u \in TaskIds : RowKeeps(tk[u], fin[u])
  <2>1. Finished(tk[t], outcome) \in Rows /\ RowKeeps(tk[t], Finished(tk[t], outcome))
    <3>1. tk[t].state # "absent"
      BY <1>4 DEF Held
    <3> QED BY <1>1, <3>1, FinishedKeeps
  <2> HIDE DEF tk, t
  <2> QED BY <1>1, <2>1 DEF RowKeeps
<1>5. CASE task' = fin /\ Held(tk, g, "running")
  <2> HIDE DEF fin
  <2> QED BY <1>2, <1>4, <1>5
<1>6. CASE /\ Held(tk, g, "running") /\ task' = WithNextRow(fin, t, g.node, outcome = "pass")
           /\ \A x \in NextRows(t, outcome = "pass") : InsertFits(fin, x[1], g.node)
  <2> DEFINE x == CHOOSE x \in NextRows(t, outcome = "pass") : TRUE
  <2>1. CASE NextRows(t, outcome = "pass") = {}
    BY <1>5, <1>6, <2>1 DEF WithNextRow
  <2>2. CASE NextRows(t, outcome = "pass") # {}
    <3>1. x \in NextRows(t, outcome = "pass")
      BY <2>2
    <3>2. x[1].job = t.job /\ x[2] \in {"pending", "skipped"} /\ InsertFits(fin, x[1], g.node)
      BY <1>6, <3>1, NextRowsType
    <3>3. fin[t].gen = tk[t].gen
      BY <1>1, <1>4, <1>6 DEF RowKeeps
    <3>4. task' = Insert(fin, x[1], g.node, x[2], tk[t].gen)
      BY <1>6, <2>2, <3>3 DEF WithNextRow
    <3> HIDE DEF fin, x
    <3> QED BY <1>4, <1>6, <3>2, <3>4, HeldInsertSound DEF Active
  <2> QED BY <2>1, <2>2
<1>7. CASE task' = tk
  BY <1>1, <1>7
<1> QED
  <2>1. \/ task' = [tk EXCEPT ![t].state = CancelledState(tk[t])] /\ Held(tk, g, "cancelling")
        \/ task' = fin /\ Held(tk, g, "running")
        \/ /\ Held(tk, g, "running") /\ task' = WithNextRow(fin, t, g.node, outcome = "pass")
           /\ \A x \in NextRows(t, outcome = "pass") : InsertFits(fin, x[1], g.node)
        \/ task' = tk
    BY DEF Report
  <2> QED BY <1>3, <1>5, <1>6, <1>7, <2>1

\* A report sweeps, ends an attempt and may insert the row of the next stage.
LEMMA ReportStep ==
  ASSUME IInv, NEW g \in grants, NEW outcome \in Outcomes, Report(g, outcome)
  PROVE  IInv' /\ Moves
<1>1. Sound(task') /\ Follows(task, task')
  BY ReportRows
<1>2. results' \subseteq Results /\ current' \in [Ips \X TestStages -> Results \cup {NoResult}]
  <2>1. results \subseteq Results /\ current \in [Ips \X TestStages -> Results \cup {NoResult}]
          /\ g \in Grants
    BY DEF IInv, TypeOK
  <2>2. ResultOf(g, outcome) \in Results
    BY <2>1 DEF Grants, Results, ResultOf
  <2>3. Record(g, outcome) \/ UNCHANGED <<results, current>>
    BY DEF Report
  <2>4. \/ UNCHANGED <<results, current>>
        \/ /\ results' = results \cup {ResultOf(g, outcome)}
           /\ \/ current' = current
              \/ current' = [current EXCEPT ![<<g.task.on, g.task.stage>>] = ResultOf(g, outcome)]
    BY <2>3 DEF Record
  <2> QED BY <2>1, <2>2, <2>4
<1>3. /\ jobState' \in [Jobs -> JobStates]
      /\ \A i \in Jobs : jobState'[i] = "absent" => jobState[i] = "absent"
  <2>1. jobState \in [Jobs -> JobStates]
    BY DEF IInv, TypeOK, JobStates
  <2>2. jobState' = Refresh(jobState, task', producer', Jobs) \/ jobState' = SweptJobs(node)
    BY DEF Report
  <2> QED BY <2>1, <2>2, RefreshType, SweepSound
<1>4. /\ producer' = SweptProducers(node) /\ leased' = StillLeased(task')
      /\ UNCHANGED <<node, policy, rank, grants>>
  BY DEF Report
<1>5. IInv'
  BY <1>1, <1>2, <1>3, <1>4, SweepSound, StepIntro DEF StillLeased, IInv, TypeOK
<1> QED BY <1>1, <1>4, <1>5 DEF Moves

-----------------------------------------------------------------------------
(***************************************************************************)
(* The theorems.                                                           *)
(***************************************************************************)
\* The passage of time, a new policy and a cleared history leave the rows alone.
LEMMA QuietSteps ==
  ASSUME IInv,
         \/ \E p \in Policies : SetPolicy(p)
         \/ \E S \in {{n} : n \in Nodes} \cup {Nodes}, kind \in ClearKinds : ClearHistory(S, kind)
         \/ \E t \in TaskIds : LeaseRunsOut(t)
         \/ \E n \in Nodes : GoSilent(n)
  PROVE  IInv' /\ Moves
<1>1. ASSUME NEW p \in Policies, SetPolicy(p) PROVE IInv' /\ Moves
  BY <1>1, QuietStep, ConstantsAssumption DEF SetPolicy, IInv, TypeOK
<1>2. ASSUME NEW S, NEW kind, ClearHistory(S, kind) PROVE IInv' /\ Moves
  <2>1. /\ results' \subseteq results
        /\ UNCHANGED <<node, policy, jobState, rank, task, leased, producer, grants>>
    BY <1>2 DEF ClearHistory
  <2>2. current' \in [Ips \X TestStages -> Results \cup {NoResult}]
    BY <1>2 DEF ClearHistory, IInv, TypeOK
  <2> QED BY <2>1, <2>2, QuietStep DEF IInv, TypeOK
<1>3. ASSUME NEW t \in TaskIds, LeaseRunsOut(t) PROVE IInv' /\ Moves
  BY <1>3, QuietStep DEF LeaseRunsOut, IInv, TypeOK
<1>4. ASSUME NEW n \in Nodes, GoSilent(n) PROVE IInv' /\ Moves
  <2> DEFINE Entries == [exists : BOOLEAN, online : BOOLEAN, gen : BOOLEAN, caps : SUBSET Stages]
             entry == [node[n] EXCEPT !.online = FALSE]
  <2>1. /\ node \in [Nodes -> Entries]
        /\ node' = [node EXCEPT ![n] = entry]
        /\ UNCHANGED <<policy, jobState, rank, task, leased, producer, results, current, grants>>
    BY <1>4 DEF GoSilent, IInv, TypeOK
  <2>2. entry \in Entries
    BY <2>1
  <2>3. node' \in [Nodes -> Entries]
    <3> HIDE DEF Entries, entry
    <3> QED BY <2>1, <2>2
  <2> QED BY <2>1, <2>3, QuietStep DEF IInv, TypeOK
<1> QED BY <1>1, <1>2, <1>3, <1>4

\* The invariant holds at first.
LEMMA InitSound == Init => IInv
<1> SUFFICES ASSUME Init PROVE IInv
  OBVIOUS
<1>1. NoRow \in Rows /\ NoRow.state = "absent" /\ NoRow.claims = 0
  BY ConstantsAssumption DEF NoRow, Rows, Live, Active, Terminal, Errors, NoClaimYet
<1>2. NoProducer \in ProducerRows /\ NoProducer.state = "none"
  BY ConstantsAssumption DEF NoProducer, ProducerRows
<1>3. Sound(task)
  BY <1>1 DEF Init, Sound, RowMonotone, RowHasJob, RowUnclaimed
<1>4. \A j \in Jobs : ProducerSound(j, producer[j])
  BY <1>2 DEF Init, ProducerSound
<1>5. TypeOK
  BY <1>1, <1>2, ConstantsAssumption DEF Init, TypeOK, NoChain
<1> QED BY <1>3, <1>4, <1>5 DEF IInv

\* Every step keeps the invariant, and starts at most one row.
LEMMA StepSound ==
  ASSUME IInv, Next PROVE IInv' /\ Moves
<1>1. ASSUME NEW n \in Nodes, Claim(n) PROVE IInv' /\ Moves
  BY <1>1, ClaimStep
<1>2. ASSUME NEW n \in Nodes, NEW p \in Profiles[n], Heartbeat(n, p) PROVE IInv' /\ Moves
  BY <1>2, HeartbeatStep
<1>3. ASSUME NEW g \in grants, NEW seq \in 1..MaxSeq, NEW hit, Progress(g, seq, hit) PROVE IInv' /\ Moves
  <2>1. seq \in Nat
    BY ConstantsAssumption
  <2> QED BY <1>3, <2>1, ProgressStep
<1>4. ASSUME NEW g \in grants, NEW outcome \in Outcomes, Report(g, outcome) PROVE IInv' /\ Moves
  BY <1>4, ReportStep
<1>5. CASE WorkerStep
  BY <1>1, <1>2, <1>3, <1>4, <1>5 DEF WorkerStep
<1>6. ASSUME NEW j \in Jobs, CreateJob(j) \/ CreateSelectionJob(j) PROVE IInv' /\ Moves
  BY <1>6, CreateJobStep, CreateSelectionJobStep
<1>7. ASSUME NEW j \in Jobs, NEW S, Stop(j, S) \/ Skip(j, S) PROVE IInv' /\ Moves
  BY <1>7, StopOrSkipStep DEF Stop, Skip
<1>8. ASSUME NEW j \in Jobs, NEW S, Retry(j, S) PROVE IInv' /\ Moves
  BY <1>8, RetryStep
<1>9. ASSUME NEW stage, StopStage(stage) PROVE IInv' /\ Moves
  BY <1>9, StopStageStep
<1>10. ASSUME NEW n \in Deletable, DeleteNode(n) PROVE IInv' /\ Moves
  BY <1>10, DeleteNodeStep, ConstantsAssumption
<1>11. CASE Poll
  BY <1>11, PollStep
<1>12. CASE OperatorStep
  BY <1>6, <1>7, <1>8, <1>9, <1>10, <1>11, <1>12, QuietSteps DEF OperatorStep
<1>13. CASE TimeStep
  BY <1>13, QuietSteps DEF TimeStep
<1> QED BY <1>5, <1>12, <1>13 DEF Next

\* So does a step that changes nothing.
LEMMA StutterSound ==
  ASSUME IInv, UNCHANGED vars PROVE IInv' /\ Moves
  BY QuietStep DEF vars, IInv, TypeOK

\* The inductive invariant: types, rows and producers that respect the chain of
\* their job, and nothing that exists before its job does.
THEOREM Inductive == Spec => []IInv
<1>1. Init => IInv
  BY InitSound
<1>2. IInv /\ [Next]_vars => IInv'
  BY StepSound, StutterSound
<1> QED BY <1>1, <1>2, PTL DEF Spec

\* Every variable keeps its type: in particular "no backup left" is never stored
\* as an owner, whichever nodes go silent during a sweep.
THEOREM TypeCorrect == Spec => []TypeOK
<1>1. IInv => TypeOK
  BY DEF IInv
<1> QED BY <1>1, Inductive, PTL

\* Failover only walks down the chain that a job froze at its creation, for every
\* number of nodes and every order in which they go silent and come back.
THEOREM FailoverIsMonotone == Spec => []FailoverMonotone
<1>1. IInv => FailoverMonotone
  <2>1. ASSUME IInv, NEW j \in Jobs, producer[j].state # "none"
        PROVE  producer[j].gen < rank[j][producer[j].node]
    BY <2>1 DEF IInv, ProducerSound
  <2>2. ASSUME IInv, NEW t \in TaskIds, task[t].state # "absent"
        PROVE  IF JobSpec[t.job].managed
                 THEN task[t].gen < rank[t.job][task[t].node] ELSE task[t].gen = 0
    BY <2>2 DEF IInv, Sound, RowMonotone
  <2> QED BY <2>1, <2>2 DEF FailoverMonotone
<1> QED BY <1>1, Inductive, PTL

\* No step gives a managed row back to an owner earlier in its chain.
THEOREM RowsNeverReturn == Spec => NeverReturns
<1> DEFINE Onward == \A t \in TaskIds :
              (task[t].state # "absent" /\ JobSpec[t.job].managed) =>
                 rank[t.job][task'[t].node] >= rank[t.job][task[t].node]
<1>1. IInv /\ Moves => Onward
  <2> SUFFICES ASSUME IInv, Moves, NEW t \in TaskIds, task[t].state # "absent", JobSpec[t.job].managed
               PROVE  rank[t.job][task'[t].node] >= rank[t.job][task[t].node]
    OBVIOUS
  <2>1. CASE Follows(task, task')
    BY <2>1 DEF Follows, RowFollows
  <2>2. ASSUME NEW tk, NEW u \in TaskIds, NEW n \in Nodes, Starts(tk, u, n)
        PROVE  rank[t.job][task'[t].node] >= rank[t.job][task[t].node]
    <3>1. Follows(task, tk) /\ tk \in [TaskIds -> Rows] /\ task' = [tk EXCEPT ![u] = Granted(tk[u])]
      BY <2>2 DEF Starts, Sound
    <3>2. task'[t].node = tk[t].node
      BY <3>1, GrantedType
    <3> QED BY <3>1, <3>2 DEF Follows, RowFollows
  <2> QED BY <2>1, <2>2 DEF Moves
<1>2. IInv /\ [Next]_vars => [Onward]_vars
  BY <1>1, StepSound
<1> QED BY <1>2, Inductive, PTL DEF Spec, NeverReturns

-----------------------------------------------------------------------------
(***************************************************************************)
(* Locks and fences.  A table that follows another has no new active row,  *)
(* so both lock invariants and the fence survive; a started row was looked *)
(* at by Blocked in the very table it is started in.                       *)
(***************************************************************************)
ActiveIn(tk) == {t \in TaskIds : tk[t].state \in Active}

TunnelExclusiveIn(tk) ==
  \A t, u \in ActiveIn(tk) : (t.stage \in Tunnel /\ u.stage \in Tunnel /\ t.on = u.on) => t = u

SpeedAloneIn(tk) ==
  \A t, u \in ActiveIn(tk) : (t.stage = "speed" /\ tk[t].node = tk[u].node) => t = u

FencedIn(tk, gs) ==
  \A t \in ActiveIn(tk) :
    [task |-> t, attempt |-> tk[t].attempt, node |-> tk[t].node, gen |-> tk[t].gen] \in gs

LocksIn(tk) == TunnelExclusiveIn(tk) /\ SpeedAloneIn(tk)

\* Fewer active rows in the same places still respect the locks and their grants.
LEMMA FollowsKeepsLocks ==
  ASSUME NEW tk, NEW uk, NEW gs, Follows(tk, uk), LocksIn(tk), FencedIn(tk, gs)
  PROVE  LocksIn(uk) /\ FencedIn(uk, gs)
<1>1. ASSUME NEW t \in ActiveIn(uk)
      PROVE  /\ t \in ActiveIn(tk)
             /\ uk[t].node = tk[t].node /\ uk[t].attempt = tk[t].attempt /\ uk[t].gen = tk[t].gen
  BY DEF ActiveIn, Follows, RowFollows
<1>2. TunnelExclusiveIn(uk)
  BY <1>1 DEF LocksIn, TunnelExclusiveIn
<1>3. SpeedAloneIn(uk)
  BY <1>1 DEF LocksIn, SpeedAloneIn
<1>4. FencedIn(uk, gs)
  BY <1>1 DEF FencedIn
<1> QED BY <1>2, <1>3, <1>4 DEF LocksIn

\* A started row was not blocked by any row that is still active.
LEMMA MovesKeepLocks ==
  ASSUME IInv, Moves, LocksIn(task), FencedIn(task, grants)
  PROVE  LocksIn(task') /\ FencedIn(task', grants')
<1>1. CASE Follows(task, task')
  <2>1. LocksIn(task') /\ FencedIn(task', grants)
    BY <1>1, FollowsKeepsLocks
  <2> QED BY <2>1 DEF Moves, FencedIn
<1>2. ASSUME NEW tk, NEW s \in TaskIds, NEW n \in Nodes, Starts(tk, s, n)
      PROVE  LocksIn(task') /\ FencedIn(task', grants')
  <2>1. /\ tk \in [TaskIds -> Rows] /\ task' = [tk EXCEPT ![s] = Granted(tk[s])]
        /\ tk[s].node = n /\ tk[s].state = "pending"
    BY <1>2 DEF Starts, Sound
  <2>2. LocksIn(tk) /\ FencedIn(tk, grants)
    BY <1>2, FollowsKeepsLocks DEF Starts
  <2>3. /\ task'[s].node = n /\ task'[s].gen = tk[s].gen /\ task'[s].attempt = tk[s].claims + 1
        /\ \A t \in TaskIds \ {s} : task'[t] = tk[t]
    BY <2>1, GrantedType
  <2>4. \A t \in ActiveIn(task') : t = s \/ t \in ActiveIn(tk)
    BY <2>3 DEF ActiveIn
  <2>5. \A u \in ActiveIn(tk) :
          /\ ~(tk[u].node = n /\ u.stage = "speed")
          /\ s.stage = "speed" => tk[u].node # n
          /\ s.stage \in Tunnel /\ u.stage \in Tunnel => u.on # s.on
    BY <1>2 DEF Starts, Blocked, ActiveIn
  <2>6. s \notin ActiveIn(tk)
    BY <2>1 DEF ActiveIn, Active
  <2>7. TunnelExclusiveIn(task')
    BY <2>2, <2>4, <2>5 DEF LocksIn, TunnelExclusiveIn
  <2>8. SpeedAloneIn(task')
    <3> SUFFICES ASSUME NEW t \in ActiveIn(task'), NEW u \in ActiveIn(task'),
                        t.stage = "speed", task'[t].node = task'[u].node
                 PROVE  t = u
      BY DEF SpeedAloneIn
    <3>1. CASE t = s /\ u # s
      BY <2>3, <2>4, <2>5, <3>1 DEF ActiveIn
    <3>2. CASE t # s /\ u = s
      BY <2>3, <2>4, <2>5, <3>2 DEF ActiveIn
    <3>3. CASE t # s /\ u # s
      BY <2>2, <2>3, <2>4, <3>3 DEF ActiveIn, LocksIn, SpeedAloneIn
    <3> QED BY <3>1, <3>2, <3>3
  <2>9. FencedIn(task', grants')
    <3> SUFFICES ASSUME NEW t \in ActiveIn(task')
                 PROVE  [task |-> t, attempt |-> task'[t].attempt, node |-> task'[t].node,
                         gen |-> task'[t].gen] \in grants'
      BY DEF FencedIn
    <3>1. grants' = grants \cup {[task |-> s, attempt |-> tk[s].claims + 1, node |-> n, gen |-> tk[s].gen]}
      BY <1>2 DEF Starts
    <3>2. CASE t = s
      BY <2>3, <3>1, <3>2
    <3>3. CASE t # s
      <4>1. t \in ActiveIn(tk) /\ task'[t] = tk[t]
        BY <2>3, <2>4, <3>3 DEF ActiveIn
      <4> QED BY <2>2, <3>1, <4>1 DEF FencedIn
    <3> QED BY <3>2, <3>3
  <2> QED BY <2>7, <2>8, <2>9 DEF LocksIn
<1> QED BY <1>1, <1>2 DEF Moves

\* The locks and the fencing of attempts hold together, relative to the invariant.
LEMMA LocksAndFences == Spec => [](LocksIn(task) /\ FencedIn(task, grants))
<1> DEFINE Inv == LocksIn(task) /\ FencedIn(task, grants)
<1>1. Init => Inv
  <2>1. ASSUME Init PROVE ActiveIn(task) = {}
    <3>1. NoRow.state \notin Active
      BY DEF NoRow, Active
    <3>2. \A t \in TaskIds : task[t] = NoRow
      BY <2>1 DEF Init
    <3> QED BY <3>1, <3>2 DEF ActiveIn
  <2> QED BY <2>1 DEF LocksIn, TunnelExclusiveIn, SpeedAloneIn, FencedIn
<1>2. IInv /\ Inv /\ [Next]_vars => Inv'
  <2> SUFFICES ASSUME IInv, Inv, [Next]_vars PROVE Inv'
    OBVIOUS
  <2>1. Moves
    BY StepSound, StutterSound
  <2> QED BY <2>1, MovesKeepLocks
<1> QED BY <1>1, <1>2, Inductive, PTL DEF Spec

\* At most one tunnel test uses the ports of a host, over all nodes and jobs.
THEOREM TunnelIsExclusive == Spec => []TunnelExclusive
<1>1. LocksIn(task) => TunnelExclusive
  BY DEF LocksIn, TunnelExclusiveIn, TunnelExclusive, ActiveIn, ActiveRows
<1> QED BY <1>1, LocksAndFences, PTL

\* A speed test never shares its node with another active test.
THEOREM SpeedIsAlone == Spec => []SpeedAlone
<1>1. LocksIn(task) => SpeedAlone
  BY DEF LocksIn, SpeedAloneIn, SpeedAlone, ActiveIn, ActiveRows
<1> QED BY <1>1, LocksAndFences, PTL

\* An active row is held by the worker, the attempt and the generation that some
\* claim handed out together.
THEOREM AttemptsAreFenced == Spec => []GrantsFenced
<1>1. FencedIn(task, grants) => GrantsFenced
  BY DEF FencedIn, GrantsFenced, ActiveIn, ActiveRows
<1> QED BY <1>1, LocksAndFences, PTL

-----------------------------------------------------------------------------
(***************************************************************************)
(* The probe scheduler implements FencedTasks: what a row's holder, its    *)
(* claims and the result history do is a behaviour of it.                  *)
(***************************************************************************)

HolderOf(r) ==
  IF r.state = "running" THEN [attempt |-> r.attempt, node |-> r.node, gen |-> r.gen] ELSE NoNode

HolderMap(tk) == [t \in TaskIds |-> HolderOf(tk[t])]

AllHolders == [attempt : Nat, node : Nodes, gen : Nat]

\* Rows that are running, and no others, have a holder.
LEMMA HolderFacts ==
  ASSUME NEW tk \in [TaskIds -> Rows]
  PROVE  /\ HolderMap(tk) \in [TaskIds -> AllHolders \cup {NoNode}]
         /\ \A t \in TaskIds : HolderMap(tk)[t] # NoNode <=> tk[t].state = "running"
<1>1. ASSUME NEW t \in TaskIds
      PROVE  /\ HolderOf(tk[t]) \in AllHolders \cup {NoNode}
             /\ HolderOf(tk[t]) # NoNode <=> tk[t].state = "running"
  <2>1. [attempt |-> tk[t].attempt, node |-> tk[t].node, gen |-> tk[t].gen] \in AllHolders
    BY DEF Rows, AllHolders
  <2>2. NoNode \notin AllHolders
    BY ConstantsAssumption DEF AllHolders
  <2> QED BY <2>1, <2>2 DEF HolderOf
<1> QED BY <1>1 DEF HolderMap

\* A table that follows another withdraws holders and issues nothing.
LEMMA FollowsWithdraws ==
  ASSUME NEW tk \in [TaskIds -> Rows], NEW uk \in [TaskIds -> Rows], Follows(tk, uk), NEW t \in TaskIds
  PROVE  HolderMap(uk)[t] \in {HolderMap(tk)[t], NoNode} /\ uk[t].claims = tk[t].claims
<1>1. RowFollows(t, tk[t], uk[t])
  BY DEF Follows
<1> QED BY <1>1 DEF HolderMap, HolderOf, RowFollows, Active

\* What a step does to the result history.
Accepted(g, ok) ==
  /\ Follows(task, task')
  /\ HolderOf(task[g.task]) = [attempt |-> g.attempt, node |-> g.node, gen |-> g.gen]
  /\ task[g.task].state = "running" /\ task'[g.task].state # "running"
  /\ results' = results \cup {[task |-> g.task, attempt |-> g.attempt, node |-> g.node,
                                gen |-> g.gen, pass |-> ok]}

\* A report that adds to the history adds the result of the attempt that held the
\* row, and ends that attempt.
LEMMA ReportResults ==
  ASSUME IInv, NEW g \in grants, NEW outcome \in Outcomes, Report(g, outcome), results' # results
  PROVE  Accepted(g, outcome = "pass")
<1> DEFINE tk == Swept(node)
           t == g.task
           fin == [tk EXCEPT ![t] = Finished(tk[t], outcome)]
           ok == outcome = "pass"
<1>1. /\ Sound(tk) /\ Follows(task, tk) /\ tk \in [TaskIds -> Rows] /\ t \in TaskIds
      /\ tk[t] \in Rows /\ g.node \in Nodes /\ rank \in [Jobs -> [Nodes -> Nat]]
  BY SweepSound DEF IInv, TypeOK, Grants, Sound
<1>2. /\ Held(tk, g, "running") /\ outcome # "infra" /\ task' = WithNextRow(fin, t, g.node, ok)
      /\ \A x \in NextRows(t, ok) : InsertFits(fin, x[1], g.node)
      /\ results' = results \cup {ResultOf(g, outcome)}
  BY DEF Report, Record
<1>3. Follows(task, task')
  BY ReportRows
<1>4. /\ tk[t].state = "running" /\ tk[t].node = g.node /\ tk[t].attempt = g.attempt
      /\ tk[t].gen = g.gen
  BY <1>2 DEF Held
<1>5. /\ task[t].state = "running" /\ task[t].node = g.node /\ task[t].attempt = g.attempt
      /\ task[t].gen = g.gen
  BY <1>1, <1>4 DEF Follows, RowFollows, Active
<1>6. fin[t].state \notin Active
  BY <1>1, <1>2 DEF Finished, Rows, Active
<1>7. task'[t].state # "running"
  <2>1. CASE NextRows(t, ok) = {}
    BY <1>2, <1>6, <2>1 DEF WithNextRow, Active
  <2>2. CASE NextRows(t, ok) # {}
    <3> DEFINE x == CHOOSE x \in NextRows(t, ok) : TRUE
    <3>1. x[1].job = t.job /\ x[2] \in {"pending", "skipped"} /\ InsertFits(fin, x[1], g.node)
      BY <1>2, <2>2, NextRowsType
    <3>2. fin \in [TaskIds -> Rows] /\ \A u \in TaskIds : RowKeeps(tk[u], fin[u])
      <4>1. Finished(tk[t], outcome) \in Rows /\ RowKeeps(tk[t], Finished(tk[t], outcome))
        BY <1>1, <1>4, FinishedKeeps
      <4> HIDE DEF tk, t
      <4> QED BY <1>1, <4>1 DEF RowKeeps
    <3>3. Sound(fin)
      BY <1>1, <3>2, KeepsSound
    <3>4. /\ tk[t].gen \in Nat /\ fin[t].gen = tk[t].gen
          /\ Fits(t.job, g.node, tk[t].gen) /\ jobState[t.job] # "absent"
      BY <1>1, <1>4, <3>2 DEF Sound, Rows, RowKeeps, RowMonotone, RowHasJob, Fits
    <3>5. task' = Insert(fin, x[1], g.node, x[2], tk[t].gen)
      BY <1>2, <2>2, <3>4 DEF WithNextRow
    <3> HIDE DEF fin, x, tk, t
    <3>6. Follows(fin, task')
      BY <1>1, <3>1, <3>3, <3>4, <3>5, InsertSound
    <3> QED BY <1>1, <1>6, <3>6 DEF Follows, RowFollows, Active
  <2> QED BY <2>1, <2>2
<1> QED BY <1>2, <1>3, <1>5, <1>7 DEF Accepted, HolderOf, ResultOf

\* Only an accepted report adds to the history and only clearing it takes away.
LEMMA ResultSteps ==
  ASSUME IInv, Next
  PROVE  \/ results' = results
         \/ UNCHANGED task /\ results' \subseteq results
         \/ \E g \in grants, ok \in BOOLEAN : Accepted(g, ok)
<1>1. ASSUME NEW g \in grants, NEW outcome \in Outcomes, Report(g, outcome)
      PROVE  results' = results \/ \E h \in grants, ok \in BOOLEAN : Accepted(h, ok)
  <2>1. (outcome = "pass") \in BOOLEAN
    OBVIOUS
  <2> QED BY <1>1, <2>1, ReportResults
<1>2. CASE WorkerStep
  <2>1. ASSUME NEW n \in Nodes, Claim(n) PROVE results' = results
    BY <2>1 DEF Claim, ClaimWith
  <2>2. ASSUME NEW n, NEW p, Heartbeat(n, p) PROVE results' = results
    BY <2>2 DEF Heartbeat, Sweep
  <2>3. ASSUME NEW g, NEW seq, NEW hit, Progress(g, seq, hit) PROVE results' = results
    BY <2>3 DEF Progress
  <2> QED BY <1>1, <1>2, <2>1, <2>2, <2>3 DEF WorkerStep
<1>3. CASE OperatorStep
  <2>1. ASSUME NEW p, SetPolicy(p) PROVE results' = results
    BY <2>1 DEF SetPolicy
  <2>2. ASSUME NEW j, CreateJob(j) \/ CreateSelectionJob(j) PROVE results' = results
    BY <2>2 DEF CreateJob, CreateSelectionJob
  <2>3. ASSUME NEW j, NEW S, Stop(j, S) \/ Skip(j, S) \/ Retry(j, S) PROVE results' = results
    BY <2>3 DEF Stop, Skip, StopOrSkip, Retry
  <2>4. ASSUME NEW stage, StopStage(stage) PROVE results' = results
    BY <2>4 DEF StopStage
  <2>5. ASSUME NEW n, DeleteNode(n) PROVE results' = results
    BY <2>5 DEF DeleteNode
  <2>6. ASSUME NEW S, NEW kind, ClearHistory(S, kind) PROVE UNCHANGED task /\ results' \subseteq results
    BY <2>6 DEF ClearHistory
  <2>7. Poll => results' = results
    BY DEF Poll, Sweep
  <2> QED BY <1>3, <2>1, <2>2, <2>3, <2>4, <2>5, <2>6, <2>7 DEF OperatorStep
<1>4. CASE TimeStep
  BY <1>4 DEF TimeStep, LeaseRunsOut, GoSilent
<1> QED BY <1>2, <1>3, <1>4 DEF Next

\* The holders and ids of this module are those the refinement substitutes.
LEMMA HolderRefines ==
  /\ HolderMap(task) = [t \in TaskIds |-> Holder(t)]
  /\ HolderMap(task') = [t \in TaskIds |-> Holder(t)]'
  BY DEF HolderMap, HolderOf, Holder

ClaimsOf(tk) == [t \in TaskIds |-> tk[t].claims]

\* No row is held, nothing was issued and nothing accepted at first.
LEMMA RefinesInit == Init => Fenced!AbsInit
<1> SUFFICES ASSUME Init PROVE Fenced!AbsInit
  OBVIOUS
<1>1. NoRow.state = "absent" /\ NoRow.claims = 0
  BY DEF NoRow
<1>2. \A t \in TaskIds : task[t] = NoRow
  BY DEF Init
<1>3. [t \in TaskIds |-> Holder(t)] = [t \in TaskIds |-> NoNode]
  BY <1>1, <1>2 DEF Holder
<1>4. [t \in TaskIds |-> task[t].claims] = [t \in TaskIds |-> 0]
  BY <1>1, <1>2
<1>5. results = {}
  BY DEF Init
<1> QED BY <1>3, <1>4, <1>5 DEF Fenced!AbsInit

\* A step that moves rows as Moves says, and changes the history only by an
\* accepted report or a clearing, is a step of FencedTasks or a stutter.
LEMMA RefinesStep ==
  ASSUME IInv, IInv', Moves,
         \/ results' = results
         \/ UNCHANGED task /\ results' \subseteq results
         \/ \E g \in grants, ok \in BOOLEAN : Accepted(g, ok)
  PROVE  Fenced!AbsNext
<1>1. task \in [TaskIds -> Rows] /\ task' \in [TaskIds -> Rows]
  BY DEF IInv, TypeOK
<1>2. /\ HolderMap(task') \in [TaskIds -> AllHolders \cup {NoNode}]
      /\ \A t \in TaskIds : HolderMap(task')[t] # NoNode <=> task'[t].state = "running"
      /\ \A t \in TaskIds : HolderMap(task)[t] # NoNode <=> task[t].state = "running"
  BY <1>1, HolderFacts
<1>3. Fenced!Holders = AllHolders
  BY DEF Fenced!Holders, AllHolders
<1>4. ASSUME Follows(task, task')
      PROVE  /\ \A t \in TaskIds : HolderMap(task')[t] \in {HolderMap(task)[t], NoNode}
             /\ ClaimsOf(task') = ClaimsOf(task)
  <2>1. \A t \in TaskIds : /\ HolderMap(task')[t] \in {HolderMap(task)[t], NoNode}
                           /\ task'[t].claims = task[t].claims
    BY <1>1, <1>4, FollowsWithdraws
  <2> QED BY <2>1 DEF ClaimsOf
<1> USE HolderRefines DEF ClaimsOf
<1>5. CASE Follows(task, task') /\ results' = results
  <2>1. Fenced!Withdraw
    BY <1>2, <1>3, <1>4, <1>5 DEF Fenced!Withdraw, Fenced!KeptOrWithdrawn
  <2> QED BY <2>1 DEF Fenced!AbsNext
<1>6. CASE UNCHANGED task /\ results' \subseteq results
  <2>1. Fenced!Clear
    BY <1>6 DEF Fenced!Clear
  <2> QED BY <2>1 DEF Fenced!AbsNext
<1>7. ASSUME NEW g \in grants, NEW ok \in BOOLEAN, Accepted(g, ok)
      PROVE  Fenced!AbsNext
  <2>1. g.task \in TaskIds
    BY DEF IInv, TypeOK, Grants
  <2>2. /\ HolderMap(task)[g.task] = [attempt |-> g.attempt, node |-> g.node, gen |-> g.gen]
        /\ HolderMap(task)[g.task] # NoNode /\ HolderMap(task')[g.task] = NoNode
    BY <1>2, <1>7, <2>1 DEF Accepted, HolderMap
  <2>3. results' = results \cup {Fenced!ResultBy(g.task, HolderMap(task)[g.task], ok)}
    BY <1>7, <2>2 DEF Accepted, Fenced!ResultBy
  <2>4. Fenced!Accept(g.task, ok)
    BY <1>2, <1>3, <1>4, <1>7, <2>2, <2>3 DEF Accepted, Fenced!Accept, Fenced!KeptOrWithdrawn
  <2> QED BY <2>1, <2>4 DEF Fenced!AbsNext
<1>8. ASSUME NEW tk, NEW s \in TaskIds, NEW n \in Nodes, Starts(tk, s, n), results' = results
      PROVE  Fenced!AbsNext
  <2>1. /\ tk \in [TaskIds -> Rows] /\ tk[s] \in Rows /\ Follows(task, tk)
        /\ task' = [tk EXCEPT ![s] = Granted(tk[s])]
    BY <1>8 DEF Starts, Sound
  <2>2. \A t \in TaskIds : /\ HolderMap(tk)[t] \in {HolderMap(task)[t], NoNode}
                           /\ tk[t].claims = task[t].claims
    BY <1>1, <2>1, FollowsWithdraws
  <2>3. /\ task'[s].state = "running" /\ task'[s].claims = tk[s].claims + 1
        /\ task'[s].attempt = tk[s].claims + 1
        /\ \A t \in TaskIds \ {s} : task'[t] = tk[t]
    BY <2>1, GrantedType
  <2>4. \A t \in TaskIds \ {s} : HolderMap(task')[t] \in {HolderMap(task)[t], NoNode}
    BY <2>2, <2>3 DEF HolderMap
  <2>5. HolderMap(task')[s] \in AllHolders /\ HolderMap(task')[s].attempt = ClaimsOf(task)[s] + 1
    <3>1. HolderMap(task')[s] \in AllHolders
      <4>1. HolderMap(task')[s] \in AllHolders \cup {NoNode} /\ HolderMap(task')[s] # NoNode
        BY ONLY <1>2, <2>3
      <4> QED BY ONLY <4>1
    <3>2. HolderMap(task')[s] = HolderOf(task'[s])
      BY DEF HolderMap
    <3>3. HolderMap(task')[s].attempt = task'[s].attempt
      BY ONLY <2>3, <3>2 DEF HolderOf
    <3>4. task'[s].attempt = ClaimsOf(task)[s] + 1
      BY ONLY <2>2, <2>3 DEF ClaimsOf
    <3> QED BY ONLY <3>1, <3>3, <3>4
  <2>6. ClaimsOf(task') = [ClaimsOf(task) EXCEPT ![s] = @ + 1]
    BY <2>2, <2>3
  <2>7. Fenced!Grant(s)
    BY <1>2, <1>3, <1>8, <2>4, <2>5, <2>6 DEF Fenced!Grant, Fenced!KeptOrWithdrawn
  <2> QED BY <2>7 DEF Fenced!AbsNext
<1>9. Moves => \/ Follows(task, task')
               \/ \E tk : \E s \in TaskIds, n \in Nodes : Starts(tk, s, n)
  BY DEF Moves
<1> QED BY <1>5, <1>6, <1>7, <1>8, <1>9

\* The scheduler implements FencedTasks: an attempt is issued once, it holds its
\* row alone, and only the holder's result enters the history and ends it.
THEOREM ImplementsFencedTasks == Spec => ResultsFenced
<1>1. IInv /\ IInv' /\ [Next]_vars => [Fenced!AbsNext]_(Fenced!absVars)
  <2> SUFFICES ASSUME IInv, IInv', [Next]_vars PROVE [Fenced!AbsNext]_(Fenced!absVars)
    OBVIOUS
  <2>1. CASE Next
    BY <2>1, StepSound, ResultSteps, RefinesStep
  <2>2. CASE UNCHANGED vars
    BY <2>2 DEF vars, Holder, Fenced!absVars
  <2> QED BY <2>1, <2>2
<1> QED BY <1>1, RefinesInit, Inductive, PTL DEF Spec, ResultsFenced, Fenced!AbsSpec

FencedTheory == INSTANCE FencedTasksProofs WITH
  Tasks    <- TaskIds,
  None     <- NoNode,
  holder   <- [t \in TaskIds |-> Holder(t)],
  issued   <- [t \in TaskIds |-> task[t].claims],
  accepted <- results

\* However often a worker repeats its report and however late it arrives, an
\* attempt of a row has at most one result in probe_results.
THEOREM AttemptsHaveOneResult == Spec => [](Fenced!OneResultPerAttempt)
<1>1. Fenced!AbsInit <=> FencedTheory!AbsInit
  BY DEF Fenced!AbsInit, FencedTheory!AbsInit
<1>2. [Fenced!AbsNext]_(Fenced!absVars) => [FencedTheory!AbsNext]_(FencedTheory!absVars)
  BY DEF Fenced!AbsNext, Fenced!Withdraw, Fenced!Grant, Fenced!Accept, Fenced!Clear, Fenced!absVars,
         Fenced!Holders, Fenced!ResultBy, Fenced!KeptOrWithdrawn,
         FencedTheory!AbsNext, FencedTheory!Withdraw, FencedTheory!Grant, FencedTheory!Accept,
         FencedTheory!Clear, FencedTheory!absVars,
         FencedTheory!Holders, FencedTheory!ResultBy, FencedTheory!KeptOrWithdrawn
<1>3. FencedTheory!OneResultPerAttempt <=> Fenced!OneResultPerAttempt
  BY DEF Fenced!OneResultPerAttempt, FencedTheory!OneResultPerAttempt
<1> QED
  BY <1>1, <1>2, <1>3, ImplementsFencedTasks, FencedTheory!OneResult, PTL
  DEF ResultsFenced, Fenced!AbsSpec, FencedTheory!AbsSpec
=============================================================================
