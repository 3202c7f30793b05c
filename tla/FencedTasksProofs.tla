-------------------------- MODULE FencedTasksProofs --------------------------
(***************************************************************************)
(* What FencedTasks gives to whoever implements it: an attempt has at most *)
(* one result.                                                             *)
(***************************************************************************)
EXTENDS FencedTasks, TLAPS

\* Results belong to issued attempts, and the attempt that holds a task has none.
AbsInv ==
  /\ holder \in [Tasks -> Holders \cup {None}]
  /\ issued \in [Tasks -> Nat]
  /\ \A r \in accepted : r.task \in Tasks /\ r.attempt \in Nat /\ r.attempt <= issued[r.task]
  /\ \A t \in Tasks : holder[t] # None =>
       /\ holder[t].attempt <= issued[t]
       /\ \A r \in accepted : r.task = t => r.attempt # holder[t].attempt
  /\ OneResultPerAttempt

\* What holds a task is an attempt.
LEMMA HolderType ==
  ASSUME AbsInv, NEW t \in Tasks, holder[t] # None
  PROVE  holder[t] \in Holders /\ holder[t].attempt \in Nat
  BY DEF AbsInv, Holders

\* Withdrawing tasks, and clearing the history, keep the invariant.
LEMMA WithdrawInv ==
  ASSUME AbsInv, holder' \in [Tasks -> Holders \cup {None}], \A t \in Tasks : KeptOrWithdrawn(t),
         issued' = issued, accepted' \subseteq accepted
  PROVE  AbsInv'
  BY DEF AbsInv, KeptOrWithdrawn, OneResultPerAttempt

\* A fresh attempt is later than every id issued, so it has no result yet.
LEMMA GrantInv ==
  ASSUME AbsInv, NEW t \in Tasks, Grant(t)
  PROVE  AbsInv'
<1>1. /\ issued' \in [Tasks -> Nat] /\ issued'[t] = issued[t] + 1
      /\ \A u \in Tasks \ {t} : issued'[u] = issued[u]
  BY DEF AbsInv, Grant
<1>2. \A u \in Tasks : issued[u] \in Nat /\ issued'[u] \in Nat /\ issued[u] <= issued'[u]
  BY <1>1 DEF AbsInv
<1>3. \A r \in accepted' : r.task \in Tasks /\ r.attempt \in Nat /\ r.attempt <= issued'[r.task]
  BY <1>2 DEF AbsInv, Grant
<1>4. ASSUME NEW u \in Tasks, holder'[u] # None
      PROVE  /\ holder'[u].attempt <= issued'[u]
             /\ \A r \in accepted' : r.task = u => r.attempt # holder'[u].attempt
  <2>1. CASE u = t
    <3>1. holder'[t].attempt = issued[t] + 1 /\ issued'[t] = issued[t] + 1 /\ issued[t] \in Nat
      BY <1>1 DEF Grant, AbsInv
    <3>2. \A r \in accepted : r.task = t => r.attempt <= issued[t] /\ r.attempt \in Nat
      BY DEF AbsInv
    <3> QED BY <2>1, <3>1, <3>2 DEF Grant
  <2>2. CASE u # t
    <3>1. holder'[u] = holder[u] /\ issued'[u] = issued[u]
      BY <1>1, <1>4, <2>2 DEF Grant, KeptOrWithdrawn
    <3> QED BY <1>4, <3>1 DEF AbsInv, Grant
  <2> QED BY <2>1, <2>2
<1> QED BY <1>1, <1>3, <1>4 DEF AbsInv, Grant, OneResultPerAttempt

\* The result of a holder is the first of its attempt.
LEMMA AcceptInv ==
  ASSUME AbsInv, NEW t \in Tasks, NEW ok \in BOOLEAN, Accept(t, ok)
  PROVE  AbsInv'
<1> DEFINE new == ResultBy(t, holder[t], ok)
<1>1. /\ new.task = t /\ new.attempt = holder[t].attempt /\ new.attempt \in Nat
      /\ new.attempt <= issued[t]
  BY HolderType DEF ResultBy, Accept, AbsInv
<1>2. \A r \in accepted : r.task = t => r.attempt # new.attempt
  BY <1>1 DEF Accept, AbsInv
<1>3. accepted' = accepted \cup {new} /\ issued' = issued
  BY DEF Accept
<1> HIDE DEF new
<1>4. \A r \in accepted' : r.task \in Tasks /\ r.attempt \in Nat /\ r.attempt <= issued'[r.task]
  BY <1>1, <1>3 DEF AbsInv
<1>5. ASSUME NEW u \in Tasks, holder'[u] # None
      PROVE  /\ holder'[u].attempt <= issued'[u]
             /\ \A r \in accepted' : r.task = u => r.attempt # holder'[u].attempt
  <2>1. u # t /\ holder'[u] = holder[u]
    BY <1>5 DEF Accept, KeptOrWithdrawn
  <2> QED BY <1>1, <1>3, <1>5, <2>1 DEF AbsInv
<1>6. OneResultPerAttempt'
  BY <1>1, <1>2, <1>3 DEF AbsInv, OneResultPerAttempt
<1> QED BY <1>3, <1>4, <1>5, <1>6 DEF AbsInv, Accept

\* However often and however late results are reported, an attempt of a task has
\* at most one in the history.
THEOREM OneResult == AbsSpec => []OneResultPerAttempt
<1>1. AbsInit => AbsInv
  BY DEF AbsInit, AbsInv, OneResultPerAttempt
<1>2. AbsInv /\ [AbsNext]_absVars => AbsInv'
  <2> SUFFICES ASSUME AbsInv, [AbsNext]_absVars PROVE AbsInv'
    OBVIOUS
  <2>1. CASE Withdraw
    BY <2>1, WithdrawInv DEF Withdraw
  <2>2. ASSUME NEW t \in Tasks, Grant(t) PROVE AbsInv'
    BY <2>2, GrantInv
  <2>3. ASSUME NEW t \in Tasks, NEW ok \in BOOLEAN, Accept(t, ok) PROVE AbsInv'
    BY <2>3, AcceptInv
  <2>4. CASE Clear
    BY <2>4, WithdrawInv DEF Clear, AbsInv, KeptOrWithdrawn
  <2>5. CASE UNCHANGED absVars
    BY <2>5, WithdrawInv DEF absVars, AbsInv, KeptOrWithdrawn
  <2> QED BY <2>1, <2>2, <2>3, <2>4, <2>5 DEF AbsNext
<1>3. AbsInv => OneResultPerAttempt
  BY DEF AbsInv
<1> QED BY <1>1, <1>2, <1>3, PTL DEF AbsSpec
=============================================================================
