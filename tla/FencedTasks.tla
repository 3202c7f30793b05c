----------------------------- MODULE FencedTasks -----------------------------
(***************************************************************************)
(* What the probe scheduler promises about results, without owners,        *)
(* chains, leases, retries or cancellation: a task is held by at most one  *)
(* attempt at a time, an attempt id is issued once, and a result enters    *)
(* the history only as the result of the attempt that holds its task, which *)
(* ends that attempt.  Whatever else the scheduler does to a row is a      *)
(* withdrawal, and one transaction may withdraw any number of tasks before *)
(* it does its own work.                                                   *)
(***************************************************************************)
EXTENDS Naturals

CONSTANTS Tasks, Nodes, None

Holders == [attempt : Nat, node : Nodes, gen : Nat]

VARIABLES
  holder,    \* the attempt that holds each task, or None
  issued,    \* attempts issued for each task
  accepted   \* the history: results accepted and not cleared

absVars == <<holder, issued, accepted>>

ResultBy(t, h, ok) ==
  [task |-> t, attempt |-> h.attempt, node |-> h.node, gen |-> h.gen, pass |-> ok]

AbsInit ==
  /\ holder = [t \in Tasks |-> None]
  /\ issued = [t \in Tasks |-> 0]
  /\ accepted = {}

KeptOrWithdrawn(t) == holder'[t] \in {holder[t], None}

Withdraw ==
  /\ holder' \in [Tasks -> Holders \cup {None}]
  /\ \A t \in Tasks : KeptOrWithdrawn(t)
  /\ UNCHANGED <<issued, accepted>>

\* The next attempt of a task that nobody holds, or that is withdrawn with it.
Grant(t) ==
  /\ holder' \in [Tasks -> Holders \cup {None}]
  /\ \A u \in Tasks \ {t} : KeptOrWithdrawn(u)
  /\ holder'[t] \in Holders /\ holder'[t].attempt = issued[t] + 1
  /\ issued' = [issued EXCEPT ![t] = @ + 1]
  /\ UNCHANGED accepted

Accept(t, ok) ==
  /\ holder' \in [Tasks -> Holders \cup {None}]
  /\ holder[t] # None /\ holder'[t] = None
  /\ \A u \in Tasks : KeptOrWithdrawn(u)
  /\ accepted' = accepted \cup {ResultBy(t, holder[t], ok)}
  /\ UNCHANGED issued

Clear ==
  /\ accepted' \subseteq accepted
  /\ UNCHANGED <<holder, issued>>

AbsNext ==
  \/ Withdraw
  \/ \E t \in Tasks : Grant(t) \/ \E ok \in BOOLEAN : Accept(t, ok)
  \/ Clear

AbsSpec == AbsInit /\ [][AbsNext]_absVars

\* Repeated and late reports cannot add a second result to an attempt.
OneResultPerAttempt ==
  \A r, q \in accepted : (r.task = q.task /\ r.attempt = q.attempt) => r = q
=============================================================================
