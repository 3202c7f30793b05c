--------------------------- MODULE MCProbeLiveness ---------------------------
(***************************************************************************)
(* Every job ends.  The scheduler has no thread of its own: rows move only *)
(* when some node calls in.  Fairness is asked of                          *)
(*   - Console, which runs in the same process as the store and sends its  *)
(*     heartbeat every ten seconds (worker.py, _heartbeat);                *)
(*   - a node that is online: it goes on claiming (worker.py, run);        *)
(*   - an attempt: its executor has a timeout and its outcome is reported  *)
(*     (worker.py, _run), or its node no longer names it in a heartbeat    *)
(*     and its lease runs out.  Which of the two is left open.             *)
(* Nothing is asked of the heartbeat of a worker.  Nodes go silent at most *)
(* MaxFaults times: a node that flaps for ever can be given a row, and     *)
(* lose it, for ever.                                                      *)
(***************************************************************************)
EXTENDS MCProbeScheduler

CONSTANT MaxFaults  \* bound: times that a node goes silent

VARIABLE faults

liveVars == <<vars, faults>>

Faulty == \E n \in Nodes : node[n].online /\ ~node'[n].online

LiveInit == Init /\ faults = 0

LiveNext ==
  /\ Next
  /\ faults' = IF Faulty THEN faults + 1 ELSE faults
  /\ faults' <= MaxFaults

\* The steps asked to be fair, as steps of LiveNext.
ConsoleBeats == \E p \in Profiles[Console] : Heartbeat(Console, p) /\ LiveNext

OnlineClaims(n) == node[n].online /\ Claim(n) /\ LiveNext

AttemptReports(t) ==
  \E g \in grants, outcome \in Outcomes :
    /\ g.task = t /\ g.attempt = task[t].attempt /\ task[t].state \in Active
    /\ node[g.node].online
    /\ Report(g, outcome)

AttemptEnds(t) == (AttemptReports(t) \/ LeaseRunsOut(t)) /\ LiveNext

LiveSpec ==
  /\ LiveInit /\ [][LiveNext]_liveVars
  /\ WF_liveVars(ConsoleBeats)
  /\ \A n \in Nodes : WF_liveVars(OnlineClaims(n))
  /\ \A t \in TaskIds : WF_liveVars(AttemptEnds(t))
=============================================================================
