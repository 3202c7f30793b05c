------------------------------ MODULE MCAgentHub ------------------------------
(***************************************************************************)
(* Instances of AgentHub for TLC: one node whose agent reconnects, one     *)
(* request of each kind and one log stream.                                *)
(***************************************************************************)
EXTENDS AgentHub

CONSTANTS n, s1, s2, summary, decommission, log

OneNode   == [x \in Sessions \cup Calls \cup Streams |-> n]
EachKind  == [c \in Calls |-> IF c = summary THEN "summary" ELSE "decommission"]
=============================================================================
