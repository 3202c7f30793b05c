--------------------------- MODULE MCProbeScheduler ---------------------------
(***************************************************************************)
(* Instances of ProbeScheduler for TLC.                                    *)
(***************************************************************************)
EXTENDS ProbeScheduler, TLC

CONSTANTS A, B, J1, J2, Ip1, Ip2

Managed(mode, targets) ==
  [mode |-> mode, managed |-> TRUE, frozen |-> FALSE, owners |-> <<>>,
   targets |-> targets, conc |-> 2]

Explicit(mode, owners, targets) ==
  [mode |-> mode, managed |-> FALSE, frozen |-> FALSE, owners |-> owners,
   targets |-> targets, conc |-> 2]

Frozen(mode, targets) == [Managed(mode, targets) EXCEPT !.frozen = TRUE]

Current == [gen |-> TRUE, caps |-> Stages]
Legacy  == [gen |-> FALSE, caps |-> Stages]

AllCurrent == [n \in Nodes |-> {Current}]

\* The policies and heartbeats of the instances.
ChainAB == {<<A, B>>}
ChainA  == {<<A>>}
PolicyAB == <<A, B>>
PolicyA  == <<A>>
OldBackup == [n \in Nodes |-> IF n = B THEN {Current, Legacy} ELSE {Current}]

\* What the operator does.
RetryRows  == {<<"retry", "row">>}
StopJob == {<<"stop", "job">>}
StopAndRetryJob == {<<"stop", "job">>, <<"retry", "job">>}
StopJobRetryRow == {<<"stop", "job">>, <<"retry", "row">>}
SkipJob == {<<"skip", "job">>}

\* One host, one job on the saved primary.
OneConnectivityJob == (J1 :> Managed("connectivity", <<Ip1>>))
OneFullJob         == (J1 :> Managed("full", <<Ip1>>))

\* A pipeline on the saved primary and a speed job of its node: both want the
\* tunnel ports of the host and the bandwidth of the node.
PipelineAndSpeed ==
  J1 :> Managed("full", <<Ip1>>) @@
  J2 :> Explicit("speed", <<A>>, <<Ip1>>)

\* A scan of two chunks whose hit is tested at once.
OneScan == (J1 :> Managed("discover+route", <<>>))
HitInFirst == (Ip1 :> 1)

\* A server selection of two hosts, streamed by its producer.
OneSelection == (J1 :> Frozen("route", <<Ip1, Ip2>>))
=============================================================================
