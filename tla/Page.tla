-------------------------------- MODULE Page --------------------------------
(***************************************************************************)
(* What the pages of the Console have in common (App.tsx, lib/api.ts).     *)
(*                                                                         *)
(* The router mounts one page at a time, so one variable holds the state   *)
(* of the mounted components.  A page talks to the servers by requests     *)
(* that are answered in any order, late or not at all; a request that was  *)
(* sent is a record on `wire` until its answer is handled or dropped.      *)
(*                                                                         *)
(*   focus   the page a behaviour is about                                 *)
(*   page    the state of its components                                   *)
(*   wire    its requests and their answers                                *)
(*   world   what the servers hold                                         *)
(*   deeds   how many things the user did, bounded for model checking      *)
(***************************************************************************)
EXTENDS Naturals, Sequences, FiniteSets, SequencesExt, TLC

CONSTANTS
    NoOne,      \* no instance, no node, no request, no selection
    MaxWire,    \* per page, a bound on requests in flight
    MaxDeeds    \* per page, a bound on what the user and the servers do

VARIABLES focus, page, wire, world, deeds

pageVars == <<focus, page, wire, world, deeds>>

Opens(name, state, servers) ==
    /\ focus = name
    /\ page = state
    /\ world = servers
    /\ wire = {}
    /\ deeds = 0

Shows(name) == focus = name

Of(kind) == {r \in wire : r.kind = kind}
Room     == Cardinality(wire) < MaxWire[focus]

\* The fields of f, and those of g it does not have.
Joined(f, g) == [x \in DOMAIN f \cup DOMAIN g |-> IF x \in DOMAIN f THEN f[x] ELSE g[x]]

(* The n-th page of a list that is sorted, of one entry a page.            *)
NthOf(set, n) == {i \in set : Cardinality({j \in set : j <= i}) = n}

(* The next render has to wait for an answer, a timer or the user: the user *)
(* acts a bounded number of times.                                          *)
UserActs == deeds < MaxDeeds[focus] /\ deeds' = deeds + 1 /\ UNCHANGED focus
Runs     == UNCHANGED <<deeds, focus>>
=============================================================================
