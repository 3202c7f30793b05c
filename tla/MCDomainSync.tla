----------------------------- MODULE MCDomainSync -----------------------------
(***************************************************************************)
(* Instances of DomainSync for TLC: two servers that may have the same     *)
(* address, and one request of the panel at a time beside the scheduler.   *)
(***************************************************************************)
EXTENDS DomainSync

CONSTANTS s1, s2, a, b, req
=============================================================================
