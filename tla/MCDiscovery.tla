----------------------------- MODULE MCDiscovery -----------------------------
(***************************************************************************)
(* Instances of Discovery for TLC.                                         *)
(***************************************************************************)
EXTENDS Discovery, TLC

CONSTANTS loop, api, h1, web, web1, web2

\* Two replicas of service web.
OwnerOf == [i \in Instances |-> web]

Symmetry == Permutations(Callers) \cup Permutations(Instances)

\* The last answer of the registry is read by no later step.
StateView == <<buckets, balancer, managers, faults>>
=============================================================================
