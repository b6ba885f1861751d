---------------------------- MODULE MCObservation ----------------------------
(***************************************************************************)
(* Instances of Observation for TLC.                                       *)
(***************************************************************************)
EXTENDS Observation

CONSTANTS loop, api, image

OneService == {1}
OwnNames == [s \in Services |-> {s}]
TwoReplicas == {[image |-> image, replicas |-> 2, generation |-> 1]}
=============================================================================
