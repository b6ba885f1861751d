--------------------------- MODULE MCControlPlane ---------------------------
(***************************************************************************)
(* Instances of ControlPlane for TLC.                                      *)
(***************************************************************************)
EXTENDS ControlPlane

CONSTANTS loop, api, image

\* One service, or two whose names do not match each other's containers.
OneService == {1}
TwoServices == {1, 2}
OwnNames == [s \in Services |-> {s}]

\* Service 1 is "web" and service 2 "web-api": the containers of the second
\* are named "web-api-<suffix>" and match the prefix "web-" of the first.
PrefixNames == [s \in Services |-> IF s = 1 THEN {1, 2} ELSE {2}]

OneReplica == {[image |-> image, replicas |-> 1, generation |-> 1]}
TwoReplicas == {[image |-> image, replicas |-> 2, generation |-> 1]}
ThreeReplicas == {[image |-> image, replicas |-> 3, generation |-> 1]}

\* A service that was restarted before the boot.
RestartedBefore == {[image |-> image, replicas |-> 1, generation |-> 2]}
=============================================================================
