------------------------ MODULE MCControlPlaneHistory ------------------------
(***************************************************************************)
(* Instances of ControlPlaneHistory for TLC.                               *)
(***************************************************************************)
EXTENDS ControlPlaneHistory, MCControlPlane
=============================================================================
