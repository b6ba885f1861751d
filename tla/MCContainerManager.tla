------------------------- MODULE MCContainerManager -------------------------
(***************************************************************************)
(* Instances of ContainerManager for TLC.                                  *)
(***************************************************************************)
EXTENDS ContainerManager

CONSTANTS loop, api
=============================================================================
