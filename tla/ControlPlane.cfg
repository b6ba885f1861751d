SPECIFICATION ControlPlaneFairSpec
CONSTANTS
  loop = loop
  api = api
  image = image
  NoImage = NoImage
  Loop = loop
  Callers = {loop, api}
  Services <- OneService
  Claims <- OwnNames
  Images = {image}
  InitialSpecs <- OneReplica
  Operations = {"update", "scale", "restart", "delete"}
  ReplicaChoices = {1, 2}
  GenerationChoices = {0}
  MaxGeneration = 9
  MaxContainers = 7
  MaxRequests = 1
  MaxFaults = 1
  MaxCrashes = 1
INVARIANT OvershootIsBounded
PROPERTY Convergence
PROPERTY StatusSettles
CHECK_DEADLOCK FALSE
