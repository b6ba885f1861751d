SPECIFICATION HistorySpec
CONSTANTS
  loop = loop
  api = api
  image = image
  NoImage = NoImage
  Loop = loop
  Callers = {loop, api}
  Services <- OneService
  Claims <- OwnNames
  Images = {image}
  InitialSpecs <- RestartedBefore
  Operations = {"update", "scale", "restart", "delete"}
  ReplicaChoices = {0, 2}
  GenerationChoices = {0,2}
  MaxGeneration = 3
  MaxContainers = 3
  MaxRequests = 2
  MaxFaults = 1
  MaxCrashes = 1
INVARIANT TypeOK
INVARIANT NoReplicaFromTheFuture
PROPERTY RolloutKeepsCapacity
PROPERTY LonePassKeepsServiceUp
CHECK_DEADLOCK FALSE
