SPECIFICATION ObservationSpec
CONSTANTS
  loop = loop
  api = api
  image = image
  NoImage = NoImage
  Loop = loop
  Callers = {loop, api}
  Services <- OneService
  Claims <- OwnNames
  Images = {image}
  InitialSpecs <- TwoReplicas
  Operations = {"scale"}
  ReplicaChoices = {1}
  GenerationChoices = {0}
  MaxGeneration = 9
  MaxContainers = 2
  MaxRequests = 1
  MaxFaults = 1
  MaxCrashes = 1
  Retention = 1
  MaxEvents = 2

INVARIANT SteadyIsHealthy
INVARIANT SickIsNoticed
INVARIANT ShortIsNoticed
 
CHECK_DEADLOCK FALSE
