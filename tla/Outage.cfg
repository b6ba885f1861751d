SPECIFICATION ControlPlaneSpec
CONSTANTS
  loop = loop
  api = api
  image = image
  NoImage = NoImage
  Loop = loop
  Callers = {loop, api}
  Services <- OneService
  Claims <- OwnNames
  Images = {image}
  InitialSpecs <- OneReplica
  Operations = {"scale", "restart"}
  ReplicaChoices = {1}
  GenerationChoices = {0}
  MaxGeneration = 9
  MaxContainers = 4
  MaxRequests = 2
  MaxFaults = 0
  MaxCrashes = 0
PROPERTY RestartKeepsServiceUp
