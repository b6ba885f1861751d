SPECIFICATION HistorySpec
CONSTANTS
  loop = loop
  api = api
  image = image
  NoImage = NoImage
  Loop = loop
  Callers = {loop, api}
  Services <- OneService
  Claims <- OwnNames
  Images = {image}
  InitialSpecs <- ThreeReplicas
  Operations = {"scale", "delete"}
  ReplicaChoices = {1, 2}
  GenerationChoices = {0}
  MaxGeneration = 9
  MaxContainers = 3
  MaxRequests = 2
  MaxFaults = 1
  MaxCrashes = 0
PROPERTY ScaleDownKeepsReplicas
PROPERTY DeleteStopsWhatItListed
