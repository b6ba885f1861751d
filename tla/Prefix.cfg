SPECIFICATION ControlPlaneFairSpec
CONSTANTS
  loop = loop
  api = api
  image = image
  NoImage = NoImage
  Loop = loop
  Callers = {loop}
  Services <- TwoServices
  Claims <- PrefixNames
  Images = {image}
  InitialSpecs <- OneReplica
  Operations = {}
  ReplicaChoices = {1}
  GenerationChoices = {0}
  MaxGeneration = 9
  MaxContainers = 5
  MaxRequests = 0
  MaxFaults = 0
  MaxCrashes = 0
PROPERTY Convergence
