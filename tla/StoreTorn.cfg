SPECIFICATION Spec
CONSTANTS
  image = image
  NoImage = NoImage
  Services = {1, 2}
  Images = {image}
  MaxGeneration = 3
  Handlers = {h1, h2}
  UpsertSpecs <- Posted
  ScaleChoices = {0, 1}
  InitialFiles <- Files
  MaxChanges = 3
  MaxFailures = 0
  MaxCrashes = 2
INVARIANT RestartSucceeds
CHECK_DEADLOCK FALSE
