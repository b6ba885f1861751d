SPECIFICATION Spec
CONSTANTS
  loop = loop
  api = api
  Callers = {loop, api}
  Loop = loop
  MaxContainers = 1
  MaxFaults = 0
  MaxCrashes = 0
PROPERTY NoPanic
