SPECIFICATION FairSpec
CONSTANTS
  loop = loop
  api = api
  Callers = {loop, api}
  Loop = loop
  MaxContainers = 2
  MaxFaults = 1
  MaxCrashes = 1
INVARIANT TypeOK
PROPERTY LateReportsAreDropped
PROPERTY StaleReportsExpire
