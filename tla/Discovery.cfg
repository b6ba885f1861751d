SPECIFICATION Spec
CONSTANTS
  loop = loop
  api = api
  h1 = h1
  Nobody = Nobody
  web = web
  Services = {web}
  web1 = web1
  web2 = web2
  Instances = {web1, web2}
  Ports = {0, 80}
  Owner <- OwnerOf
  Callers = {loop, api}
  Handlers = {h1}
  MaxFaults = 2
SYMMETRY Symmetry
VIEW StateView
INVARIANT GoneIsNotRouted
INVARIANT EveryIndexInTurn
INVARIANT RegistryTypeOK
INVARIANT RegistryInStep
PROPERTY ImplementsDirectory
