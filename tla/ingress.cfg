SPECIFICATION IngressSpec
CONSTANTS
  Null = Null
  Panics = Panics
  Characters <- SomeCharacters
  Code <- Codes
  Prefix <- UnderP
  Bases <- PublicBases
  Deployed <- Handlers
  Clients = {c1, c2}
  Requests <- SomeRequests
  Targets <- SomeTargets
SYMMETRY AnyClient
INVARIANTS
  CallsAreSelected
  FaultIsHandlers
CHECK_DEADLOCK FALSE
