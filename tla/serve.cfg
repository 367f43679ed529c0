SPECIFICATION Spec
CONSTANTS
  None = None
  Refused = Refused
  k1 = k1
  k2 = k2
  bad = bad
  Delimiters <- Blanks
  Metadata <- SomeMetadata
  ValidKeys <- Keys
  Configs <- SomeConfigs
  Service <- Own
  Invocations = {i1, i2}
  Hours <- SomeHours
  DrainLimit = 2
  MaxStarts = 2
INVARIANTS
  ServesConfigured
  GreetsByFirstReading
PROPERTIES
  DrainsAsAsked
  StopsWhenAsked
CHECK_DEADLOCK FALSE
