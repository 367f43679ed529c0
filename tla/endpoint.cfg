SPECIFICATION Spec
CONSTANTS
  c1 = c1
  c2 = c2
  s1 = s1
  s2 = s2
  s3 = s3
  Serving = Serving
  Connections <- TwoConnections
  Streams <- ThreeStreams
INVARIANTS
  ReportExact
  NothingRunsOn
PROPERTIES
  ShutdownEnds
CHECK_DEADLOCK FALSE
