SPECIFICATION LaunchSpec
CONSTANTS
  None = None
  Garbled = Garbled
  Features <- TwoFeatures
  Specs <- SomeSpecs
  Gates <- AnyGate
  Inherited <- SomeInherited
  Ports = {1, 2, 3}
INVARIANT HalfPanics
CHECK_DEADLOCK FALSE
