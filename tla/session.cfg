SPECIFICATION SessionSpec
CONSTANTS
  None = None
  Garbled = Garbled
  Features <- TwoFeatures
  Specs <- SomeSpecs
  Gates <- AnyGate
  Inherited <- SomeInherited
  Ports = {1, 2, 3}
  Null = Null
  Refused = Refused
  Ids = {i1, i2}
  Names <- SomeNames
  Plain <- PlainBytes
  Leaky <- LeakyBytes
  Secret <- SecretBytes
  MaxEntries = 5
  Asking <- AtBothUrls
INVARIANTS
  NoEmptyPass
  RunsAsSpecified
  AnswerIsTrue
  RefusalIsReal
CHECK_DEADLOCK FALSE
