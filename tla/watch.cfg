SPECIFICATION Spec
CONSTANTS
  i1 = i1
  i2 = i2
  f1 = f1
  k1 = k1
  None = None
  Invocations <- TwoInvocations
  Failures <- OneFailure
  Commands <- OneCommand
  MaxCount = 2
  MaxSamples = 1
INVARIANTS
  ObservationsSound
  IdleWitnessed
PROPERTIES
  MalformedLeavesNothing
  StopsPromptly
  IdleEnds
CHECK_DEADLOCK FALSE
