SPECIFICATION Spec
CONSTANTS
  i1 = i1
  i2 = i2
  None = None
  Invocations <- TwoInvocations
  Timeouts <- SomeTimeouts
  Interval = 5
  Late = 1
  MaxTime = 12
INVARIANTS
  EndsInTime
  LastLookIsFresh
  PurgeFinal
  DrainedStays
PROPERTIES
  WaitEnds
CHECK_DEADLOCK FALSE
