SPECIFICATION FairSpec
CONSTANTS
  None = None
  Requested <- MCRequested
  TimerMax = 4
  StartTimes = {1, 3}
  MaxTime = 4
  MaxCrashes = 1
  MaxBackward = 1
  MaxOpen = 6
  MaxEntries = 18
INVARIANTS
  ReplayMatches
  ReplayRebuilds
  LimitsHold
PROPERTIES
  ChecksSpaced
  LimitsEnd
  KeepsPromise
CHECK_DEADLOCK FALSE
