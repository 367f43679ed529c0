SPECIFICATION CounterSpec
CONSTANTS
  None = None
  Requested <- OnePoller
  TimerMax = 8
  StartTimes = {0}
  MaxTime = 4
  MaxCrashes = 1
  MaxBackward = 0
  MaxOpen = 6
  MaxEntries = 18
  Threshold = 10
  Widest = 15
  Amounts = {4, 9}
  Starts = {0}
INVARIANTS
  WaitIsTrue
CHECK_DEADLOCK FALSE
