SPECIFICATION Spec
CONSTANTS
  first = first
  second = second
  p1 = p1
  p2 = p2
  None = None
  Launches <- TwoLaunches
  Pids <- TwoPids
  Old <- LeftBehind
  MaxDirs = 3
  MaxSignals = 1
INVARIANTS
  NoOrphan
  NoStrayKill
  DirectoriesOwned
  EvidenceKept
PROPERTIES
  SignalEnds
  LaunchesSettle
CHECK_DEADLOCK FALSE
