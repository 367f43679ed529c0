SPECIFICATION Spec
CONSTANTS
  i1 = i1
  i2 = i2
  None = None
  Fixed = Fixed
  Symbols <- SomeSymbols
  Holes <- SomeHoles
  Ids <- TwoIds
  Targets <- TwoTargets
  Tables <- SomeTables
  Programs <- SomePrograms
  Values <- SomeValues
INVARIANTS
  PassIsEarned
  FailureIsReal
SYMMETRY AnyOrder
CHECK_DEADLOCK FALSE
