SPECIFICATION Spec
CONSTANTS
  w1 = w1
  w2 = w2
  w3 = w3
  w4 = w4
  None = None
  NoPoint = NoPoint
  Works <- FourWorks
  Kind <- MixedKind
  JournalFaults = TRUE
  MaxCrashes = 0
INVARIANT SeedIsComplete
CHECK_DEADLOCK FALSE
