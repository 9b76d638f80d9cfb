SPECIFICATION PartSpec
CONSTANTS
  w1 = w1
  w2 = w2
  w3 = w3
  w4 = w4
  None = None
  NoPoint = NoPoint
  Works <- FourWorks
  Kind <- MixedKind
  JournalFaults = TRUE
  MaxCrashes = 1
  MaxOperations = 4
  MaxPods = 2
  MaxDelayed = 1
INVARIANT IInv
INVARIANT SealsMatchCursor
INVARIANT CursorsOrderCommands
INVARIANT SealedIsOnRecord
INVARIANT OneWorkloadAtATime
INVARIANT ParkedIsStopped
PROPERTY ImplementsWorkspace
CHECK_DEADLOCK FALSE
