SPECIFICATION FairSpec
CONSTANTS
  w1 = w1
  w2 = w2
  w3 = w3
  c1 = c1
  b1 = b1
  b2 = b2
  None = None
  Works <- TwoWorks
  Contexts = {c1}
  Backends = {b1}
  Kind <- SlotKind
  Tenant <- OneTenant
  Created <- InOrder
  Target <- SlotTarget
  Eligible <- AnyBackend
  Capacity <- OneSlot
  NeedsApproval = {}
  TenantConcurrency = 3
  GlobalConcurrency = 3
  MaxCoordinator = 1
  MaxDeliveries = 0
  Cancellable = {w2}
  Revocable = {}
  Faulty = {}
PROPERTY EveryWorkConcludes
PROPERTY JobsAreReleased
PROPERTY DeadlineBoundsQueue
CHECK_DEADLOCK FALSE
