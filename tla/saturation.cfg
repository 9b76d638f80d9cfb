SPECIFICATION FairSpec
CONSTANTS
  w1 = w1
  w2 = w2
  w3 = w3
  c1 = c1
  b1 = b1
  b2 = b2
  None = None
  Works <- TwoWorks
  Contexts = {}
  Backends = {b1}
  Kind <- JobKind
  Tenant <- TwoTenants
  Created <- InOrder
  Target <- NoTarget
  Eligible <- AnyBackend
  Capacity <- OneSlot
  NeedsApproval = {}
  TenantConcurrency = 1
  GlobalConcurrency = 1
  MaxCoordinator = 1
  MaxDeliveries = 0
  Cancellable = {}
  Revocable = {}
  Faulty = {}
PROPERTY DeadlineBoundsQueue
CHECK_DEADLOCK FALSE
