SPECIFICATION FairSpec
CONSTANTS
  w1 = w1
  w2 = w2
  w3 = w3
  c1 = c1
  b1 = b1
  b2 = b2
  None = None
  Works <- TwoWorks
  Contexts = {}
  Backends = {b1}
  Kind <- PairKind
  Tenant <- OneTenant
  Created <- InOrder
  Target <- NoTarget
  Eligible <- AnyBackend
  Capacity <- OneSlot
  NeedsApproval = {}
  TenantConcurrency = 3
  GlobalConcurrency = 3
  MaxCoordinator = 1
  MaxDeliveries = 0
  Cancellable = {w2}
  Revocable = {}
  Faulty = {}
PROPERTY PassOwnsFinalization
CHECK_DEADLOCK FALSE
