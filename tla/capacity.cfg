SPECIFICATION Spec
CONSTANTS
  w1 = w1
  w2 = w2
  w3 = w3
  c1 = c1
  b1 = b1
  b2 = b2
  None = None
  Works <- ThreeWorks
  Contexts = {c1}
  Backends = {b1, b2}
  Kind <- MixedKind
  Tenant <- MixedTenants
  Created <- MixedOrder
  Target <- MixedTarget
  Eligible <- MixedBackends
  Capacity <- OneSlot
  NeedsApproval = {}
  TenantConcurrency = 1
  GlobalConcurrency = 2
  MaxCoordinator = 2
  MaxDeliveries = 0
  Cancellable = {}
  Revocable = {w1}
  Faulty = {w1, w2, w3}
INVARIANT WithinCapacity
INVARIANT WithinConcurrency
INVARIANT ExclusiveContext
INVARIANT BusyIsHeld
INVARIANT OutputsOutliveExecution
PROPERTY FairTurns
CHECK_DEADLOCK FALSE
