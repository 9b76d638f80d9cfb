SPECIFICATION Spec
CONSTANTS
  w1 = w1
  w2 = w2
  w3 = w3
  c1 = c1
  b1 = b1
  b2 = b2
  None = None
  Works <- TwoWorks
  Contexts = {}
  Backends = {b1}
  Kind <- JobKind
  Tenant <- TwoTenants
  Created <- InOrder
  Target <- NoTarget
  Eligible <- AnyBackend
  Capacity <- OneSlot
  NeedsApproval = {w1}
  TenantConcurrency = 2
  GlobalConcurrency = 1
  MaxCoordinator = 3
  MaxDeliveries = 1
  Cancellable = {w1}
  Revocable = {w1}
  Faulty = {w2}
INVARIANT IInv
INVARIANT AtMostOneExecution
INVARIANT OutboxMirrorsPhase
INVARIANT CancelledHonestly
INVARIANT UnattendedIsUntouched
PROPERTY ReceiptsAreFinal
PROPERTY ImplementsLifecycle
CHECK_DEADLOCK FALSE
