SPECIFICATION Spec
CONSTANTS
  k1 = k1
  k2 = k2
  None = None
  Calls <- TwoCalls
  CallLimit = 2
  InFlightLimit = 2
  Interpreters = {"cloudflare"}
  MaxFaults = 0
INVARIANT UnknownCallsAreReconciled
CHECK_DEADLOCK FALSE
