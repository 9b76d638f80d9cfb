SPECIFICATION Spec
CONSTANTS
  k1 = k1
  k2 = k2
  None = None
  Calls <- TwoCalls
  CallLimit = 2
  InFlightLimit = 1
  Interpreters = {"quickjs", "cloudflare"}
  MaxFaults = 1
INVARIANT IInv
INVARIANT WithinCallLimits
INVARIANT InFlightIsCounted
PROPERTY ImplementsProgram
PROPERTY ProgramConcludes
CHECK_DEADLOCK FALSE
