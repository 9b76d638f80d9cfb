SPECIFICATION Spec
CONSTANTS
  r1 = r1
  r2 = r2
  r3 = r3
  r4 = r4
  alice = alice
  carol = carol
  bob = bob
  t1 = t1
  t2 = t2
  k1 = k1
  k2 = k2
  red = red
  n1 = n1
  n2 = n2
  n3 = n3
  s1 = s1
  s2 = s2
  None = None
  Refused = Refused
  Lost = Lost
  Requests = {r1, r2, r3}
  Asks <- Asking
  Principals = {alice, carol, bob}
  ThreadOf <- Threading
  Grants <- Granting
  Threads = {t1, t2}
  Keys = {k1, k2}
  Connections = {red}
  Names = {n1, n2, n3}
  Ensured <- TwoContexts
  Specs = {s1, s2}
  MaxCrashes = 1
INVARIANT CompareAndSet
INVARIANT FrozenAsConfigured
INVARIANT EnsuresAgree
PROPERTY ImplementsLedger
SYMMETRY Renaming
CHECK_DEADLOCK FALSE
