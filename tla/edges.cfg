SPECIFICATION Spec
CONSTANTS
  u1 = u1
  u2 = u2
  u3 = u3
  tenant1 = tenant1
  tenant2 = tenant2
  tree = tree
  c1 = c1
  c2 = c2
  m1 = m1
  m2 = m2
  key1 = key1
  key2 = key2
  t1 = t1
  t2 = t2
  t3 = t3
  k1 = k1
  k2 = k2
  Nobody = Nobody
  Publishers = {u1, u2, u3}
  Tenants = {tenant1, tenant2}
  Trees = {tree}
  TenantOf <- TheTenants
  TreeOf <- TheTrees
  MaxOutages = 2
  Contexts = {c1, c2}
  MaxPoint = 1
  None = None
  Refs <- TheRefs
  Secrets = {key1, key2}
  Listings <- TheListings
  Unsupported = {t3}
  MaxTools = 2
  MaxRestarts = 1
INVARIANT PublishedIsReadable
INVARIANT FrozenIsWhole
INVARIANT CalledAsAdmitted
PROPERTY IdleContextsAreAsked
PROPERTY ImplementsRemoteCall
CHECK_DEADLOCK FALSE
