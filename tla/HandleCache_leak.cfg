\* A handle opened while its database is being deleted.
CONSTANTS
  Databases = {d1, d2}
  Clients = {c1, c2, c3}
  Deleters = {c1}
  Nobody = Nobody
  CacheEntries = 1
  MaxCalls = 1
CHECK_DEADLOCK FALSE
SYMMETRY ClientSymmetry
SPECIFICATION HandlesSpec
INVARIANT DatabaseStaysReachable
