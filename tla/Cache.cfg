CONSTANTS
  A = A
  B = B
  c1 = c1
  c2 = c2
  c3 = c3
  None = None
  Replicas = {A, B}
  Clients = {c1, c2, c3}
  HomeOf <- MCHomeOf
  MaxVersion = 2
  NullVersions = {1}
  L1Ttl = 2
  Ttl = 2
  Latency = 1
SPECIFICATION FairCacheSpec
INVARIANTS BoundedStaleness
PROPERTIES EventuallyFresh
