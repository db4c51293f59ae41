\* Two workers and one namespace, three starts.
SPECIFICATION WatchSpec
CONSTANTS
  w1 = w1
  w2 = w2
  k1 = k1
  k2 = k2
  k3 = k3
  n1 = n1
  None = None
  Workers <- MCWorkers
  Caches <- MCCaches
  Namespaces <- MCNamespaces
  backoffBase = 1
  backoffMax = 3
  MaxTime = 4
SYMMETRY WatchSymmetry
INVARIANTS
  WatchTypeOK
  RunningCachesAreKept
PROPERTIES
  SuccessMeansEstablished
