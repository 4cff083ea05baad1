SPECIFICATION Spec
CONSTANTS
  c1 = c1
  c2 = c2
  k = k
  n1 = n1
  n2 = n2
  x = x
  Cluster <- MCCluster
  Namespaced <- MCNamespaced
  Archives <- DanglingArchives
  Existing = {}
  Faulty = FALSE
CHECK_DEADLOCK FALSE
INVARIANT
  NothingLostSilently
