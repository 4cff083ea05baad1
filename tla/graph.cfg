SPECIFICATION FairSpec
CONSTANTS
  c1 = c1
  c2 = c2
  k = k
  n1 = n1
  n2 = n2
  x = x
  Cluster <- MCCluster
  Namespaced <- MCNamespaced
  Archives <- EveryArchive
  Existing = {n1}
  Faulty = TRUE
CHECK_DEADLOCK FALSE
INVARIANTS
  OwnersFirst
  LeftBehindHasCause
  WellFormedRestoredWhole
PROPERTY
  Ends
