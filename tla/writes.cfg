SPECIFICATION MCSpec
CONSTANTS
  app = app
  node = node
  setting = setting
  token = token
  stray = stray
  orphan = orphan
  machines = machines
  v1 = v1
  v2 = v2
  r = r
  w1 = w1
  w2 = w2
  Objects = {app, node, setting, token, stray, orphan}
  CRDs = {machines}
  Versions = {v1, v2}
  Holders = {r, w1, w2}
  Faults = {"refused", "lost"}
  MaxChanges = 1
  Archive = {app, node, setting, token, machines}
  NamedFilters = {}
  Exempt = {token}
  Guarded = {setting}
  WithStatus = {app, node}
  BuiltInStatus = {node}
  StatusCRDs = {machines}
  CRDOf <- MCCRDOf
  WithFinalizers = {}
  OldVersions = {v1}
  OldStorage = v1
  Restorer = r
  Selected = {app, stray, orphan}
  Double = {stray}
  Times <- MCTimes
  Workers = {w1, w2}
CHECK_DEADLOCK FALSE
INVARIANTS
  TypeOK
  RestoredWhole
  PrunedUnlessRevived
  FailsForCause
PROPERTIES
  NoVersionLost
  Ends
