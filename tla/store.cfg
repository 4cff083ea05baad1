SPECIFICATION Spec
CONSTANTS
  daily = daily
  myDaily = myDaily
  once = once
  Backups = {daily, myDaily, once}
  Recurring = {daily, myDaily}
  InVolume = {daily}
  Keep <- MCKeep
  Matches <- ExactMatches
  Faults <- AllFaults
  MaxArchives = 4
CHECK_DEADLOCK FALSE
INVARIANTS
  NoMoreThanKept
PROPERTIES
  SomeGoodKept
  PolicyFollowed
