SPECIFICATION ConfigSpec
CONSTANTS
  daily = daily
  weekly = weekly
  old = old
  k1 = k1
  k2 = k2
  broken = broken
  Encrypters = {daily, weekly, old}
  Configs = {k1, k2, broken}
  Invalid = {broken}
  Secret <- MCSecret
  ConfigFaults = {"open", "write", "remove"}
INVARIANTS
  NoKeysLeft
  UndisturbedIsRight
