SPECIFICATION MCSpec
CONSTANTS
  main = main
  tests = tests
  client = client
  daily = daily
  weekly = weekly
  m1 = m1
  m2 = m2
  Procs = {main, tests, client}
  Values = {"dev", "no dev"}
  Impatient = {client}
  Embedders = {tests}
  Faults = {"clients", "disk", "read", "port"}
  CRs = {daily, weekly}
  Messages = {m1, m2}
  Attempts = 2
\* A program in which nobody sets the dev mode waits for good.
CHECK_DEADLOCK FALSE
INVARIANTS
  DefaultsAgree
  RowsOfListed
PROPERTIES
  ImplementsRegister
  WaitersReturn
