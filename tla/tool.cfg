SPECIFICATION MCSpec
CONSTANTS
  checking = checking
  viewing = viewing
  Runs = {checking, viewing}
  Resources <- MCObjects
  Unlabelled <- MCUnlabelled
  GetOnly <- MCGetOnly
  BuiltIn <- MCBuiltIn
  Regular <- MCRegular
  Sibilant <- MCSibilant
  Requests <- MCRequests
  Charts <- MCCharts
  Faults = {"network", "disk", "close", "regexp"}
CHECK_DEADLOCK FALSE
INVARIANTS
  ToolTypeOK
  MirrorsOperator
  UnreadableForCause
