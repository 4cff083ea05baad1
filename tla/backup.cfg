SPECIFICATION FairSpec
CONSTANTS
  Schedules = {0, 2, 3, 9}
  Invalid = {9}
  Faults = {"backup", "get", "put", "lostReply", "crash"}
  MaxEdits = 1
  MaxFaults = 2
  MaxLag = 2
  MaxTime = 3
CHECK_DEADLOCK FALSE
INVARIANTS
  WakesUpInTime
PROPERTIES
  NotRepeated
  DueIsTaken
