\* Two pods, which may overlap, and two Restores; every call may fail.
SPECIFICATION FairSpec
CONSTANTS
  Pods = {p1, p2}
  Restores = {r1, r2}
  NoLease = NoLease
  Free = Free
  Faults = {"get", "write", "delete", "lostReply"}
  MaxCrashes = 2
INVARIANTS
  HeldIsGivenBack
PROPERTIES
  OnlyHolderReleases
  SomeRestoreRuns
  ImplementsLock
\* A lease that is left behind, or completed Restores, leave nothing to do.
CHECK_DEADLOCK FALSE
