SPECIFICATION FairSpec
CONSTANTS
  c1 = c1
  c2 = c2
  Controllers = {c1, c2}
  Original <- MCOriginal
  Faults <- AllFaults
  MaxFaults = 3
INVARIANTS
  Quiesced
  ScaledBackWhenIdle
PROPERTIES
  CompletedHonest
  RestoredOnce
  Completes
\* A completed Restore is over.
CHECK_DEADLOCK FALSE
