----------------------------- MODULE MCRestoreRun -----------------------------
(* An instance of RestoreRun for TLC: two controllers with different       *)
(* numbers of replicas.                                                    *)
EXTENDS RestoreRun

CONSTANTS c1, c2

MCOriginal == [c \in Controllers |-> IF c = c1 THEN 1 ELSE 2]

AllFaults == FaultKinds
=============================================================================
