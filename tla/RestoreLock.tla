---------------------------- MODULE RestoreLock ----------------------------
(***************************************************************************)
(* What the lease of the restore controller promises: the Restore resources*)
(* of a cluster are processed one at a time, whichever replica of the      *)
(* operator processes them.  RestoreLease is shown to implement this.      *)
(***************************************************************************)
CONSTANT Restores   \* the Restore custom resources of the cluster

VARIABLE busy       \* the restores being processed; at most one

Init == busy = {}

\* A restore begins only when none is being processed.
Start(r) ==
  /\ busy = {}
  /\ busy' = {r}

\* The processing ends: it succeeded, it failed, or its process died.
Stop(r) ==
  /\ r \in busy
  /\ busy' = busy \ {r}

Next == \E r \in Restores : Start(r) \/ Stop(r)

Spec == Init /\ [][Next]_busy
=============================================================================
