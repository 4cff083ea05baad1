-------------------------- MODULE MCRestoreWrites --------------------------
(* An instance of RestoreWrites for TLC: a CRD, an object of its kind,     *)
(* which has a status subresource, and one of a built-in kind that has one,*)
(* a setting that a webhook guards, a Secret that is passed over, and two  *)
(* objects the archive lacks, of which two selectors may select one.       *)
EXTENDS RestoreWrites

CONSTANTS app, node, setting, token, stray, orphan, machines, v1, v2, r, w1, w2

CONSTANT Double

MCCRDOf == [o \in Objects |-> IF o = app THEN machines ELSE Nothing]

MCTimes == [o \in Objects |-> IF o \in Double THEN 2 ELSE 1]

\* What is only passed over, and the node, is there from the start, one stray
\* object has finalizers, an archived one has them only if it is being deleted, and
\* a CRD of both versions stores under the one the archive lacks: one initial state
\* in place of several that differ in nothing a property sees.
MCInit ==
  /\ Init
  /\ \A o \in Objects \cap {node, setting, token} :
       live[o] = [Absent EXCEPT !.there = TRUE]
  /\ \A o \in Objects \cap {orphan} :
       live[o] = [Absent EXCEPT !.there = TRUE, !.final = TRUE]
  /\ live[app].final = live[app].deleting
  /\ Cardinality(crd[machines].versions) = 2 => crd[machines].storage = {v2}

MCSpec == MCInit /\ [][Next]_vars /\ Fairness
=============================================================================
