--------------------------- MODULE RestoreWrites ---------------------------
(***************************************************************************)
(* One restore from its archive to the end of the pruning: ObjectRestore   *)
(* and then Prune, in a cluster that others go on changing.                *)
(***************************************************************************)
EXTENDS Prune

vars == <<cluster, pc, restoring, failed, pool>>

Ended == pc \in {"done", "failed"}

TypeOK ==
  /\ ClusterTypeOK
  /\ RestoreTypeOK
  /\ PruneTypeOK
  /\ pc \in {"load", "crds", "merge", "getcrd", "createcrd", "updatecrd",
             "objects", "create", "update", "status", "prune", "done", "failed"}

\* A live CRD may have versions the archive does not know, and store objects
\* under some of them; one that exists is served already.  An object that is being
\* deleted has finalizers: one that only has its grace period left counts as gone.
Init ==
  /\ live \in {l \in [Objects -> Object] : \A o \in Objects :
        /\ l[o].content = "own"
        /\ ~l[o].there => l[o] = Absent
        /\ l[o].deleting => l[o].final}
  /\ crd \in [CRDs -> {s \in CRD :
        \/ s = NoCRD
        \/ /\ s.there /\ s.established
           /\ Cardinality(s.storage) = 1
           /\ s.storage \subseteq s.stored /\ s.stored \subseteq s.versions}]
  /\ copy = [h \in Holders |-> Nothing]
  /\ touched = {} /\ late = {}
  /\ faulted = FALSE
  /\ changes = 0
  /\ RestoreInit
  /\ PruneInit

Interfere == ~Ended /\ Others /\ UNCHANGED <<pc, restoring, failed, pool>>

Step ==
  \/ (Load \/ RestoreCRDs \/ RestoreObjects) /\ UNCHANGED pool
  \/ PruneNext

Next == Step \/ Interfere

\* The handler and its workers run on, and a time-out comes; that a call fails,
\* or that the API server ever serves a CRD, is not assumed.
Fairness ==
  /\ WF_vars((Load \/ RestoreCRDs \/ RestoreObjects) /\ UNCHANGED <<faulted, pool>>)
  /\ WF_vars(WaitTimesOut /\ UNCHANGED pool)
  /\ WF_vars(Gather \/ SecondPass \/ Pruned)
  /\ \A w \in Workers : WF_vars(Worker(w))

Spec == Init /\ [][Next]_vars /\ Fairness

-----------------------------------------------------------------------------
(* Properties                                                              *)

\* The status of an object whose kind has a status subresource is written for
\* kinds of CRDs in the archive only (controller.go:601).
StatusOwed(o) == ~HasSubresource(o) \/ CRDOf[o] \in loaded

\* restoreResource writes an object in up to three calls, between which others
\* write it too: when all objects are written without an error, each has what
\* the archive holds of it, its status included but for objects of built-in kinds
\* and of CRDs the archive lacks.  Left out are those others changed, those the
\* code passes over (controller.go:634-646, 706), and those that were being
\* deleted: an Update without their finalizers ends them.
RestoredWhole ==
  pc \in {"prune", "done"} =>
    \A o \in (loaded \cap Objects) \ (Exempt \cup Guarded \cup touched \cup doomed) :
      /\ live[o].there /\ live[o].content # "own"
      /\ StatusOwed(o) => live[o].content = "archived"

\* A version of a CRD that others added, and under which nothing is stored yet,
\* is lost without an error if the archived CRD is written as it is; the merge
\* (crd.go:28) keeps it, unless it came between the merge and its Update.
NoVersionLost ==
  [][\A c \in CRDs : crd[c].versions \subseteq crd'[c].versions \/ c \in raced]_vars

\* Two passes, 25 workers, finalizers, objects that are gone or gathered twice:
\* when pruning ends without an error no victim is left, unless others wrote it
\* during the second pass.
PrunedUnlessRevived ==
  pc = "done" => \A o \in victims \ late : ~live[o].there

\* A restore fails only if a call failed, others changed what it was writing,
\* an object was being deleted, or two workers had the same victim
\* (prune.go:102-105 takes the Update of an object that changed or is gone for
\* an error).  In particular the API server refuses no CRD for its versions or
\* for the flag of the one to store under.
FailsForCause ==
  pc = "failed" =>
    \/ faulted
    \/ touched # {}
    \/ doomed # {}
    \/ \E o \in victims : Times[o] > 1

\* The work lists, the channel of the pool and the wait for the CRDs, whether or
\* not the API server ever serves them, all come to an end.
Ends == <>Ended

\* Every object has what the archive holds of it, its status included.
StatusRestored ==
  pc \in {"prune", "done"} =>
    \A o \in (loaded \cap Objects) \ (Exempt \cup Guarded \cup touched \cup doomed) :
      live[o].content = "archived"

\* docs/contributing-resourcesets.md:372 says of prune that it "deletes objects
\* found in the live cluster that are not present in the backup": what
\* is in the archive, and nobody else deletes, is there when the restore is
\* done.
ArchivedStays ==
  pc = "done" =>
    \A o \in (Archive \cap Objects) \ (Exempt \cup Guarded \cup touched \cup doomed) :
      live[o].there
=============================================================================
