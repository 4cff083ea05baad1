-------------------------- MODULE DependencyGraph --------------------------
(***************************************************************************)
(* The order in which a restore writes the objects of its archive: owners  *)
(* before dependents, because a dependent has to be given the new UIDs of  *)
(* its owners.  The cluster-scoped objects are restored first and the      *)
(* namespaced ones after them.  For each scope                             *)
(*                                                                         *)
(*   generateDependencyGraph   makes the list of the objects that wait for *)
(*       no owner and, for every owner, the list of its dependents         *)
(*   createFromDependencyGraph   takes objects off the list, restores them *)
(*       and adds the dependents that now wait for no owner                *)
(*                                                                         *)
(* An object is its config path (ResourceConfigPath).  owners[o] holds the *)
(* path generateDependencyGraph computes for each reference of o: a path   *)
(* with no object behind it stands for an owner that was not backed up, one*)
(* in another namespace, or a namespaced owner of a cluster-scoped object. *)
(* Two references of an object to one path are one element here, and       *)
(* nobody but the restore writes the cluster.                              *)
(***************************************************************************)
EXTENDS Naturals, FiniteSets, SequencesExt

CONSTANTS
  Cluster,      \* config paths of cluster-scoped objects
  Namespaced,   \* config paths of namespaced objects
  Archives,     \* the archives a behaviour may restore, see IsArchive
  Existing,     \* objects in the cluster before the restore
  Faulty        \* TRUE: a call to the Kubernetes API may fail

Paths == Cluster \cup Namespaced

\* What the loaded archive says of its objects.
IsArchive(a) ==
  /\ a.objects \subseteq Paths
  /\ a.crds \subseteq Cluster \ a.objects
       \* CRDs, restored before everything else
  /\ a.owners \in [Paths -> SUBSET Paths]
  /\ \A o \in Cluster : a.owners[o] \cap a.objects \subseteq Cluster
  /\ a.rancher \subseteq a.objects \cap Namespaced
       \* the Deployments of Rancher and its webhook
  /\ a.unresolved \subseteq a.objects
       \* objects with a reference to a kind the API server does not know
  /\ a.builtin \subseteq a.objects
       \* objects with a reference to a GlobalRole or a RoleTemplate
  /\ a.tolerated \subseteq a.objects
       \* secrets of Fleet that are left out, settings the webhook denies

ASSUME GraphAssumption ==
  /\ IsFiniteSet(Paths)
  /\ Cluster \cap Namespaced = {}
  /\ \A a \in Archives : IsArchive(a)
  /\ Existing \subseteq Paths
  /\ Faulty \in BOOLEAN

VARIABLES
  archive,      \* the archive being restored
  ignoreErrors, \* spec.ignoreErrors of the Restore
  live,         \* the objects that exist in the cluster
  phase,        \* "cluster", "namespaced", "done" or "aborted"
  step,         \* "generate" or "create"
  created,      \* objects reported restored
  waiting,      \* numOwnerReferences: owners an object still waits for
  dependents,   \* ownerToDependentsList: the objects that wait for an owner
  toRestore,    \* the work list
  dropped,      \* objects whose metadata.ownerReferences was deleted
  attempted,    \* objects handed to restoreResource in either phase
  failed        \* the ones it returned an error for

given == <<archive, ignoreErrors>>
graph == <<waiting, dependents>>
vars == <<given, live, phase, step, created, graph, toRestore, dropped,
          attempted, failed>>

TypeOK ==
  /\ IsArchive(archive)
  /\ ignoreErrors \in BOOLEAN
  /\ phase \in {"cluster", "namespaced", "done", "aborted"}
  /\ step \in {"generate", "create"}
  /\ waiting \in [Paths -> Nat]
  /\ dependents \in [Paths -> SUBSET Paths]
  /\ toRestore \in Seq(Paths)
  /\ \A s \in {live, created, dropped, attempted, failed} : s \subseteq Paths

Init ==
  /\ archive \in Archives
  /\ ignoreErrors \in BOOLEAN
  /\ live = Existing \cup archive.crds
  /\ phase = "cluster"
  /\ step = "generate"
  /\ created = archive.crds
  /\ waiting = [o \in Paths |-> 0]
  /\ dependents = [o \in Paths |-> {}]
  /\ toRestore = <<>>
  /\ dropped = {}
  /\ attempted = {}
  /\ failed = {}

-----------------------------------------------------------------------------
(* generateDependencyGraph                                                 *)

\* The objects of a scope that are to be restored.
Scoped(p) ==
  {o \in archive.objects \ archive.rancher :
     o \in IF p = "cluster" THEN Cluster ELSE Namespaced}

\* A bug: it waits for the owners that are there already.
CountedAll(o) == archive.owners[o]

\* The owners an object has to wait for: all but the cluster-scoped ones that
\* are there already.  References to unknown kinds, GlobalRoles and
\* RoleTemplates do not count.
Counted(o) == archive.owners[o] \ (Cluster \cap created)

\* Some reference did not count because of its kind (errCheckingOwnerRefs).
HasBadRef(o) == o \in archive.unresolved \cup archive.builtin

\* A bug: one owner that is there already is enough.
RootsWithOneOwner ==
  {o \in Scoped(phase) : Counted(o) = {} \/ Counted(o) # archive.owners[o]}

\* The objects that wait for no owner: the start of the work list.
Roots == {o \in Scoped(phase) : Counted(o) = {}}

Generate ==
  /\ phase \in {"cluster", "namespaced"}
  /\ step = "generate"
  /\ step' = "create"
  /\ waiting' = [o \in Paths |-> IF o \in Scoped(phase) \ Roots
                                 THEN Cardinality(Counted(o)) ELSE waiting[o]]
  /\ dependents' = [w \in Paths |-> {o \in Scoped(phase) : w \in Counted(o)}]
  /\ toRestore' \in SetToSeqs(Roots)
  /\ dropped' = dropped \cup {o \in Roots : HasBadRef(o)}
  /\ UNCHANGED <<given, live, phase, created, attempted, failed>>

-----------------------------------------------------------------------------
(* createFromDependencyGraph                                               *)

\* What restoring o does before it is written, one element per outcome the
\* order of the references allows: "keep" the references, with new UIDs,
\* "drop" them all because an owner is not found, or fail with an "error"
\* because a reference cannot be resolved.
OwnerRefOutcomes(o) ==
  IF o \in dropped \/ (archive.owners[o] = {} /\ ~HasBadRef(o)) THEN {"keep"}
  ELSE LET found == archive.owners[o] \subseteq live
           unknown == o \in archive.unresolved
       IN  {out \in {"keep", "drop", "error"} :
              \/ out = "keep" /\ found /\ ~unknown
              \/ out = "drop" /\ (~found \/ o \in archive.builtin)
              \/ out = "error" /\ unknown}

\* An owner has been restored: each of its dependents waits for one less...
Decremented(curr) ==
  [o \in Paths |-> IF o \in dependents[curr] /\ waiting[o] > 0
                   THEN waiting[o] - 1 ELSE waiting[o]]

\* A bug: ready one owner early.
IsReadyEarly(n) == n <= 1

\* ... and is ready when there is no other it waits for.
IsReady(n) == n = 0

Released(curr) == {o \in dependents[curr] : IsReady(Decremented(curr)[o])}

\* A bug: the list of dependents is appended as one element.
RestoredNested(curr) ==
  /\ created' = created \cup {curr}
  /\ waiting' = Decremented(curr)
  /\ \E ready \in SetToSeqs(Released(curr)) :
       toRestore' = Append(Tail(toRestore), ready)
  /\ UNCHANGED failed

\* restoreResource returned no error.
Restored(curr) ==
  /\ created' = created \cup {curr}
  /\ waiting' = Decremented(curr)
  /\ \E ready \in SetToSeqs(Released(curr)) :
       toRestore' = Tail(toRestore) \o ready
  /\ UNCHANGED failed

\* A bug: an object that failed is tried again at the end.
NotRestoredRetried(curr) ==
  /\ failed' = failed \cup {curr}
  /\ toRestore' = Append(Tail(toRestore), curr)
  /\ UNCHANGED <<created, waiting>>

\* It returned an error: the dependents of the object stay where they are.
NotRestored(curr) ==
  /\ failed' = failed \cup {curr}
  /\ toRestore' = Tail(toRestore)
  /\ UNCHANGED <<created, waiting>>

\* One turn of the loop.  A tolerated object is reported restored whether or
\* not it is in the cluster.
RestoreNext ==
  /\ step = "create"
  /\ toRestore # <<>>
  /\ LET curr == Head(toRestore) IN
     IF curr \in created
     THEN /\ toRestore' = Tail(toRestore)
          /\ UNCHANGED <<live, created, waiting, dropped, attempted, failed>>
     ELSE /\ attempted' = attempted \cup {curr}
          /\ \/ /\ curr \in archive.tolerated
                /\ Restored(curr)
                /\ UNCHANGED <<live, dropped>>
             \/ /\ curr \notin archive.tolerated
                /\ \E out \in OwnerRefOutcomes(curr) :
                     /\ dropped' = IF out = "drop" THEN dropped \cup {curr}
                                                   ELSE dropped
                     /\ \/ /\ out # "error"
                           /\ live' = live \cup {curr}
                           /\ Restored(curr)
                        \/ /\ out = "error" \/ Faulty
                           /\ NotRestored(curr)
                           /\ UNCHANGED live
  /\ UNCHANGED <<given, phase, step, dependents>>

\* The work list is empty.  An error of the cluster-scoped phase ends the
\* restore, unless errors are ignored.
EndPhase ==
  /\ step = "create"
  /\ toRestore = <<>>
  /\ phase \in {"cluster", "namespaced"}
  /\ phase' = IF failed # {} /\ ~ignoreErrors THEN "aborted"
              ELSE IF phase = "cluster" THEN "namespaced" ELSE "done"
  /\ step' = IF phase' = "namespaced" THEN "generate" ELSE step
  /\ UNCHANGED <<given, live, created, graph, toRestore, dropped, attempted,
                 failed>>

Next == Generate \/ RestoreNext \/ EndPhase

Spec == Init /\ [][Next]_vars

\* The loop runs in one goroutine that nothing blocks.
FairSpec == Spec /\ WF_vars(Next)

-----------------------------------------------------------------------------
(* Properties                                                              *)

\* An object is handed to restoreResource only when all the owners its
\* references resolve to have been restored: before that their new UIDs are
\* not known, and Kubernetes deletes an object with the UID of an owner that
\* does not exist.
OwnersFirst == \A o \in attempted : archive.owners[o] \subseteq created

\* Counting owners puts no object on the work list twice, and none that was
\* already handled: the check of "created" at controller.go:584 never fires.
QueuedOnce ==
  /\ \A i, j \in 1..Len(toRestore) : toRestore[i] = toRestore[j] => i = j
  /\ \A i \in 1..Len(toRestore) : toRestore[i] \notin attempted

\* The phases whose work list has run dry.
Finished(p) ==
  \/ phase = "done"
  \/ p = "cluster" /\ phase = "namespaced"
  \/ p = phase /\ step = "create" /\ toRestore = <<>>

\* When a phase ends, an object that was never tried has an owner that was
\* not restored: no object is lost to a wrong count.
LeftBehindHasCause ==
  \A p \in {"cluster", "namespaced"} :
    Finished(p) =>
      \A o \in Scoped(p) \ attempted : ~(archive.owners[o] \subseteq created)

\* Owners are in the archive, in a scope that can own the object, and in no
\* cycle; kinds are known.
WellFormed ==
  /\ \A o \in archive.objects :
       /\ archive.owners[o] \subseteq
            (archive.objects \ archive.rancher) \cup archive.crds
       /\ o \in Cluster => archive.owners[o] \subseteq Cluster
       /\ archive.owners[o] = {} \/ o \notin archive.unresolved
  /\ \A S \in SUBSET archive.objects \ {{}} :
       \E o \in S : archive.owners[o] \cap S = {}

\* A restore of a well-formed archive that reports no error has restored all
\* of it.
WellFormedRestoredWhole ==
  phase = "done" /\ failed = {} /\ WellFormed =>
    archive.objects \ archive.rancher \subseteq created

\* What controller.go:666 says of any archive: when an owner is not found the
\* object is restored all the same, without its ownerReferences.
NothingLostSilently ==
  phase = "done" /\ failed = {} =>
    archive.objects \ archive.rancher \subseteq created

\* Whatever the references, cyclic ones included, the restore ends.
Ends == <>(phase \in {"done", "aborted"})
=============================================================================
