---------------------------- MODULE ObjectRestore ----------------------------
(***************************************************************************)
(* How a restore writes what its archive holds: LoadFromTarGzip, then      *)
(* restoreCRDs and, for every other object, restoreResource.  One step is  *)
(* one call to the Kubernetes API.  The order the objects are taken in is  *)
(* any here: DependencyGraph says which.                                   *)
(***************************************************************************)
EXTENDS LiveCluster

CONSTANTS
  Archive,      \* the objects and CRDs in the archive
  NamedFilters, \* those with "filters" in their path
  Exempt,       \* Secrets of Fleet's cluster registrations: never written
  Guarded,      \* Settings whose writing a webhook refuses
  WithStatus,   \* objects that were archived with a status
  CRDOf,        \* CRDOf[o]: the CRD of its kind, Nothing if it is built in
  StatusCRDs,   \* CRDs with a status subresource
  BuiltInStatus, \* objects of built-in kinds with a status subresource
  WithFinalizers, \* objects that were archived with finalizers
  OldVersions,  \* the versions of the CRDs in the archive
  OldStorage,   \* the one of them to store under
  Restorer      \* the restore, as a holder of copies

ASSUME RestoreAssumption ==
  /\ Archive \subseteq Objects \cup CRDs
  /\ \A S \in {Exempt, Guarded, WithStatus, WithFinalizers} : S \subseteq Objects
  /\ CRDOf \in [Objects -> CRDs \cup {Nothing}]
  /\ StatusCRDs \subseteq CRDs
  /\ BuiltInStatus \subseteq {o \in Objects : CRDOf[o] = Nothing}
  /\ NamedFilters \subseteq Archive
  /\ OldVersions \subseteq Versions
  /\ OldStorage \in OldVersions
  /\ Restorer \in Holders

VARIABLES
  pc,           \* the next call
  loaded,       \* resourcesFromBackup: what was read from the archive
  todo,         \* what is still to be restored
  at,           \* the object or CRD at work
  merged,       \* spec.versions of the archived CRD, after the merge
  failed,       \* errors were collected
  doomed,       \* history: what was being deleted when it was restored
  raced         \* history: CRDs others changed between the merge and its Update

restoring == <<loaded, todo, at, merged, doomed, raced>>

RestoreTypeOK ==
  /\ loaded \subseteq Archive
  /\ todo \subseteq Archive
  /\ at \in Objects \cup CRDs \cup {Nothing}
  /\ merged \in [versions : SUBSET Versions, storage : SUBSET Versions]
  /\ failed \in BOOLEAN
  /\ doomed \subseteq Objects
  /\ raced \subseteq CRDs

RestoreInit ==
  /\ pc = "load"
  /\ loaded = {}
  /\ todo = {}
  /\ at = Nothing
  /\ merged = [versions |-> {}, storage |-> {}]
  /\ failed = FALSE
  /\ doomed = {}
  /\ raced = {}

-----------------------------------------------------------------------------
\* LoadFromTarGzip passes over every path with "filters" in it, as if it were
\* the ResourceSet.
Load ==
  /\ pc = "load"
  /\ loaded' = Archive \ NamedFilters
  /\ todo' = loaded' \cap CRDs
  /\ pc' = "crds"
  /\ UNCHANGED <<cluster, at, merged, failed, doomed, raced>>

\* An error of restoreCRDs ends the restore: ignoreErrors is false here.
Abort ==
  /\ pc' = "failed"
  /\ UNCHANGED <<live, crd, copy, touched, late, changes, restoring, failed>>

NextCRD ==
  /\ pc = "crds"
  /\ \E c \in todo : at' = c /\ todo' = todo \ {c}
  /\ pc' = "merge"
  /\ UNCHANGED <<cluster, loaded, merged, failed, doomed, raced>>

\* A bug: live versions keep the storage flag they have.
MergedKeepingFlag(s) ==
  [versions |-> OldVersions \cup s.versions,
   storage |-> {OldStorage} \cup (s.storage \ OldVersions)]

\* A bug: the archived versions are taken as they are.
MergedNot(s) == [versions |-> OldVersions, storage |-> {OldStorage}]

\* mergeVersionsFromLiveCRD: versions of the live CRD s that the archived one
\* lacks are added to it with storage false.  A CRD that does not exist has
\* none.
Merged(s) == [versions |-> OldVersions \cup s.versions, storage |-> {OldStorage}]

Merge ==
  /\ pc = "merge"
  /\ \/ merged' = Merged(crd[at]) /\ pc' = "getcrd" /\ Read(Restorer, at)
        /\ UNCHANGED <<live, crd, touched, late, faulted, changes, loaded, todo,
                       at, failed, doomed, raced>>
     \/ Refused /\ Abort

\* restoreResource gets the CRD again, and takes the resource version it has
\* now.
GetCRD ==
  /\ pc = "getcrd"
  /\ \/ /\ pc' = IF crd[at].there THEN "updatecrd" ELSE "createcrd"
        /\ raced' = IF copy[Restorer] = at THEN raced ELSE raced \cup {at}
        /\ Read(Restorer, at)
        /\ UNCHANGED <<live, crd, touched, late, faulted, changes, loaded, todo,
                       at, merged, failed, doomed>>
     \/ Refused /\ Abort

\* Create or Update: the API server refuses what is there, what is not, an old
\* copy, and versions that do not go with what is stored.
WriteCRD ==
  /\ pc \in {"createcrd", "updatecrd"}
  /\ LET s == [there |-> TRUE, versions |-> merged.versions,
               storage |-> merged.storage,
               stored |-> crd[at].stored \cup merged.storage,
               established |-> crd[at].established]
         taken == /\ Accepted(crd[at], s.versions, s.storage)
                  /\ crd[at].there = (pc = "updatecrd")
                  /\ crd[at].there => copy[Restorer] = at
     IN \/ /\ taken
           /\ StoreCRD(Restorer, at, s)
           /\ \/ pc' = "crds" /\ UNCHANGED faulted
              \/ "lost" \in Faults /\ faulted' = TRUE /\ pc' = "failed"
           /\ UNCHANGED <<live, touched, late, changes, restoring, failed>>
        \/ ~taken /\ Abort /\ UNCHANGED faulted
        \/ Refused /\ Abort

\* All CRDs are written: each is waited for, and then the objects are restored.
WaitCRDs ==
  /\ pc = "crds"
  /\ todo = {}
  /\ \/ /\ \A c \in loaded \cap CRDs : crd[c].established
        /\ pc' = "objects"
        /\ todo' = loaded \ CRDs
        /\ UNCHANGED <<cluster, loaded, at, merged, failed, doomed, raced>>
     \/ Refused /\ Abort

\* A bug: waitCRD has no time-out.
GivesUpNever == FALSE

GivesUp == \E c \in loaded \cap CRDs : ~crd[c].established

\* waitCRD gives up after 60 s, which the API server needs only when it is in
\* trouble.
WaitTimesOut ==
  /\ pc = "crds"
  /\ todo = {}
  /\ GivesUp
  /\ faulted' = TRUE
  /\ Abort

RestoreCRDs == NextCRD \/ Merge \/ GetCRD \/ WriteCRD \/ WaitCRDs \/ WaitTimesOut

-----------------------------------------------------------------------------
\* The error of one object is collected; the next one is taken.
Collect ==
  /\ failed' = TRUE
  /\ pc' = "objects"
  /\ UNCHANGED <<live, crd, copy, touched, late, changes, restoring>>

\* A status subresource needs a call of its own: the API server drops the status
\* of a Create, and keeps the one it has at an Update.
HasSubresource(o) == o \in BuiltInStatus \/ CRDOf[o] \in StatusCRDs

\* What restoreResource writes of o.
FromArchive(o) ==
  [there |-> TRUE,
   content |-> IF o \in WithStatus /\ HasSubresource(o) THEN "spec" ELSE "archived",
   final |-> o \in WithFinalizers, deleting |-> live[o].deleting]

Get(o) ==
  /\ pc = "objects"
  /\ o \in todo
  /\ todo' = todo \ {o}
  /\ at' = o
  /\ IF o \in Exempt
     THEN UNCHANGED <<pc, copy, failed, doomed, faulted>>
     ELSE \/ /\ Read(Restorer, o)
             /\ pc' = IF live[o].there THEN "update" ELSE "create"
             /\ doomed' = IF live[o].deleting THEN doomed \cup {o} ELSE doomed
             /\ UNCHANGED <<failed, faulted>>
          \/ /\ Refused
             /\ failed' = TRUE
             /\ UNCHANGED <<pc, copy, doomed>>
  /\ UNCHANGED <<live, crd, touched, late, changes, loaded, merged, raced>>

\* The API server takes a Create of what is not there and an Update of the
\* newest version.
Taken == /\ live[at].there = (pc = "update")
         /\ live[at].there => copy[Restorer] = at

\* A bug: the status is written of new objects only.
StatusFollowsCreate ==
  /\ pc = "create"
  /\ at \in WithStatus
  /\ CRDOf[at] \in loaded \cap StatusCRDs

\* A status subresource is known of the CRDs that were restored, and of no kind
\* that is built in.
StatusFollows == at \in WithStatus /\ CRDOf[at] \in loaded \cap StatusCRDs

\* Create or Update; what the webhook for Settings refuses counts as restored.
Write ==
  /\ pc \in {"create", "update"}
  /\ \/ /\ at \in Guarded
        /\ pc' = "objects"
        /\ UNCHANGED <<cluster, restoring, failed>>
     \/ /\ at \notin Guarded /\ Taken
        /\ Store(Restorer, at, FromArchive(at))
        /\ \/ pc' = (IF StatusFollows THEN "status" ELSE "objects")
              /\ UNCHANGED <<failed, faulted>>
           \/ "lost" \in Faults /\ faulted' = TRUE
              /\ failed' = TRUE /\ pc' = "objects"
        /\ UNCHANGED <<crd, touched, late, changes, restoring>>
     \/ at \notin Guarded /\ ~Taken /\ Collect /\ UNCHANGED faulted
     \/ Refused /\ Collect

\* UpdateStatus with the resource version of the answer.
WriteStatus ==
  /\ pc = "status"
  /\ \/ /\ live[at].there /\ copy[Restorer] = at
        /\ Store(Restorer, at, [live[at] EXCEPT !.content = "archived"])
        /\ pc' = "objects"
        /\ UNCHANGED <<crd, touched, late, faulted, changes, restoring, failed>>
     \/ ~(live[at].there /\ copy[Restorer] = at) /\ Collect /\ UNCHANGED faulted
     \/ Refused /\ Collect

\* A bug: collected errors are forgotten.
AfterObjectsForgotten == "prune"

\* createFromDependencyGraph returns the errors, which end the restore.
AfterObjects == IF failed THEN "failed" ELSE "prune"

ObjectsDone ==
  /\ pc = "objects"
  /\ todo = {}
  /\ pc' = AfterObjects
  /\ UNCHANGED <<cluster, restoring, failed>>

RestoreObjects ==
  (\E o \in Objects : Get(o)) \/ Write \/ WriteStatus \/ ObjectsDone
=============================================================================
