---------------------------- MODULE LiveCluster ----------------------------
(***************************************************************************)
(* The Kubernetes API as a restore writes to it: objects that others write *)
(* and delete at the same time, resource versions that refuse an Update of *)
(* an old copy, finalizers that keep an object that is being deleted, and  *)
(* CustomResourceDefinitions, whose versions have to include those under   *)
(* which objects are stored.                                               *)
(*                                                                         *)
(* A resource version is represented by who has read it: copy[h] is the    *)
(* object of which h has the newest version.                               *)
(***************************************************************************)
EXTENDS FiniteSets, Naturals

CONSTANTS
  Objects,      \* objects that may exist, but for the CRDs
  CRDs,         \* CustomResourceDefinitions
  Versions,     \* versions of the CRDs
  Holders,      \* who keeps a copy of an object between a Get and an Update
  Faults,       \* which calls may fail, see FaultKinds
  MaxChanges    \* bound on what others do

FaultKinds ==
  {"refused",   \* a call fails and is not applied
   "lost"}      \* a call is applied and its reply is lost

Nothing == "nothing"

ASSUME ClusterAssumption ==
  /\ Objects \cap CRDs = {}
  /\ Nothing \notin Objects \cup CRDs \cup Holders
  /\ IsFiniteSet(Versions)
  /\ Faults \subseteq FaultKinds
  /\ MaxChanges \in Nat

VARIABLES
  live,         \* live[o]: the object
  crd,          \* crd[c]: the CRD
  copy,         \* copy[h]: of what h has read the newest version
  touched,      \* history: what others have changed
  late,         \* history: what others have changed since the last pass began
  faulted,      \* history: a call has failed
  changes       \* changes by others so far

cluster == <<live, crd, copy, touched, late, faulted, changes>>

\* An object's content is its own, or archived but for its status ("spec"), or
\* archived.
Object == [there : BOOLEAN, content : {"own", "spec", "archived"},
           final : BOOLEAN, deleting : BOOLEAN]

Absent == [there |-> FALSE, content |-> "own", final |-> FALSE, deleting |-> FALSE]

\* storage: the versions with storage true; stored: status.storedVersions.
CRD == [there : BOOLEAN, versions : SUBSET Versions, storage : SUBSET Versions,
        stored : SUBSET Versions, established : BOOLEAN]

NoCRD == [there |-> FALSE, versions |-> {}, storage |-> {}, stored |-> {},
          established |-> FALSE]

ClusterTypeOK ==
  /\ live \in [Objects -> Object]
  /\ crd \in [CRDs -> CRD]
  /\ copy \in [Holders -> Objects \cup CRDs \cup {Nothing}]
  /\ touched \subseteq Objects \cup CRDs
  /\ late \subseteq Objects \cup CRDs
  /\ faulted \in BOOLEAN
  /\ changes \in 0..MaxChanges

-----------------------------------------------------------------------------
(* What a call does                                                        *)

\* An object that is being deleted goes with its last finalizer.
Settled(s) == IF s.deleting /\ ~s.final THEN Absent ELSE s

\* o becomes s, and only h has a copy of that.
Store(h, o, s) ==
  /\ live' = [live EXCEPT ![o] = Settled(s)]
  /\ copy' = [g \in Holders |-> IF g = h THEN o
                                ELSE IF copy[g] = o THEN Nothing ELSE copy[g]]

StoreCRD(h, c, s) ==
  /\ crd' = [crd EXCEPT ![c] = s]
  /\ copy' = [g \in Holders |-> IF g = h THEN c
                                ELSE IF copy[g] = c THEN Nothing ELSE copy[g]]

Read(h, o) == copy' = [copy EXCEPT ![h] = o]

\* Delete without preconditions.
Deleted(s) == Settled([s EXCEPT !.deleting = TRUE])

Remove(o) ==
  /\ live' = [live EXCEPT ![o] = Deleted(@)]
  /\ copy' = [g \in Holders |-> IF copy[g] = o THEN Nothing ELSE copy[g]]

\* The API server takes a CRD: one version is the one to store under, and what
\* was stored under stays a version.
Accepted(old, versions, storage) ==
  /\ Cardinality(storage) = 1
  /\ storage \subseteq versions
  /\ old.stored \subseteq versions

\* A call that changes nothing may fail; so may one that was applied.
Refused == "refused" \in Faults /\ faulted' = TRUE

-----------------------------------------------------------------------------
(* What others do                                                          *)

Note(o) ==
  /\ changes < MaxChanges
  /\ changes' = changes + 1
  /\ touched' = touched \cup {o}
  /\ late' = late \cup {o}

\* A user or a controller creates an object or changes it, and its finalizers.
OtherWrites(o) ==
  /\ Note(o)
  /\ \E final \in BOOLEAN :
       Store(Nothing, o, [there |-> TRUE, content |-> "own", final |-> final,
                          deleting |-> live[o].deleting])
  /\ UNCHANGED <<crd, faulted>>

OtherDeletes(o) ==
  /\ live[o].there
  /\ Note(o)
  /\ Remove(o)
  /\ UNCHANGED <<crd, faulted>>

\* A controller is upgraded: a new version of its CRD is the one to store
\* under, and something is stored.
OtherUpgrades(c) ==
  /\ crd[c].there
  /\ Note(c)
  /\ \E v \in Versions \ crd[c].versions, used \in BOOLEAN :
       StoreCRD(Nothing, c,
         [crd[c] EXCEPT !.versions = @ \cup {v},
                        !.storage = IF used THEN {v} ELSE @,
                        !.stored = IF used THEN @ \cup {v} ELSE @])
  /\ UNCHANGED <<live, faulted>>

\* The API server serves a CRD that was created.
Establish(c) ==
  /\ crd[c].there /\ ~crd[c].established
  /\ crd' = [crd EXCEPT ![c].established = TRUE]
  /\ copy' = [g \in Holders |-> IF copy[g] = c THEN Nothing ELSE copy[g]]
  /\ UNCHANGED <<live, touched, late, faulted, changes>>

Others ==
  \/ \E o \in Objects : OtherWrites(o) \/ OtherDeletes(o)
  \/ \E c \in CRDs : OtherUpgrades(c) \/ Establish(c)
=============================================================================
