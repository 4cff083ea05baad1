------------------------ MODULE RestoreWrites_proofs ------------------------
(***************************************************************************)
(* Theorems about RestoreWrites, for any archive, any cluster, any number  *)
(* of workers and of selectors, and any changes by others.                 *)
(***************************************************************************)
EXTENDS RestoreWrites, FiniteSetTheorems, TLAPS

-----------------------------------------------------------------------------
(* Types                                                                   *)

CRDCalls == {"merge", "getcrd", "createcrd", "updatecrd"}
ObjectCalls == {"create", "update", "status"}

\* Where the restore and its workers are, and what they are at.
Places ==
  /\ pc \in CRDCalls \cup {"crds"} => todo \subseteq CRDs
  /\ pc \in CRDCalls => at \in CRDs
  /\ pc \in ObjectCalls => at \in Objects
  /\ pass > 0 => pc \in {"prune", "done", "failed"}
  /\ pass = 0 => victims = {}
  /\ victims \cap loaded = {}
  /\ \A w \in Workers : job[w] = Idle \/ (job[w].call # "next" /\ job[w].on \in victims)

TypeInv == TypeOK /\ Places

\* What is stored, and what is left after a deletion, is an object.
LEMMA ObjectTypes ==
  ASSUME NEW s \in Object
  PROVE  /\ Absent \in Object /\ Settled(s) \in Object /\ Deleted(s) \in Object
         /\ \A b \in BOOLEAN : [s EXCEPT !.final = b] \in Object
         /\ [s EXCEPT !.content = "archived"] \in Object
<1>1. /\ Absent \in Object
      /\ \A b \in BOOLEAN : [s EXCEPT !.final = b] \in Object
      /\ [s EXCEPT !.deleting = TRUE] \in Object
      /\ [s EXCEPT !.content = "archived"] \in Object
  BY DEF Object, Absent
<1>2. \A t \in Object : Settled(t) \in Object
  BY <1>1 DEF Settled
<1> QED BY <1>1, <1>2 DEF Deleted

\* Writing an object, and deleting one, keep the types.
LEMMA StoreType ==
  ASSUME ClusterTypeOK, NEW h, NEW o \in Objects \cup CRDs, NEW s \in Object,
         Store(h, o, s)
  PROVE  live' \in [Objects -> Object]
         /\ copy' \in [Holders -> Objects \cup CRDs \cup {Nothing}]
BY ObjectTypes DEF Store, ClusterTypeOK

LEMMA RemoveType ==
  ASSUME ClusterTypeOK, NEW o, Remove(o)
  PROVE  live' \in [Objects -> Object]
         /\ copy' \in [Holders -> Objects \cup CRDs \cup {Nothing}]
<1>1. \A p \in Objects : Deleted(live[p]) \in Object
  BY ObjectTypes DEF ClusterTypeOK
<1> QED BY <1>1 DEF Remove, ClusterTypeOK

LEMMA StoreCRDType ==
  ASSUME ClusterTypeOK, NEW h, NEW c \in CRDs, NEW s \in CRD, StoreCRD(h, c, s)
  PROVE  crd' \in [CRDs -> CRD]
         /\ copy' \in [Holders -> Objects \cup CRDs \cup {Nothing}]
BY DEF StoreCRD, ClusterTypeOK

LEMMA ReadType ==
  ASSUME ClusterTypeOK, NEW h \in Holders, NEW o \in Objects \cup CRDs, Read(h, o)
  PROVE  copy' \in [Holders -> Objects \cup CRDs \cup {Nothing}]
BY DEF Read, ClusterTypeOK

\* Others keep the types of the cluster and change only what they are noted for.
LEMMA OthersStep ==
  ASSUME ClusterAssumption, ClusterTypeOK, Others
  PROVE  /\ ClusterTypeOK'
         /\ touched \subseteq touched' /\ late \subseteq late' /\ faulted' = faulted
         /\ \A o \in Objects : (o \in touched' /\ o \in late') \/ live'[o] = live[o]
<1>1. ASSUME NEW o \in Objects \cup CRDs, Note(o)
      PROVE  /\ changes' \in 0..MaxChanges
             /\ touched' \subseteq Objects \cup CRDs /\ late' \subseteq Objects \cup CRDs
             /\ touched \subseteq touched' /\ late \subseteq late'
             /\ o \in touched' /\ o \in late'
  BY <1>1 DEF Note, ClusterTypeOK, ClusterAssumption
<1>2. ASSUME NEW o \in Objects, OtherWrites(o) PROVE ClusterTypeOK'
  <2>1. PICK final \in BOOLEAN :
          Store(Nothing, o, [there |-> TRUE, content |-> "own", final |-> final,
                             deleting |-> live[o].deleting])
    BY <1>2 DEF OtherWrites
  <2>2. [there |-> TRUE, content |-> "own", final |-> final,
         deleting |-> live[o].deleting] \in Object
    BY DEF ClusterTypeOK, Object
  <2>3. live' \in [Objects -> Object]
        /\ copy' \in [Holders -> Objects \cup CRDs \cup {Nothing}]
    BY <2>1, <2>2, StoreType
  <2> QED BY <1>1, <1>2, <2>3 DEF OtherWrites, ClusterTypeOK
<1>3. ASSUME NEW o \in Objects, OtherDeletes(o) PROVE ClusterTypeOK'
  BY <1>1, <1>3, RemoveType DEF OtherDeletes, ClusterTypeOK
<1>4. ASSUME NEW c \in CRDs, OtherUpgrades(c) PROVE ClusterTypeOK'
  <2>1. PICK v \in Versions, used \in BOOLEAN :
          StoreCRD(Nothing, c,
            [crd[c] EXCEPT !.versions = @ \cup {v},
                           !.storage = IF used THEN {v} ELSE @,
                           !.stored = IF used THEN @ \cup {v} ELSE @])
    BY <1>4 DEF OtherUpgrades
  <2>2. [crd[c] EXCEPT !.versions = @ \cup {v},
                       !.storage = IF used THEN {v} ELSE @,
                       !.stored = IF used THEN @ \cup {v} ELSE @] \in CRD
    <3>1. crd[c] \in CRD
      BY DEF ClusterTypeOK
    <3>2. CASE used
      BY <3>1, <3>2 DEF CRD
    <3>3. CASE ~used
      BY <3>1, <3>3 DEF CRD
    <3> QED BY <3>2, <3>3
  <2>3. crd' \in [CRDs -> CRD]
        /\ copy' \in [Holders -> Objects \cup CRDs \cup {Nothing}]
    BY <2>1, <2>2, StoreCRDType
  <2> QED BY <1>1, <1>4, <2>3 DEF OtherUpgrades, ClusterTypeOK
<1>5. ASSUME NEW c \in CRDs, Establish(c) PROVE ClusterTypeOK'
  BY <1>5 DEF Establish, ClusterTypeOK, CRD
<1>6. ASSUME NEW o \in Objects, OtherWrites(o) \/ OtherDeletes(o)
      PROVE  /\ \A p \in Objects \ {o} : live'[p] = live[p]
             /\ faulted' = faulted
  BY <1>6 DEF OtherWrites, OtherDeletes, Store, Remove, ClusterTypeOK
<1>7. ASSUME NEW c \in CRDs, OtherUpgrades(c) \/ Establish(c)
      PROVE  /\ live' = live /\ faulted' = faulted
             /\ touched \subseteq touched' /\ late \subseteq late'
  BY <1>1, <1>7 DEF OtherUpgrades, Establish
<1> DEFINE Noted ==
      /\ ClusterTypeOK'
      /\ touched \subseteq touched' /\ late \subseteq late' /\ faulted' = faulted
      /\ \A o \in Objects : (o \in touched' /\ o \in late') \/ live'[o] = live[o]
<1>8. ASSUME NEW o \in Objects, OtherWrites(o) \/ OtherDeletes(o) PROVE Noted
  <2>1. Note(o)
    BY <1>8 DEF OtherWrites, OtherDeletes
  <2> QED BY <1>1, <1>2, <1>3, <1>6, <1>8, <2>1
<1>9. ASSUME NEW c \in CRDs, OtherUpgrades(c) \/ Establish(c) PROVE Noted
  BY <1>4, <1>5, <1>7, <1>9
<1> QED BY <1>8, <1>9 DEF Others

LEMMA TypeInit == Init => TypeInv
<1> SUFFICES ASSUME Init PROVE TypeInv
  OBVIOUS
<1>1. ClusterTypeOK
  <2>1. live \in [Objects -> Object] /\ crd \in [CRDs -> CRD]
    BY DEF Init
  <2>2. changes \in 0..MaxChanges
    BY ClusterAssumption DEF Init
  <2> QED BY <2>1, <2>2 DEF Init, ClusterTypeOK
<1>2. RestoreTypeOK
  BY DEF Init, RestoreInit, RestoreTypeOK
<1>3. PruneTypeOK /\ \A w \in Workers : job[w] = Idle
  BY DEF Init, PruneInit, PruneTypeOK, Idle
<1> QED
  BY <1>1, <1>2, <1>3
  DEF Init, RestoreInit, PruneInit, TypeInv, TypeOK, Places, CRDCalls, ObjectCalls

\* The restore leaves the pool alone.
LEMMA PoolType ==
  ASSUME TypeInv, UNCHANGED <<pool, loaded>>, pass = 0 \/ pc' \in {"prune", "done", "failed"}
  PROVE  /\ PruneTypeOK'
         /\ pass' > 0 => pc' \in {"prune", "done", "failed"}
         /\ pass' = 0 => victims' = {}
         /\ victims' \cap loaded' = {}
         /\ \A w \in Workers :
              job'[w] = Idle \/ (job'[w].call # "next" /\ job'[w].on \in victims')
<1>1. pass \in 0..2
  BY DEF TypeInv, TypeOK, PruneTypeOK
<1>2. PruneTypeOK'
  BY DEF TypeInv, TypeOK, PruneTypeOK, pool
<1> QED BY <1>1, <1>2 DEF TypeInv, Places, pool

\* An error ends the restore.
LEMMA AbortType ==
  ASSUME TypeInv, Abort, UNCHANGED pool, faulted' \in BOOLEAN
  PROVE  TypeInv'
<1>1. PruneTypeOK' /\ Places'
  BY PoolType DEF Abort, restoring, Places, CRDCalls, ObjectCalls
<1>2. ClusterTypeOK' /\ RestoreTypeOK'
  BY DEF Abort, restoring, TypeInv, TypeOK, ClusterTypeOK, RestoreTypeOK
<1> QED BY <1>1, <1>2 DEF Abort, TypeInv, TypeOK

\* So does the restore of the CRDs, ...
LEMMA CRDsType ==
  ASSUME TypeInv, Load \/ RestoreCRDs, UNCHANGED pool
  PROVE  TypeInv'
<1>0. /\ pass = 0 /\ Archive \subseteq Objects \cup CRDs
      /\ ClusterTypeOK /\ RestoreTypeOK
  BY RestoreAssumption
  DEF Load, RestoreCRDs, NextCRD, Merge, GetCRD, WriteCRD, WaitCRDs, WaitTimesOut,
      TypeInv, TypeOK, Places, PruneTypeOK
<1>1. CASE Load
  <2>1. PruneTypeOK' /\ Places'
    <3>1. PruneTypeOK' /\ victims' = {} /\ pass' = 0
      BY <1>0, <1>1 DEF TypeInv, TypeOK, Places, PruneTypeOK, pool
    <3> QED
      BY <1>1, <3>1 DEF Load, TypeInv, Places, pool, CRDCalls, ObjectCalls
  <2>2. loaded' \subseteq Archive /\ todo' \subseteq Archive
    BY <1>1 DEF Load
  <2> QED
    BY <1>0, <1>1, <2>1, <2>2
    DEF Load, TypeInv, TypeOK, ClusterTypeOK, RestoreTypeOK, cluster
<1>2. CASE NextCRD
  <2>1. PruneTypeOK' /\ Places'
    BY <1>0, <1>2, PoolType DEF NextCRD, TypeInv, Places, CRDCalls, ObjectCalls
  <2>2. at' \in CRDs /\ todo' \subseteq Archive
    BY <1>0, <1>2 DEF NextCRD, TypeInv, Places, RestoreTypeOK
  <2> QED
    BY <1>0, <1>2, <2>1, <2>2
    DEF NextCRD, TypeInv, TypeOK, ClusterTypeOK, RestoreTypeOK, cluster
<1>3. CASE Merge
  <2>1. at \in CRDs /\ Restorer \in Holders
    BY <1>3, RestoreAssumption DEF Merge, TypeInv, Places, CRDCalls
  <2>2. CASE Refused /\ Abort
    BY <2>2, AbortType DEF Refused
  <2>3. CASE ~(Refused /\ Abort)
    <3>1. PruneTypeOK' /\ Places'
      BY <1>0, <1>3, <2>1, <2>3, PoolType DEF Merge, TypeInv, Places, CRDCalls, ObjectCalls
    <3>2. merged' \in [versions : SUBSET Versions, storage : SUBSET Versions]
      BY <1>0, <1>3, <2>1, <2>3, RestoreAssumption DEF Merge, Merged, ClusterTypeOK, CRD
    <3>3. copy' \in [Holders -> Objects \cup CRDs \cup {Nothing}]
      BY <1>0, <1>3, <2>1, <2>3, ReadType DEF Merge
    <3> QED
      BY <1>0, <1>3, <2>3, <3>1, <3>2, <3>3
      DEF Merge, TypeInv, TypeOK, ClusterTypeOK, RestoreTypeOK
  <2> QED BY <2>2, <2>3
<1>4. CASE GetCRD
  <2>1. at \in CRDs /\ Restorer \in Holders
    BY <1>4, RestoreAssumption DEF GetCRD, TypeInv, Places, CRDCalls
  <2>2. CASE Refused /\ Abort
    BY <2>2, AbortType DEF Refused
  <2>3. CASE ~(Refused /\ Abort)
    <3>1. PruneTypeOK' /\ Places'
      BY <1>0, <1>4, <2>1, <2>3, PoolType DEF GetCRD, TypeInv, Places, CRDCalls, ObjectCalls
    <3>2. raced' \subseteq CRDs
      BY <1>0, <1>4, <2>1, <2>3 DEF GetCRD, RestoreTypeOK
    <3>3. copy' \in [Holders -> Objects \cup CRDs \cup {Nothing}]
      BY <1>0, <1>4, <2>1, <2>3, ReadType DEF GetCRD
    <3> QED
      BY <1>0, <1>4, <2>3, <3>1, <3>2, <3>3
      DEF GetCRD, TypeInv, TypeOK, ClusterTypeOK, RestoreTypeOK
  <2> QED BY <2>2, <2>3
<1>5. CASE WriteCRD
  <2> DEFINE s == [there |-> TRUE, versions |-> merged.versions,
                   storage |-> merged.storage,
                   stored |-> crd[at].stored \cup merged.storage,
                   established |-> crd[at].established]
  <2>1. at \in CRDs /\ s \in CRD
    <3>1. at \in CRDs
      BY <1>5 DEF WriteCRD, TypeInv, Places, CRDCalls
    <3>2. crd[at] \in CRD /\ merged \in [versions : SUBSET Versions, storage : SUBSET Versions]
      BY <1>0, <3>1 DEF ClusterTypeOK, RestoreTypeOK
    <3> QED BY <3>1, <3>2 DEF CRD
  <2>2. CASE Abort /\ faulted' \in BOOLEAN
    BY <2>2, AbortType
  <2>3. CASE /\ StoreCRD(Restorer, at, s)
             /\ pc' \in {"crds", "failed"} /\ faulted' \in BOOLEAN
             /\ UNCHANGED <<live, touched, late, changes, restoring, failed>>
    <3>1. PruneTypeOK' /\ Places'
      BY <1>0, <1>5, <2>3, PoolType
      DEF WriteCRD, restoring, TypeInv, Places, CRDCalls, ObjectCalls
    <3>2. crd' \in [CRDs -> CRD]
          /\ copy' \in [Holders -> Objects \cup CRDs \cup {Nothing}]
      BY <1>0, <2>1, <2>3, StoreCRDType
    <3> QED
      BY <1>0, <2>3, <3>1, <3>2
      DEF restoring, TypeInv, TypeOK, ClusterTypeOK, RestoreTypeOK
  <2> HIDE DEF s
  <2>4. faulted \in BOOLEAN
    BY <1>0 DEF ClusterTypeOK
  <2> QED BY <1>5, <2>2, <2>3, <2>4 DEF WriteCRD, Refused, s
<1>6. CASE WaitCRDs
  <2>2. CASE Refused /\ Abort
    BY <2>2, AbortType DEF Refused
  <2>3. CASE ~(Refused /\ Abort)
    <3>1. PruneTypeOK' /\ Places'
      BY <1>0, <1>6, <2>3, PoolType DEF WaitCRDs, TypeInv, Places, CRDCalls, ObjectCalls
    <3>2. todo' \subseteq Archive
      BY <1>0, <1>6, <2>3 DEF WaitCRDs, RestoreTypeOK
    <3> QED
      BY <1>0, <1>6, <2>3, <3>1, <3>2
      DEF WaitCRDs, TypeInv, TypeOK, ClusterTypeOK, RestoreTypeOK, cluster
  <2> QED BY <2>2, <2>3
<1>7. CASE WaitTimesOut
  BY <1>7, AbortType DEF WaitTimesOut
<1> QED BY <1>1, <1>2, <1>3, <1>4, <1>5, <1>6, <1>7 DEF RestoreCRDs

\* ... of the objects, ...
LEMMA ObjectsType ==
  ASSUME TypeInv, RestoreObjects, UNCHANGED pool
  PROVE  TypeInv'
<1>0. pass = 0 /\ ClusterTypeOK /\ RestoreTypeOK /\ Restorer \in Holders
  BY RestoreAssumption
  DEF RestoreObjects, Get, Write, WriteStatus, ObjectsDone, TypeInv, TypeOK, Places,
      PruneTypeOK
<1>1. ASSUME Collect, faulted' \in BOOLEAN PROVE TypeInv'
  <2>1. PruneTypeOK' /\ Places'
    BY <1>0, <1>1, PoolType DEF Collect, restoring, Places, CRDCalls, ObjectCalls
  <2> QED
    BY <1>0, <1>1, <2>1
    DEF Collect, restoring, TypeInv, TypeOK, ClusterTypeOK, RestoreTypeOK
<1>2. ASSUME NEW o \in Objects, Get(o) PROVE TypeInv'
  <2>1. pc' \in {"objects", "create", "update"} /\ at' = o
    BY <1>2 DEF Get
  <2>2. PruneTypeOK' /\ Places'
    BY <1>0, <1>2, <2>1, PoolType DEF Get, Places, CRDCalls, ObjectCalls
  <2>3. copy' \in [Holders -> Objects \cup CRDs \cup {Nothing}]
    BY <1>0, <1>2, ReadType DEF Get, ClusterTypeOK
  <2>4. faulted' \in BOOLEAN /\ failed' \in BOOLEAN /\ doomed' \subseteq Objects
    BY <1>0, <1>2 DEF Get, Refused, ClusterTypeOK, RestoreTypeOK
  <2> QED
    BY <1>0, <1>2, <2>1, <2>2, <2>3, <2>4
    DEF Get, TypeInv, TypeOK, ClusterTypeOK, RestoreTypeOK
<1>3. ASSUME NEW s \in Object, Store(Restorer, at, s), at \in Objects,
             pc' \in {"objects", "status"}, failed' \in BOOLEAN, faulted' \in BOOLEAN,
             UNCHANGED <<crd, touched, late, changes, restoring>>
      PROVE  TypeInv'
  <2>1. PruneTypeOK' /\ Places'
    BY <1>0, <1>3, PoolType DEF restoring, Places, CRDCalls, ObjectCalls
  <2>2. live' \in [Objects -> Object]
        /\ copy' \in [Holders -> Objects \cup CRDs \cup {Nothing}]
    BY <1>0, <1>3, StoreType
  <2> QED
    BY <1>0, <1>3, <2>1, <2>2
    DEF restoring, TypeInv, TypeOK, ClusterTypeOK, RestoreTypeOK
<1>4. CASE Write
  <2>1. at \in Objects
    BY <1>4 DEF Write, TypeInv, Places, ObjectCalls
  <2>2. FromArchive(at) \in Object
    BY <1>0, <2>1 DEF FromArchive, ClusterTypeOK, Object
  <2>3. faulted \in BOOLEAN /\ failed \in BOOLEAN
    BY <1>0 DEF ClusterTypeOK, RestoreTypeOK
  <2>4. CASE Collect /\ faulted' \in BOOLEAN
    BY <1>1, <2>4
  <2>5. CASE pc' = "objects" /\ UNCHANGED <<cluster, restoring, failed>>
    <3>1. PruneTypeOK' /\ Places'
      BY <1>0, <2>5, PoolType DEF restoring, Places, CRDCalls, ObjectCalls
    <3> QED
      BY <1>0, <2>5, <3>1
      DEF cluster, restoring, TypeInv, TypeOK, ClusterTypeOK, RestoreTypeOK
  <2>6. CASE /\ Store(Restorer, at, FromArchive(at))
             /\ pc' \in {"objects", "status"} /\ failed' \in BOOLEAN /\ faulted' \in BOOLEAN
             /\ UNCHANGED <<crd, touched, late, changes, restoring>>
    BY <1>3, <2>1, <2>2, <2>6
  <2> QED BY <1>4, <2>3, <2>4, <2>5, <2>6 DEF Write, Refused
<1>5. CASE WriteStatus
  <2>1. at \in Objects
    BY <1>5 DEF WriteStatus, TypeInv, Places, ObjectCalls
  <2>2. [live[at] EXCEPT !.content = "archived"] \in Object
    BY <1>0, <2>1, ObjectTypes DEF ClusterTypeOK
  <2>3. faulted \in BOOLEAN /\ failed \in BOOLEAN
    BY <1>0 DEF ClusterTypeOK, RestoreTypeOK
  <2> QED BY <1>1, <1>3, <1>5, <2>1, <2>2, <2>3 DEF WriteStatus, Refused
<1>6. CASE ObjectsDone
  <2>1. pc' \in {"prune", "failed"}
    BY <1>6 DEF ObjectsDone, AfterObjects
  <2>2. PruneTypeOK' /\ Places'
    BY <1>0, <1>6, <2>1, PoolType DEF ObjectsDone, restoring, Places, CRDCalls, ObjectCalls
  <2> QED
    BY <1>0, <1>6, <2>1, <2>2
    DEF ObjectsDone, cluster, restoring, TypeInv, TypeOK, ClusterTypeOK, RestoreTypeOK
<1> QED BY <1>2, <1>4, <1>5, <1>6 DEF RestoreObjects

\* ... and the pruning.
LEMMA PruneType ==
  ASSUME TypeInv, PruneNext
  PROVE  TypeInv'
<1>0. /\ ClusterTypeOK /\ RestoreTypeOK /\ PruneTypeOK /\ pc = "prune"
      /\ Workers \subseteq Holders
  BY PruneAssumption
  DEF PruneNext, Gather, SecondPass, Pruned, Worker, Take, Calls, GetVictim,
      UpdateVictim, DeleteVictim, TypeInv, TypeOK
<1>1. \A S \in SUBSET Objects :
        /\ Queued(S) \in [Objects -> Nat]
        /\ \A o \in Objects : Queued(S)[o] > 0 => o \in S /\ Queued(S)[o] <= Times[o]
  BY PruneAssumption DEF Queued
<1>2. CASE Gather
  <2>1. CASE Refused /\ Abort /\ UNCHANGED pool
    BY <2>1, AbortType DEF Refused
  <2>2. CASE ~(Refused /\ Abort /\ UNCHANGED pool)
    <3>1. victims' \subseteq Objects /\ victims' \cap loaded' = {}
      BY <1>2, <2>2, PruneAssumption DEF Gather, restoring
    <3>2. PruneTypeOK'
      BY <1>0, <1>1, <1>2, <2>2, <3>1 DEF Gather, PruneTypeOK
    <3>3. \A w \in Workers : job[w] = Idle
      BY <1>2 DEF Gather, TypeInv, Places
    <3>4. Places'
      BY <1>0, <1>2, <2>2, <3>1, <3>3 DEF Gather, Places, restoring, CRDCalls, ObjectCalls
    <3> QED
      BY <1>0, <1>2, <2>2, <3>2, <3>4
      DEF Gather, TypeInv, TypeOK, ClusterTypeOK, RestoreTypeOK, cluster, restoring
  <2> QED BY <2>1, <2>2
<1>3. CASE SecondPass
  <2>1. PruneTypeOK'
    BY <1>0, <1>1, <1>3 DEF SecondPass, PruneTypeOK
  <2>2. Places'
    BY <1>0, <1>3 DEF SecondPass, TypeInv, Places, restoring, CRDCalls, ObjectCalls
  <2> QED
    BY <1>0, <1>3, <2>1, <2>2
    DEF SecondPass, TypeInv, TypeOK, ClusterTypeOK, RestoreTypeOK, restoring
<1>4. CASE Pruned
  BY <1>0, <1>4
  DEF Pruned, TypeInv, TypeOK, Places, ClusterTypeOK, RestoreTypeOK, PruneTypeOK,
      cluster, restoring, pool, CRDCalls, ObjectCalls
<1>5. ASSUME NEW w \in Workers, NEW o \in Objects, Take(w, o) PROVE TypeInv'
  <2>1. PruneTypeOK'
    <3>1. queue[o] \in Nat /\ o \in victims /\ queue[o] <= Times[o] /\ Times[o] \in Nat
      BY <1>0, <1>5, PruneAssumption DEF Take, PruneTypeOK
    <3>2. /\ queue' \in [Objects -> Nat]
          /\ \A p \in Objects : queue'[p] > 0 => p \in victims /\ queue'[p] <= Times[p]
      BY <1>0, <1>5, <3>1 DEF Take, PruneTypeOK
    <3>3. job' \in [Workers -> [call : {"next", "get", "update", "delete"},
                                on : Objects \cup {Nothing}]]
      BY <1>0, <1>5 DEF Take, FirstCall, PruneTypeOK
    <3> QED BY <1>0, <1>5, <3>2, <3>3 DEF Take, PruneTypeOK
  <2>2. Places'
    BY <1>0, <1>5
    DEF Take, FirstCall, TypeInv, Places, PruneTypeOK, restoring, CRDCalls, ObjectCalls
  <2> QED
    BY <1>0, <1>5, <2>1, <2>2
    DEF Take, TypeInv, TypeOK, ClusterTypeOK, RestoreTypeOK, cluster, restoring
<1>6. ASSUME NEW w \in Workers, job[w].call # "next",
             \/ Done(w)
             \/ Goes(w, "update") \/ Goes(w, "delete"),
             live' \in [Objects -> Object],
             copy' \in [Holders -> Objects \cup CRDs \cup {Nothing}],
             failed' \in BOOLEAN, faulted' \in BOOLEAN,
             UNCHANGED <<crd, touched, late, changes, pc, restoring, victims, queue, pass>>
      PROVE  TypeInv'
  <2>1. job[w].on \in victims
    BY <1>6 DEF TypeInv, Places, Idle
  <2>2. PruneTypeOK'
    BY <1>0, <1>6 DEF Done, Goes, Idle, PruneTypeOK
  <2>3. Places'
    BY <1>0, <1>6, <2>1
    DEF Done, Goes, TypeInv, Places, PruneTypeOK, restoring, CRDCalls, ObjectCalls
  <2> QED
    BY <1>0, <1>6, <2>2, <2>3
    DEF TypeInv, TypeOK, ClusterTypeOK, RestoreTypeOK, restoring
<1>7. faulted \in BOOLEAN /\ failed \in BOOLEAN /\ live \in [Objects -> Object]
      /\ copy \in [Holders -> Objects \cup CRDs \cup {Nothing}]
  BY <1>0 DEF ClusterTypeOK, RestoreTypeOK
<1>8. ASSUME NEW w \in Workers, job[w].call # "next" PROVE job[w].on \in Objects
  BY <1>0, <1>8 DEF TypeInv, Places, PruneTypeOK, Idle
<1>9. ASSUME NEW w \in Workers, GetVictim(w) PROVE TypeInv'
  <2>1. job[w].call # "next" /\ job[w].on \in Objects
    BY <1>8, <1>9 DEF GetVictim, Calls
  <2>2. copy' \in [Holders -> Objects \cup CRDs \cup {Nothing}]
    BY <1>0, <1>7, <1>9, <2>1, ReadType DEF GetVictim
  <2> QED BY <1>6, <1>7, <1>9, <2>1, <2>2 DEF GetVictim, Errs, Refused
<1>10. ASSUME NEW w \in Workers, UpdateVictim(w) PROVE TypeInv'
  <2>1. job[w].call # "next" /\ job[w].on \in Objects
    BY <1>8, <1>10 DEF UpdateVictim, Calls
  <2>2. [live[job[w].on] EXCEPT !.final = FALSE] \in Object
    BY <1>7, <2>1, ObjectTypes
  <2>3. live' \in [Objects -> Object]
        /\ copy' \in [Holders -> Objects \cup CRDs \cup {Nothing}]
    BY <1>0, <1>7, <1>10, <2>1, <2>2, StoreType DEF UpdateVictim
  <2> QED BY <1>6, <1>7, <1>10, <2>1, <2>3 DEF UpdateVictim, Errs, Refused
<1>11. ASSUME NEW w \in Workers, DeleteVictim(w) PROVE TypeInv'
  <2>1. job[w].call # "next" /\ job[w].on \in Objects
    BY <1>8, <1>11 DEF DeleteVictim, Calls
  <2>2. live' \in [Objects -> Object]
        /\ copy' \in [Holders -> Objects \cup CRDs \cup {Nothing}]
    BY <1>0, <1>7, <1>11, RemoveType DEF DeleteVictim
  <2> QED BY <1>6, <1>7, <1>11, <2>1, <2>2 DEF DeleteVictim, Errs, Refused
<1> QED
  BY <1>2, <1>3, <1>4, <1>5, <1>9, <1>10, <1>11 DEF PruneNext, Worker

LEMMA TypeStep == TypeInv /\ [Next]_vars => TypeInv'
<1> SUFFICES ASSUME TypeInv, [Next]_vars PROVE TypeInv'
  OBVIOUS
<1>1. CASE Interfere
  BY <1>1, OthersStep, ClusterAssumption
  DEF Interfere, restoring, pool, TypeInv, TypeOK, Places, RestoreTypeOK, PruneTypeOK
<1>2. CASE UNCHANGED vars
  BY <1>2
  DEF vars, cluster, restoring, pool, TypeInv, TypeOK, Places, ClusterTypeOK,
      RestoreTypeOK, PruneTypeOK
<1> QED
  BY <1>1, <1>2, CRDsType, ObjectsType, PruneType DEF Next, Step

\* All variables keep their types.
THEOREM TypeCorrect == Spec => []TypeOK
<1>1. TypeInv => TypeOK
  BY DEF TypeInv
<1> QED BY <1>1, TypeInit, TypeStep, PTL DEF Spec

-----------------------------------------------------------------------------
(* No version of a CRD is lost                                             *)

\* A CRD that is not there has no versions, and what the restore's current copy
\* of a CRD says is in what it merged.
MergeInv ==
  /\ \A c \in CRDs : ~crd[c].there => crd[c].versions = {}
  /\ pc \in {"getcrd", "createcrd", "updatecrd"} /\ at \notin raced /\ copy[Restorer] = at =>
       crd[at].versions \subseteq merged.versions

\* Others take no version from a CRD, and what they change nobody has a current
\* copy of.
LEMMA OthersCRDs ==
  ASSUME ClusterAssumption, ClusterTypeOK, Others
  PROVE  /\ \A c \in CRDs : /\ crd[c].versions \subseteq crd'[c].versions
                            /\ crd'[c] = crd[c] \/ (crd[c].there /\ crd'[c].there)
         /\ \A h \in Holders, c \in CRDs :
              copy'[h] = c => copy[h] = c /\ crd'[c] = crd[c]
<1> DEFINE Kept == /\ \A c \in CRDs : /\ crd[c].versions \subseteq crd'[c].versions
                                      /\ crd'[c] = crd[c] \/ (crd[c].there /\ crd'[c].there)
                   /\ \A h \in Holders, c \in CRDs :
                        copy'[h] = c => copy[h] = c /\ crd'[c] = crd[c]
<1>1. ASSUME NEW o \in Objects, OtherWrites(o) \/ OtherDeletes(o) PROVE Kept
  BY <1>1, ClusterAssumption DEF OtherWrites, OtherDeletes, Store, Remove, ClusterTypeOK
<1>2. ASSUME NEW c \in CRDs, OtherUpgrades(c) PROVE Kept
  <2>1. PICK v \in Versions, used \in BOOLEAN :
          StoreCRD(Nothing, c,
            [crd[c] EXCEPT !.versions = @ \cup {v},
                           !.storage = IF used THEN {v} ELSE @,
                           !.stored = IF used THEN @ \cup {v} ELSE @])
    BY <1>2 DEF OtherUpgrades
  <2>2. crd[c] \in CRD /\ crd[c].there
    BY <1>2 DEF OtherUpgrades, ClusterTypeOK
  <2>3. /\ crd'[c].versions = crd[c].versions \cup {v} /\ crd'[c].there = crd[c].there
        /\ \A d \in CRDs \ {c} : crd'[d] = crd[d]
    BY <2>1, <2>2 DEF StoreCRD, ClusterTypeOK, CRD
  <2>4. \A h \in Holders : copy'[h] = IF copy[h] = c THEN Nothing ELSE copy[h]
    BY <2>1, ClusterAssumption DEF StoreCRD
  <2> QED BY <2>2, <2>3, <2>4, ClusterAssumption
<1>3. ASSUME NEW c \in CRDs, Establish(c) PROVE Kept
  <2>1. crd[c] \in CRD
    BY DEF ClusterTypeOK
  <2>2. /\ crd'[c].versions = crd[c].versions /\ crd'[c].there = crd[c].there /\ crd[c].there
        /\ \A d \in CRDs \ {c} : crd'[d] = crd[d]
    BY <1>3, <2>1 DEF Establish, ClusterTypeOK, CRD
  <2>3. \A h \in Holders : copy'[h] = IF copy[h] = c THEN Nothing ELSE copy[h]
    BY <1>3 DEF Establish
  <2> QED BY <2>2, <2>3, ClusterAssumption
<1> QED BY <1>1, <1>2, <1>3 DEF Others

LEMMA MergeInit == Init => MergeInv
BY DEF Init, RestoreInit, NoCRD, MergeInv

\* Of the restore's own steps only WriteCRD changes a CRD.
LEMMA MergeStep ==
  ASSUME TypeInv, MergeInv, [Next]_vars
  PROVE  /\ MergeInv'
         /\ \A c \in CRDs : crd[c].versions \subseteq crd'[c].versions \/ c \in raced
<1> DEFINE Late == pc' \in {"getcrd", "createcrd", "updatecrd"}
           Kept == MergeInv' /\ \A c \in CRDs : \/ crd[c].versions \subseteq crd'[c].versions
                                              \/ c \in raced
<1>0. ClusterTypeOK /\ Restorer \in Holders
  BY RestoreAssumption DEF TypeInv, TypeOK
<1>1. ASSUME crd' = crd, ~Late PROVE Kept
  BY <1>1 DEF MergeInv
<1>2. CASE Merge
  <2>1. CASE Refused /\ Abort
    BY <1>1, <2>1 DEF Abort
  <2>2. CASE ~(Refused /\ Abort)
    BY <1>2, <2>2 DEF Merge, Merged, MergeInv
  <2> QED BY <2>1, <2>2
<1>3. CASE GetCRD
  <2>1. CASE Refused /\ Abort
    BY <1>1, <2>1 DEF Abort
  <2>2. CASE ~(Refused /\ Abort)
    <3>1. /\ raced' = IF copy[Restorer] = at THEN raced ELSE raced \cup {at}
          /\ UNCHANGED <<crd, at, merged>>
          /\ pc = "getcrd"
      BY <1>3, <2>2 DEF GetCRD
    <3> QED BY <3>1 DEF MergeInv
  <2> QED BY <2>1, <2>2
<1>4. CASE WriteCRD
  <2> DEFINE s == [there |-> TRUE, versions |-> merged.versions,
                   storage |-> merged.storage,
                   stored |-> crd[at].stored \cup merged.storage,
                   established |-> crd[at].established]
  <2>1. at \in CRDs
    BY <1>4 DEF WriteCRD, TypeInv, Places, CRDCalls
  <2>2. CASE Abort
    BY <1>1, <2>2 DEF Abort
  <2>3. CASE /\ crd[at].there => copy[Restorer] = at
             /\ StoreCRD(Restorer, at, s)
             /\ pc' \in {"crds", "failed"}
    <3>1. crd' = [crd EXCEPT ![at] = s]
      BY <2>3 DEF StoreCRD
    <3>2. crd'[at].there /\ crd'[at].versions = merged.versions
          /\ \A c \in CRDs \ {at} : crd'[c] = crd[c]
      BY <1>0, <2>1, <3>1 DEF ClusterTypeOK
    <3>3. crd[at].versions \subseteq merged.versions \/ at \in raced
      BY <1>4, <2>1, <2>3 DEF WriteCRD, MergeInv
    <3> QED BY <2>1, <2>3, <3>2, <3>3 DEF MergeInv
  <2> HIDE DEF s
  <2> QED BY <1>4, <2>2, <2>3 DEF WriteCRD, s
<1>5. CASE Load \/ NextCRD \/ WaitCRDs \/ WaitTimesOut \/ RestoreObjects
  BY <1>1, <1>5
  DEF Load, NextCRD, WaitCRDs, WaitTimesOut, Abort, RestoreObjects, Get, Write,
      WriteStatus, ObjectsDone, AfterObjects, Collect, cluster
<1>6. CASE PruneNext
  BY <1>1, <1>6
  DEF PruneNext, Gather, Abort, SecondPass, Pruned, Worker, Take, GetVictim,
      UpdateVictim, DeleteVictim, Calls, cluster
<1>7. CASE Interfere
  <2>1. UNCHANGED <<pc, at, raced, merged>> /\ Others
    BY <1>7 DEF Interfere, restoring
  <2>2. pc \in {"getcrd", "createcrd", "updatecrd"} => at \in CRDs
    BY DEF TypeInv, Places, CRDCalls
  <2>3. /\ \A c \in CRDs : /\ crd[c].versions \subseteq crd'[c].versions
                           /\ crd'[c] = crd[c] \/ (crd[c].there /\ crd'[c].there)
        /\ \A h \in Holders, c \in CRDs :
             copy'[h] = c => copy[h] = c /\ crd'[c] = crd[c]
    BY <1>0, <2>1, OthersCRDs, ClusterAssumption
  <2>4. \A c \in CRDs : ~crd'[c].there => crd'[c].versions = {}
    BY <2>3 DEF MergeInv
  <2>5. Late /\ at' \notin raced' /\ copy'[Restorer] = at' =>
          crd'[at'].versions \subseteq merged'.versions
    BY <1>0, <2>1, <2>2, <2>3 DEF MergeInv
  <2>6. MergeInv'
    BY <2>4, <2>5 DEF MergeInv
  <2>7. \A c \in CRDs : crd[c].versions \subseteq crd'[c].versions
    BY <2>3
  <2> QED BY <2>6, <2>7
<1>8. CASE UNCHANGED vars
  BY <1>8 DEF vars, cluster, restoring, MergeInv
<1> QED
  BY <1>2, <1>3, <1>4, <1>5, <1>6, <1>7, <1>8 DEF Next, Step, RestoreCRDs

\* No version of a CRD is lost, but to a change by others between the merge and
\* the Update.
THEOREM VersionsKept == Spec => NoVersionLost
<1>1. TypeInv /\ MergeInv /\ [Next]_vars =>
        [\A c \in CRDs : crd[c].versions \subseteq crd'[c].versions \/ c \in raced]_vars
  BY MergeStep
<1>2. TypeInv /\ MergeInv /\ [Next]_vars => MergeInv'
  BY MergeStep
<1> QED BY <1>1, <1>2, TypeInit, TypeStep, MergeInit, PTL DEF Spec, NoVersionLost

-----------------------------------------------------------------------------
(* What is written is whole                                                *)

\* The objects a restore that succeeds has to leave as they were archived.
Owed == (loaded \cap Objects) \ (Exempt \cup Guarded \cup touched \cup doomed)

Whole(o) ==
  /\ live[o].there /\ live[o].content # "own"
  /\ StatusOwed(o) => live[o].content = "archived"

\* An object that is owed is still to be restored, or at work, or whole.
WholeInv ==
  /\ pc \in ObjectCalls /\ at \in Owed => ~live[at].deleting
  /\ pc = "status" /\ at \in Owed => live[at].there
  /\ pc \in ObjectCalls \cup {"objects"} /\ ~failed =>
       \A o \in Owed : o \in todo \/ (o = at /\ pc # "objects") \/ Whole(o)
  /\ pc \in {"prune", "done"} => \A o \in Owed : Whole(o)

\* Objects that stay as they are stay whole.
LEMMA StaysWhole ==
  ASSUME WholeInv, Owed' \subseteq Owed, \A o \in Owed' : live'[o] = live[o],
         pc' = pc \/ pc' = "failed" \/ (pc = "prune" /\ pc' = "done"),
         UNCHANGED <<at, todo, loaded>>, failed' = failed \/ pc = "prune"
  PROVE  WholeInv'
BY DEF WholeInv, Whole, StatusOwed, ObjectCalls

LEMMA WholeInit == Init => WholeInv
BY DEF Init, RestoreInit, WholeInv, ObjectCalls

\* The CRDs come first: all objects are still to be restored.
LEMMA WholeCRDs ==
  ASSUME TypeInv, WholeInv, Load \/ RestoreCRDs
  PROVE  WholeInv'
<1>1. CASE pc' \notin ObjectCalls \cup {"objects", "prune", "done"}
  BY <1>1 DEF WholeInv, ObjectCalls
<1>2. CASE pc' \in ObjectCalls \cup {"objects", "prune", "done"}
  <2>1. pc' = "objects" /\ todo' = loaded \ CRDs /\ loaded' = loaded
    BY <1>2
    DEF Load, RestoreCRDs, NextCRD, Merge, GetCRD, WriteCRD, WaitCRDs, WaitTimesOut,
        Abort, ObjectCalls
  <2>2. Owed' \subseteq todo'
    BY <2>1, ClusterAssumption DEF Owed
  <2> QED BY <2>1, <2>2 DEF WholeInv, ObjectCalls
<1> QED BY <1>1, <1>2

\* Writing an object, in up to three calls, makes it whole or is an error.
LEMMA WholeObjects ==
  ASSUME TypeInv, WholeInv, RestoreObjects
  PROVE  WholeInv'
<1>0. ClusterTypeOK /\ (pc \in ObjectCalls => at \in Objects)
  BY DEF TypeInv, TypeOK, Places
<1>1. CASE Collect /\ pc \in ObjectCalls
  BY <1>1 DEF Collect, restoring, WholeInv, ObjectCalls
<1>2. ASSUME NEW o \in Objects, Get(o) PROVE WholeInv'
  <2>1. /\ pc = "objects" /\ at' = o /\ todo' = todo \ {o}
        /\ pc' \in {"objects", "create", "update"}
        /\ UNCHANGED <<live, touched, loaded>>
        /\ doomed \subseteq doomed' /\ (failed' \/ failed' = failed)
    BY <1>2 DEF Get
  <2>2. Owed' \subseteq Owed
    BY <2>1 DEF Owed
  <2>3. pc' # "objects" /\ o \in Owed' => ~live[o].deleting
    BY <1>2 DEF Get, Owed
  <2>4. pc' = "objects" /\ ~failed' => o \notin Owed'
    BY <1>2 DEF Get, Owed
  <2>5. ~failed' => \A p \in Owed' : p \in todo' \/ p = o \/ Whole(p)'
    BY <2>1, <2>2 DEF WholeInv, Whole, StatusOwed
  <2> QED BY <2>1, <2>3, <2>4, <2>5 DEF WholeInv, ObjectCalls
<1>3. ASSUME NEW s \in Object, Store(Restorer, at, s), pc \in ObjectCalls,
             at \in Owed => s.there /\ ~s.deleting,
             UNCHANGED <<touched, restoring>>,
             \/ pc' = "status" /\ failed' = failed
             \/ /\ pc' = "objects" /\ failed' = failed
                /\ s.content # "own"
                /\ StatusOwed(at) => s.content = "archived"
             \/ pc' = "objects" /\ failed'
      PROVE  WholeInv'
  <2>1. /\ Owed' = Owed
        /\ \A o \in Objects : live'[o] = IF o = at THEN Settled(s) ELSE live[o]
    BY <1>0, <1>3 DEF Owed, restoring, Store, ClusterTypeOK
  <2>2. at \in Owed => live'[at] = s
    BY <1>0, <1>3, <2>1 DEF Settled
  <2>3. \A o \in Owed \ {at} : Whole(o) => Whole(o)'
    BY <1>3, <2>1 DEF Whole, StatusOwed, Owed, restoring
  <2>4. pc' = "objects" /\ ~failed' /\ at \in Owed => Whole(at)'
    BY <1>3, <2>2 DEF Whole, StatusOwed, restoring
  <2>5. ~failed' => \A o \in Owed : o \in todo \/ o = at \/ Whole(o)
    BY <1>3 DEF WholeInv
  <2>6. ASSUME ~failed', NEW o \in Owed
        PROVE  o \in todo \/ (o = at /\ pc' # "objects") \/ Whole(o)'
    <3>1. CASE o = at
      BY <1>3, <2>4, <2>6, <3>1 DEF restoring
    <3>2. CASE o # at
      BY <2>3, <2>5, <2>6, <3>2
    <3> QED BY <3>1, <3>2
  <2> QED BY <1>3, <2>1, <2>2, <2>6 DEF WholeInv, restoring, ObjectCalls
<1>4. CASE Write
  <2>1. at \in Objects /\ pc \in ObjectCalls
    BY <1>0, <1>4 DEF Write, ObjectCalls
  <2>2. FromArchive(at) \in Object
    BY <1>0, <2>1 DEF FromArchive, ClusterTypeOK, Object
  <2>3. at \in Owed => FromArchive(at).there /\ ~FromArchive(at).deleting
    BY <2>1 DEF FromArchive, WholeInv
  <2>4. ~StatusFollows =>
          /\ FromArchive(at).content # "own"
          /\ StatusOwed(at) => FromArchive(at).content = "archived"
    <3>1. Nothing \notin loaded /\ StatusCRDs \subseteq CRDs
      BY ClusterAssumption, RestoreAssumption DEF TypeInv, TypeOK, RestoreTypeOK
    <3> QED
      BY <2>1, <3>1, RestoreAssumption
      DEF StatusFollows, StatusOwed, HasSubresource, FromArchive
  <2>5. CASE /\ at \in Guarded
             /\ pc' = "objects"
             /\ UNCHANGED <<cluster, restoring, failed>>
    <3>1. Owed' = Owed /\ at \notin Owed /\ \A o \in Owed : Whole(o)' = Whole(o)
      BY <2>5 DEF Owed, Whole, StatusOwed, cluster, restoring
    <3> QED BY <2>1, <2>5, <3>1 DEF WholeInv, ObjectCalls, restoring
  <2>6. CASE /\ Store(Restorer, at, FromArchive(at))
             /\ \/ pc' = (IF StatusFollows THEN "status" ELSE "objects") /\ failed' = failed
                \/ failed' /\ pc' = "objects"
             /\ UNCHANGED <<touched, restoring>>
    BY <1>3, <2>1, <2>2, <2>3, <2>4, <2>6
  <2> QED BY <1>1, <1>4, <2>1, <2>5, <2>6 DEF Write
<1>5. CASE WriteStatus
  <2>1. at \in Objects /\ pc \in ObjectCalls
    BY <1>0, <1>5 DEF WriteStatus, ObjectCalls
  <2>2. live[at] \in Object
    BY <1>0, <2>1 DEF ClusterTypeOK
  <2> DEFINE s == [live[at] EXCEPT !.content = "archived"]
  <2>3. s \in Object /\ s.content = "archived" /\ (at \in Owed => s.there /\ ~s.deleting)
    BY <1>5, <2>1, <2>2 DEF WriteStatus, WholeInv, Object
  <2>4. CASE /\ Store(Restorer, at, s) /\ pc' = "objects"
             /\ UNCHANGED <<touched, restoring, failed>>
    <3> HIDE DEF s
    <3> QED BY <1>3, <2>1, <2>3, <2>4
  <2> QED BY <1>1, <1>5, <2>1, <2>4 DEF WriteStatus
<1>6. CASE ObjectsDone
  <2>1. Owed' = Owed /\ \A o \in Owed : Whole(o)' = Whole(o)
    BY <1>6 DEF ObjectsDone, Owed, Whole, StatusOwed, cluster, restoring
  <2> QED BY <1>6, <2>1 DEF ObjectsDone, AfterObjects, WholeInv, ObjectCalls
<1> QED BY <1>2, <1>4, <1>5, <1>6 DEF RestoreObjects

\* The workers change victims only, which were not in the archive.
LEMMA WholePrune ==
  ASSUME TypeInv, WholeInv, PruneNext
  PROVE  WholeInv'
<1>1. ClusterTypeOK /\ victims \cap loaded = {}
      /\ \A w \in Workers : job[w].call # "next" => job[w].on \in victims
  BY DEF TypeInv, TypeOK, Places, Idle
<1>2. UNCHANGED <<touched, restoring>> /\ pc = "prune"
  BY DEF PruneNext, Gather, Abort, SecondPass, Pruned, Worker, Take, Calls, GetVictim,
         UpdateVictim, DeleteVictim, cluster
<1>3. Owed' = Owed
  BY <1>2 DEF Owed, restoring
<1>4. pc' \in {"prune", "done", "failed"}
  BY DEF PruneNext, Gather, Abort, SecondPass, Pruned, Worker, Take, GetVictim,
         UpdateVictim, DeleteVictim, Calls
<1>5. \A o \in loaded \cap Objects : live'[o] = live[o]
  <2>1. CASE UNCHANGED live
    BY <2>1
  <2>2. ASSUME NEW w \in Workers, UpdateVictim(w) \/ DeleteVictim(w)
        PROVE  \A o \in Objects : o = job[w].on \/ live'[o] = live[o]
    BY <1>1, <2>2 DEF UpdateVictim, DeleteVictim, Store, Remove, ClusterTypeOK
  <2>3. ASSUME NEW w \in Workers, UpdateVictim(w) \/ DeleteVictim(w)
        PROVE  job[w].on \notin loaded
    BY <1>1, <2>3 DEF UpdateVictim, DeleteVictim, Calls
  <2> QED
    BY <2>1, <2>2, <2>3
    DEF PruneNext, Gather, Abort, SecondPass, Pruned, Worker, Take, GetVictim, cluster
<1> QED BY <1>2, <1>3, <1>4, <1>5, StaysWhole DEF Owed, restoring

LEMMA WholeStep == TypeInv /\ WholeInv /\ [Next]_vars => WholeInv'
<1> SUFFICES ASSUME TypeInv, WholeInv, [Next]_vars PROVE WholeInv'
  OBVIOUS
<1>1. CASE Interfere
  <2>1. /\ touched \subseteq touched'
        /\ \A o \in Objects : (o \in touched' /\ o \in late') \/ live'[o] = live[o]
    BY <1>1, OthersStep, ClusterAssumption DEF Interfere, TypeInv, TypeOK
  <2>2. Owed' \subseteq Owed /\ \A o \in Owed' : live'[o] = live[o]
    BY <1>1, <2>1 DEF Interfere, restoring, Owed
  <2> QED BY <1>1, <2>2, StaysWhole DEF Interfere, restoring
<1>2. CASE UNCHANGED vars
  <2>1. Owed' = Owed
    BY <1>2 DEF vars, cluster, restoring, Owed
  <2> QED BY <1>2, <2>1, StaysWhole DEF vars, cluster, restoring
<1> QED
  BY <1>1, <1>2, WholeCRDs, WholeObjects, WholePrune DEF Next, Step

\* When all objects are written without an error, each has what the archive
\* holds of it, and the pruning leaves it so.
THEOREM WrittenWhole == Spec => []RestoredWhole
<1>1. WholeInv => RestoredWhole
  BY DEF WholeInv, RestoredWhole, Owed, Whole
<1> QED BY <1>1, TypeInit, TypeStep, WholeInit, WholeStep, PTL DEF Spec

-----------------------------------------------------------------------------
(* What is pruned is gone                                                  *)

\* Worker w will delete o, whose finalizers are removed when it calls Delete.
WorksOn(w, o) ==
  /\ job[w].on = o
  /\ job[w].call \in {"get", "update", "delete"}
  /\ job[w].call = "delete" => ~live[o].final

\* o is still to be deleted in the second pass, or gone.
Covered(o) == queue[o] > 0 \/ ~live[o].there \/ \E w \in Workers : WorksOn(w, o)

PruneInv ==
  /\ victims \subseteq Selected
  /\ pc = "done" => /\ pass = 2 /\ ~failed
                    /\ \A w \in Workers : job[w] = Idle
                    /\ \A o \in Objects : queue[o] = 0
  /\ pass = 2 /\ ~failed /\ pc \in {"prune", "done"} =>
       \A o \in victims \ late : Covered(o)

LEMMA PrunedInit == Init => PruneInv
BY DEF Init, RestoreInit, PruneInit, PruneInv

\* A worker's call leaves what it is not about as it is.
LEMMA WorkerStep ==
  ASSUME TypeInv, PruneInv, pass = 2, ~failed', NEW w \in Workers, Worker(w),
         NEW o \in victims \ late
  PROVE  Covered(o)'
<1>0. /\ ClusterTypeOK /\ RestoreTypeOK /\ PruneTypeOK /\ pc = "prune"
      /\ o \in Objects /\ live[o] \in Object
      /\ (job[w].call # "next" => job[w].on \in Objects)
  BY DEF Worker, Take, Calls, GetVictim, UpdateVictim, DeleteVictim,
         TypeInv, TypeOK, Places, ClusterTypeOK, PruneTypeOK, Idle
<1>1. ~failed
  BY <1>0 DEF Worker, Take, GetVictim, UpdateVictim, DeleteVictim, Errs
<1>2. Covered(o)
  BY <1>0, <1>1 DEF PruneInv
<1>3. ASSUME NEW p \in Objects, Take(w, p) PROVE Covered(o)'
  <2>1. job'[w] = [call |-> "get", on |-> p] /\ live' = live
    BY <1>0, <1>3 DEF Take, FirstCall, cluster, PruneTypeOK
  <2>2. CASE o = p
    BY <2>1, <2>2 DEF Covered, WorksOn
  <2>3. CASE o # p
    <3>1. queue'[o] = queue[o] /\ \A v \in Workers \ {w} : job'[v] = job[v]
      BY <1>0, <1>3, <2>3 DEF Take, PruneTypeOK
    <3>2. ~WorksOn(w, o)
      BY <1>3 DEF Take, WorksOn, Idle
    <3> QED BY <1>2, <2>1, <3>1, <3>2 DEF Covered, WorksOn
  <2> QED BY <2>2, <2>3
<1>4. CASE GetVictim(w)
  <2>1. CASE live[job[w].on].there /\ Goes(w, "update")
    <3>1. /\ job'[w].on = job[w].on /\ job'[w].call = "update"
          /\ \A v \in Workers \ {w} : job'[v] = job[v]
          /\ UNCHANGED <<live, queue>>
      BY <1>0, <1>4, <2>1 DEF GetVictim, Goes, PruneTypeOK
    <3>2. WorksOn(w, o) => WorksOn(w, o)'
      BY <3>1 DEF WorksOn
    <3> QED BY <1>2, <3>1, <3>2 DEF Covered, WorksOn
  <2>2. CASE ~live[job[w].on].there /\ Done(w)
    <3>1. /\ \A v \in Workers \ {w} : job'[v] = job[v]
          /\ UNCHANGED <<live, queue>>
      BY <1>0, <1>4, <2>2 DEF GetVictim, Done, PruneTypeOK
    <3>2. WorksOn(w, o) => ~live[o].there
      BY <2>2 DEF WorksOn
    <3> QED BY <1>2, <3>1, <3>2 DEF Covered, WorksOn
  <2> QED BY <1>4, <2>1, <2>2 DEF GetVictim, Errs
<1>5. CASE UpdateVictim(w)
  <2> DEFINE p == job[w].on
  <2>1. /\ Store(w, p, [live[p] EXCEPT !.final = FALSE]) /\ Goes(w, "delete")
        /\ queue' = queue /\ p \in Objects /\ live[p] \in Object
    BY <1>0, <1>5 DEF UpdateVictim, Calls, Errs, ClusterTypeOK
  <2>2. /\ job'[w].on = p /\ job'[w].call = "delete"
        /\ \A v \in Workers \ {w} : job'[v] = job[v]
    BY <1>0, <2>1 DEF Goes, PruneTypeOK
  <2>3. ~live'[p].final /\ \A q \in Objects \ {p} : live'[q] = live[q]
    <3>1. live' = [live EXCEPT ![p] = Settled([live[p] EXCEPT !.final = FALSE])]
      BY <2>1 DEF Store
    <3>2. ~Settled([live[p] EXCEPT !.final = FALSE]).final
      BY <2>1 DEF Settled, Absent, Object
    <3> QED BY <1>0, <2>1, <3>1, <3>2 DEF ClusterTypeOK
  <2>4. CASE o = p
    <3>1. WorksOn(w, o)'
      BY <2>2, <2>3, <2>4 DEF WorksOn
    <3> QED BY <3>1 DEF Covered
  <2>5. CASE o # p
    <3>1. live'[o] = live[o] /\ ~WorksOn(w, o)
      BY <1>0, <2>3, <2>5 DEF WorksOn
    <3> QED BY <1>2, <2>1, <2>2, <3>1 DEF Covered, WorksOn
  <2> QED BY <2>4, <2>5
<1>6. CASE DeleteVictim(w)
  <2> DEFINE p == job[w].on
  <2>1. /\ IF live[p].there THEN Remove(p) ELSE UNCHANGED <<live, copy>>
        /\ Done(w)
        /\ queue' = queue /\ p \in Objects /\ live[p] \in Object
        /\ job[w].call = "delete"
    BY <1>0, <1>6 DEF DeleteVictim, Calls, Errs, ClusterTypeOK
  <2>2. \A v \in Workers \ {w} : job'[v] = job[v]
    BY <1>0, <2>1 DEF Done, PruneTypeOK
  <2>3. \A q \in Objects \ {p} : live'[q] = live[q]
    BY <1>0, <2>1 DEF Remove, ClusterTypeOK
  <2>4. CASE o # p
    <3>1. live'[o] = live[o] /\ ~WorksOn(w, o)
      BY <1>0, <2>3, <2>4 DEF WorksOn
    <3> QED BY <1>2, <2>1, <2>2, <3>1 DEF Covered, WorksOn
  <2>5. CASE o = p /\ ~live[o].there
    BY <2>1, <2>5 DEF Covered
  <2>6. CASE o = p /\ live[o].there
    <3>1. live'[o] = Deleted(live[o])
      BY <1>0, <2>1, <2>6 DEF Remove, ClusterTypeOK
    <3>2. CASE ~live[o].final
      <4>1. ~live'[o].there
        BY <1>0, <3>1, <3>2 DEF Deleted, Settled, Absent, Object
      <4> QED BY <4>1 DEF Covered
    <3>3. CASE live[o].final
      <4>1. PICK v \in Workers : WorksOn(v, o) \/ queue[o] > 0
        BY <1>2, <2>6 DEF Covered
      <4>2. WorksOn(v, o) => v # w /\ job[v].call # "delete"
        BY <2>1, <3>3 DEF WorksOn
      <4> QED BY <2>1, <2>2, <4>1, <4>2 DEF Covered, WorksOn
    <3> QED BY <3>2, <3>3
  <2> QED BY <2>4, <2>5, <2>6
<1> QED BY <1>3, <1>4, <1>5, <1>6 DEF Worker

LEMMA PruneStep == TypeInv /\ PruneInv /\ [Next]_vars => PruneInv'
<1> SUFFICES ASSUME TypeInv, PruneInv, [Next]_vars PROVE PruneInv'
  OBVIOUS
<1>1. CASE Load \/ RestoreCRDs \/ RestoreObjects
  <2>1. pc \notin {"prune", "done", "failed"} /\ pc' # "done"
    BY <1>1
    DEF Load, RestoreCRDs, NextCRD, Merge, GetCRD, WriteCRD, WaitCRDs, WaitTimesOut,
        Abort, RestoreObjects, Get, Write, WriteStatus, ObjectsDone, AfterObjects, Collect
  <2>2. CASE UNCHANGED pool
    <3>1. pass = 0
      BY <2>1 DEF TypeInv, TypeOK, Places, PruneTypeOK
    <3> QED BY <2>1, <2>2, <3>1 DEF PruneInv, pool
  <2>3. CASE PruneNext
    BY <2>1, <2>3
    DEF PruneNext, Gather, SecondPass, Pruned, Worker, Take, Calls, GetVictim,
        UpdateVictim, DeleteVictim
  <2>4. CASE Interfere \/ UNCHANGED vars
    <3>1. UNCHANGED <<pc, pool>>
      BY <2>4 DEF Interfere, vars
    <3> QED BY <2>2, <3>1
  <2> QED BY <2>2, <2>3, <2>4 DEF Next, Step
<1>2. CASE Gather
  BY <1>2, PruneAssumption DEF Gather, Abort, pool, PruneInv
<1>3. CASE SecondPass
  <2>1. \A o \in victims : queue'[o] > 0
    BY <1>3, PruneAssumption DEF SecondPass, Queued, PruneInv
  <2> QED BY <1>3, <2>1 DEF SecondPass, PruneInv, Covered
<1>4. CASE Pruned
  <2>1. UNCHANGED <<live, late, pool, failed>>
    BY <1>4 DEF Pruned, cluster
  <2>2. \A o \in victims \ late : Covered(o) => Covered(o)'
    BY <2>1 DEF Covered, WorksOn, pool
  <2>3. /\ pass = 2 /\ pc = "prune" /\ pc' = IF failed THEN "failed" ELSE "done"
        /\ \A w \in Workers : job[w] = Idle
        /\ \A o \in Objects : queue[o] = 0
    BY <1>4 DEF Pruned, PassOver
  <2> QED BY <2>1, <2>2, <2>3 DEF PruneInv, pool
<1>5. ASSUME NEW w \in Workers, Worker(w) PROVE PruneInv'
  <2>1. pc' = "prune" /\ UNCHANGED <<late, victims, pass>>
    BY <1>5 DEF Worker, Take, Calls, GetVictim, UpdateVictim, DeleteVictim, cluster
  <2>2. pass = 2 /\ ~failed' => \A o \in victims \ late : Covered(o)'
    BY <1>5, WorkerStep
  <2> QED BY <2>1, <2>2 DEF PruneInv
<1>6. CASE Interfere
  <2>1. /\ late \subseteq late' /\ UNCHANGED <<pc, failed, pool>> /\ pc # "done"
        /\ \A o \in Objects : o \in late' \/ live'[o] = live[o]
    BY <1>6, OthersStep, ClusterAssumption DEF Interfere, Ended, TypeInv, TypeOK
  <2>2. \A o \in victims \ late' : Covered(o) => Covered(o)'
    BY <2>1 DEF TypeInv, TypeOK, PruneTypeOK, Covered, WorksOn, pool
  <2> QED BY <2>1, <2>2 DEF PruneInv, pool
<1>7. CASE UNCHANGED vars
  <2>1. \A o : Covered(o)' = Covered(o)
    BY <1>7 DEF vars, cluster, pool, Covered, WorksOn
  <2> QED BY <1>7, <2>1 DEF vars, cluster, pool, PruneInv
<1> QED
  BY <1>1, <1>2, <1>3, <1>4, <1>5, <1>6, <1>7 DEF Next, Step, PruneNext

\* When pruning ends without an error no victim is left, unless others wrote it
\* during the second pass.
THEOREM PrunedIsGone == Spec => []PrunedUnlessRevived
<1>1. TypeInv /\ PruneInv => PrunedUnlessRevived
  BY DEF TypeInv, TypeOK, PruneTypeOK, PruneInv, PrunedUnlessRevived, Covered, WorksOn,
         Idle
<1> QED BY <1>1, TypeInit, TypeStep, PrunedInit, PruneStep, PTL DEF Spec

-----------------------------------------------------------------------------
(* A restore fails for a cause                                             *)

\* No call has failed, nobody has interfered, nothing was being deleted, and no
\* victim was gathered twice.
Calm == ~faulted /\ touched = {} /\ doomed = {} /\ \A o \in victims : Times[o] <= 1

\* What the API server asks of the CRD that is written next.
CalmCRDs ==
  /\ \A c \in CRDs : crd[c].stored \subseteq crd[c].versions
  /\ \A c \in CRDs : ~crd[c].there => crd[c].versions = {}
  /\ pc = "load" => \A c \in CRDs : crd[c].there => crd[c].established
  /\ pc \in CRDCalls => at \notin todo /\ (crd[at].there => crd[at].established)
  /\ pc \in CRDCalls \cup {"crds"} =>
       \A c \in todo : crd[c].there => crd[c].established
  /\ pc \in {"getcrd", "createcrd", "updatecrd"} =>
       /\ merged.storage = {OldStorage} /\ OldVersions \subseteq merged.versions
       /\ crd[at].versions \subseteq merged.versions
  /\ pc = "updatecrd" => crd[at].there /\ copy[Restorer] = at
  /\ pc = "createcrd" => ~crd[at].there

\* ... and of the object.
CalmObjects ==
  /\ pc \in ObjectCalls => copy[Restorer] = at /\ ~live[at].deleting
  /\ pc \in {"update", "status"} => live[at].there
  /\ pc = "create" => ~live[at].there

\* A victim is with one worker, which has a current copy when it writes it.
CalmPrune ==
  \A w \in Workers : job[w] # Idle =>
    /\ queue[job[w].on] = 0
    /\ \A v \in Workers : job[v].on = job[w].on => v = w
    /\ job[w].call = "update" => live[job[w].on].there /\ copy[w] = job[w].on

CalmInv == Calm => pc # "failed" /\ ~failed /\ CalmCRDs /\ CalmObjects /\ CalmPrune

LEMMA CalmInit == Init => CalmInv
<1> SUFFICES ASSUME Init PROVE CalmInv
  OBVIOUS
<1>1. /\ pc = "load" /\ failed = FALSE /\ \A w \in Workers : job[w] = Idle
  BY DEF Init, RestoreInit, PruneInit
<1>2. \A c \in CRDs : \/ crd[c] = NoCRD
                      \/ /\ crd[c].there /\ crd[c].established
                         /\ crd[c].stored \subseteq crd[c].versions
  BY DEF Init
<1>3. ~NoCRD.there /\ NoCRD.versions = {} /\ NoCRD.stored = {}
  BY DEF NoCRD
<1>4. CalmCRDs
  BY <1>1, <1>2, <1>3 DEF CalmCRDs, CRDCalls
<1> QED BY <1>1, <1>4 DEF CalmInv, CalmObjects, CalmPrune, ObjectCalls

\* What disturbs the calm is remembered, so that a calm step comes from a calm
\* state and nothing fails in it.
LEMMA CalmBefore ==
  ASSUME TypeInv, CalmInv, [Next]_vars, Calm'
  PROVE  /\ Calm /\ ~failed /\ CalmCRDs /\ CalmObjects /\ CalmPrune
         /\ ~Refused /\ faulted' # TRUE
<1>1. faulted' # TRUE /\ ~Refused
  BY DEF Calm, Refused
<1>2. CASE Interfere
  BY <1>1, <1>2, OthersStep, ClusterAssumption
  DEF Interfere, restoring, pool, TypeInv, TypeOK, Calm, CalmInv
<1>3. CASE UNCHANGED vars
  BY <1>1, <1>3 DEF vars, cluster, restoring, pool, Calm, CalmInv
<1>4. CASE Step
  <2>1. /\ touched' = touched
        /\ doomed \subseteq doomed'
        /\ faulted' = faulted \/ faulted' = TRUE
        /\ victims' = victims \/ pass = 0
    BY <1>4
    DEF Step, Load, RestoreCRDs, NextCRD, Merge, GetCRD, WriteCRD, WaitCRDs,
        WaitTimesOut, Abort, RestoreObjects, Get, Write, WriteStatus, ObjectsDone,
        Collect, PruneNext, Gather, SecondPass, Pruned, Worker, Take, GetVictim,
        UpdateVictim, DeleteVictim, Errs, Refused, cluster, restoring, pool
  <2>2. Calm
    BY <1>1, <2>1 DEF Calm, TypeInv, Places
  <2> QED BY <1>1, <2>2 DEF CalmInv
<1> QED BY <1>2, <1>3, <1>4 DEF Next

\* The API server takes the CRD that mergeVersionsFromLiveCRD made.
LEMMA CalmAccepted ==
  ASSUME TypeInv, CalmCRDs, pc \in {"createcrd", "updatecrd"}
  PROVE  /\ Accepted(crd[at], merged.versions, merged.storage)
         /\ crd[at].there = (pc = "updatecrd")
         /\ crd[at].there => copy[Restorer] = at
<1>1. at \in CRDs /\ crd[at] \in CRD
  BY DEF TypeInv, TypeOK, Places, ClusterTypeOK, CRDCalls
<1>2. Cardinality({OldStorage}) = 1
  BY FS_Singleton
<1>3. Accepted(crd[at], merged.versions, merged.storage)
  BY <1>1, <1>2, RestoreAssumption DEF CalmCRDs, Accepted
<1>4. crd[at].there = (pc = "updatecrd")
  BY <1>1 DEF CalmCRDs, CRD
<1>5. crd[at].there => copy[Restorer] = at
  BY <1>1 DEF CalmCRDs, CRD
<1> QED BY <1>3, <1>4, <1>5

CalmOn == pc # "failed" /\ ~failed /\ CalmCRDs /\ CalmObjects /\ CalmPrune

\* Before the pruning all workers are idle.
LEMMA CalmIdle ==
  ASSUME TypeInv, pc \notin {"prune", "done", "failed"}
  PROVE  \A w \in Workers : job[w] = Idle
BY DEF TypeInv, TypeOK, PruneTypeOK, Places

LEMMA CalmCRDsStep ==
  ASSUME TypeInv, CalmInv, Load \/ RestoreCRDs, UNCHANGED pool, [Next]_vars, Calm'
  PROVE  CalmOn'
<1>0. /\ Calm /\ ~failed /\ CalmCRDs /\ CalmObjects /\ CalmPrune
      /\ ~Refused /\ faulted' # TRUE
  BY CalmBefore
<1>1. ClusterTypeOK /\ RestoreTypeOK /\ Restorer \in Holders
      /\ (pc \in CRDCalls => at \in CRDs)
      /\ (pc \in CRDCalls \cup {"crds"} => todo \subseteq CRDs)
  BY RestoreAssumption DEF TypeInv, TypeOK, Places
<1>2. CalmPrune'
  <2>1. pc \notin {"prune", "done", "failed"}
    BY DEF Load, RestoreCRDs, NextCRD, Merge, GetCRD, WriteCRD, WaitCRDs, WaitTimesOut
  <2> QED BY <2>1, CalmIdle DEF CalmPrune, pool
<1>3. CASE Load
  BY <1>0, <1>2, <1>3
  DEF Load, cluster, CalmOn, CalmCRDs, CalmObjects, CRDCalls, ObjectCalls
<1>4. CASE NextCRD
  BY <1>0, <1>1, <1>2, <1>4
  DEF NextCRD, cluster, CalmOn, CalmCRDs, CalmObjects, CRDCalls, ObjectCalls
<1>5. CASE Merge
  <2>1. /\ pc = "merge" /\ pc' = "getcrd" /\ merged' = Merged(crd[at])
        /\ UNCHANGED <<live, crd, at, todo, failed>>
    BY <1>0, <1>5 DEF Merge
  <2> QED
    BY <1>0, <1>1, <1>2, <2>1
    DEF Merged, CalmOn, CalmCRDs, CalmObjects, CRDCalls, ObjectCalls
<1>6. CASE GetCRD
  <2>1. /\ pc = "getcrd" /\ pc' = IF crd[at].there THEN "updatecrd" ELSE "createcrd"
        /\ copy' = [copy EXCEPT ![Restorer] = at]
        /\ UNCHANGED <<live, crd, at, todo, merged, failed>>
    BY <1>0, <1>6 DEF GetCRD, Read
  <2>2. copy'[Restorer] = at
    BY <1>1, <2>1 DEF ClusterTypeOK
  <2> QED
    BY <1>0, <1>1, <1>2, <2>1, <2>2
    DEF CalmOn, CalmCRDs, CalmObjects, CRDCalls, ObjectCalls
<1>7. CASE WriteCRD
  <2> DEFINE s == [there |-> TRUE, versions |-> merged.versions,
                   storage |-> merged.storage,
                   stored |-> crd[at].stored \cup merged.storage,
                   established |-> crd[at].established]
  <2>1. /\ StoreCRD(Restorer, at, s) /\ pc' = "crds"
        /\ UNCHANGED <<live, at, todo, failed>>
    BY <1>0, <1>7, CalmAccepted DEF WriteCRD, restoring
  <2>2. pc \in CRDCalls /\ at \in CRDs /\ pc \in {"createcrd", "updatecrd"}
    BY <1>1, <1>7 DEF WriteCRD, CRDCalls
  <2>3. crd'[at] = s /\ \A c \in CRDs \ {at} : crd'[c] = crd[c]
    BY <1>1, <2>1, <2>2 DEF StoreCRD, ClusterTypeOK
  <2>4. crd'[at].stored \subseteq crd'[at].versions /\ crd'[at].there
    BY <1>0, <2>2, <2>3, RestoreAssumption DEF CalmCRDs
  <2>5. \A c \in todo : c \in CRDs \ {at}
    BY <1>0, <1>1, <2>2 DEF CalmCRDs
  <2> QED
    BY <1>0, <1>2, <2>1, <2>2, <2>3, <2>4, <2>5
    DEF CalmOn, CalmCRDs, CalmObjects, CRDCalls, ObjectCalls
<1>8. CASE WaitCRDs
  BY <1>0, <1>2, <1>8
  DEF WaitCRDs, cluster, CalmOn, CalmCRDs, CalmObjects, CRDCalls, ObjectCalls
<1>9. CASE WaitTimesOut
  BY <1>0, <1>9 DEF WaitTimesOut
<1> QED BY <1>3, <1>4, <1>5, <1>6, <1>7, <1>8, <1>9 DEF RestoreCRDs

LEMMA CalmObjectsStep ==
  ASSUME TypeInv, CalmInv, RestoreObjects, UNCHANGED pool, [Next]_vars, Calm'
  PROVE  CalmOn'
<1>0. /\ Calm /\ ~failed /\ CalmCRDs /\ CalmObjects /\ CalmPrune
      /\ ~Refused /\ faulted' # TRUE
  BY CalmBefore
<1>1. ClusterTypeOK /\ RestoreTypeOK /\ Restorer \in Holders
      /\ (pc \in ObjectCalls => at \in Objects)
  BY RestoreAssumption DEF TypeInv, TypeOK, Places
<1>2. CalmPrune'
  <2>1. pc \notin {"prune", "done", "failed"}
    BY DEF RestoreObjects, Get, Write, WriteStatus, ObjectsDone
  <2> QED BY <2>1, CalmIdle DEF CalmPrune, pool
<1>3. CalmCRDs'
  <2>1. crd' = crd /\ pc' \notin CRDCalls \cup {"crds", "load"}
    BY DEF RestoreObjects, Get, Write, WriteStatus, ObjectsDone, AfterObjects, Collect,
           cluster, CRDCalls
  <2> QED BY <1>0, <2>1 DEF CalmCRDs, CRDCalls
<1>4. ASSUME NEW o \in Objects, Get(o) PROVE CalmOn'
  <2>1. UNCHANGED <<live, failed>> /\ at' = o
    BY <1>0, <1>4 DEF Get
  <2>2. CASE pc' = "objects"
    BY <1>0, <1>2, <1>3, <2>1, <2>2 DEF CalmOn, CalmObjects, ObjectCalls
  <2>3. CASE pc' # "objects"
    <3>1. /\ Read(Restorer, o)
          /\ pc' = IF live[o].there THEN "update" ELSE "create"
          /\ doomed' = IF live[o].deleting THEN doomed \cup {o} ELSE doomed
      BY <1>0, <1>4, <2>3 DEF Get
    <3>2. ~live[o].deleting
      BY <1>0, <3>1 DEF Calm
    <3>3. copy'[Restorer] = o
      BY <1>1, <3>1 DEF Read, ClusterTypeOK
    <3> QED
      BY <1>0, <1>2, <1>3, <2>1, <3>1, <3>2, <3>3 DEF CalmOn, CalmObjects, ObjectCalls
  <2> QED BY <2>2, <2>3
<1>5. ASSUME NEW s \in Object, at \in Objects, s.there, ~s.deleting,
             Store(Restorer, at, s), pc' \in {"status", "objects"},
             UNCHANGED <<at, failed>>
      PROVE  CalmOn'
  <2>1. live'[at] = s /\ copy'[Restorer] = at
    BY <1>1, <1>5 DEF Store, Settled, ClusterTypeOK
  <2> QED BY <1>0, <1>2, <1>3, <1>5, <2>1 DEF CalmOn, CalmObjects, ObjectCalls
<1>6. CASE Write
  <2>1. at \in Objects /\ pc \in ObjectCalls /\ live[at] \in Object
    BY <1>1, <1>6 DEF Write, ObjectCalls, ClusterTypeOK
  <2>2. Taken
    BY <1>0, <1>6, <2>1 DEF Write, Taken, CalmObjects, Object
  <2>3. CASE at \in Guarded /\ pc' = "objects" /\ UNCHANGED <<cluster, restoring, failed>>
    BY <1>0, <1>2, <1>3, <2>3 DEF CalmOn, CalmObjects, ObjectCalls
  <2>4. CASE /\ Store(Restorer, at, FromArchive(at))
             /\ pc' \in {"status", "objects"}
             /\ UNCHANGED <<failed, restoring>>
    <3>1. FromArchive(at) \in Object
      BY <1>1, <2>1 DEF FromArchive, Object
    <3>2. FromArchive(at).there /\ ~FromArchive(at).deleting
      BY <1>0, <2>1 DEF FromArchive, CalmObjects
    <3> QED BY <1>5, <2>1, <2>4, <3>1, <3>2 DEF restoring
  <2> QED BY <1>0, <1>6, <2>2, <2>3, <2>4 DEF Write
<1>7. CASE WriteStatus
  <2>1. at \in Objects /\ pc \in ObjectCalls /\ pc = "status" /\ live[at] \in Object
    BY <1>1, <1>7 DEF WriteStatus, ObjectCalls, ClusterTypeOK
  <2>2. live[at].there /\ ~live[at].deleting /\ copy[Restorer] = at
    BY <1>0, <2>1 DEF CalmObjects
  <2> DEFINE s == [live[at] EXCEPT !.content = "archived"]
  <2>3. s \in Object /\ s.there /\ ~s.deleting
    BY <2>1, <2>2 DEF Object
  <2>4. /\ Store(Restorer, at, s) /\ pc' = "objects"
        /\ UNCHANGED <<restoring, failed>>
    BY <1>0, <1>7, <2>2 DEF WriteStatus
  <2> HIDE DEF s
  <2> QED BY <1>5, <2>1, <2>3, <2>4 DEF restoring
<1>8. CASE ObjectsDone
  BY <1>0, <1>2, <1>3, <1>8
  DEF ObjectsDone, AfterObjects, CalmOn, CalmObjects, ObjectCalls
<1> QED BY <1>4, <1>6, <1>7, <1>8 DEF RestoreObjects

LEMMA CalmPruneStep ==
  ASSUME TypeInv, CalmInv, PruneNext, [Next]_vars, Calm'
  PROVE  CalmOn'
<1>0. /\ Calm /\ ~failed /\ CalmCRDs /\ CalmObjects /\ CalmPrune
      /\ ~Refused /\ faulted' # TRUE
  BY CalmBefore
<1>1. /\ ClusterTypeOK /\ PruneTypeOK /\ Workers \subseteq Holders /\ pc = "prune"
      /\ Nothing \notin Objects
      /\ \A w \in Workers : job[w] = Idle \/ (job[w].call # "next" /\ job[w].on \in Objects)
  BY PruneAssumption, ClusterAssumption
  DEF PruneNext, Gather, SecondPass, Pruned, Worker, Take, Calls, GetVictim,
      UpdateVictim, DeleteVictim, TypeInv, TypeOK, PruneTypeOK, Places
<1>2. CalmCRDs' /\ CalmObjects'
  <2>1. crd' = crd /\ pc' \in {"prune", "done", "failed"}
    BY <1>1
    DEF PruneNext, Gather, Abort, SecondPass, Pruned, Worker, Take, GetVictim,
        UpdateVictim, DeleteVictim, cluster
  <2> QED BY <1>0, <2>1 DEF CalmCRDs, CalmObjects, CRDCalls, ObjectCalls
<1>3. CASE Gather
  BY <1>0, <1>1, <1>2, <1>3, PruneAssumption
  DEF Gather, CalmOn, CalmPrune, TypeInv, Places
<1>4. CASE SecondPass
  BY <1>0, <1>2, <1>4 DEF SecondPass, PassOver, CalmOn, CalmPrune
<1>5. CASE Pruned
  BY <1>0, <1>2, <1>5 DEF Pruned, cluster, pool, CalmOn, CalmPrune
<1>6. ASSUME NEW w \in Workers, NEW o \in Objects, Take(w, o) PROVE CalmOn'
  <2>1. queue[o] > 0 /\ o \in victims /\ queue[o] <= Times[o] /\ Times[o] \in Nat
        /\ queue[o] \in Nat
    BY <1>1, <1>6, PruneAssumption DEF Take, PruneTypeOK
  <2>2. queue'[o] = 0 /\ \A p \in Objects : queue[p] = 0 => queue'[p] = 0
    <3>1. Times[o] <= 1
      BY <1>0, <2>1 DEF Calm
    <3> QED BY <1>1, <1>6, <2>1, <3>1 DEF Take, PruneTypeOK
  <2>3. \A v \in Workers : job[v].on # o
    BY <1>0, <1>1, <2>1 DEF CalmPrune, Idle
  <2>4. /\ job'[w].on = o /\ job'[w].call # "update"
        /\ \A v \in Workers \ {w} : job'[v] = job[v]
        /\ UNCHANGED <<live, copy, pc, failed>>
    BY <1>1, <1>6 DEF Take, FirstCall, PruneTypeOK, cluster
  <2>5. CalmPrune'
    <3> SUFFICES ASSUME NEW v \in Workers, job'[v] # Idle
                 PROVE  /\ queue'[job'[v].on] = 0
                        /\ \A u \in Workers : job'[u].on = job'[v].on => u = v
                        /\ job'[v].call = "update" =>
                             live'[job'[v].on].there /\ copy'[v] = job'[v].on
      BY DEF CalmPrune
    <3>1. CASE v = w
      BY <2>2, <2>3, <2>4, <3>1
    <3>2. CASE v # w
      BY <1>0, <1>1, <2>2, <2>3, <2>4, <3>2 DEF CalmPrune
    <3> QED BY <3>1, <3>2
  <2> QED BY <1>0, <1>1, <1>2, <2>4, <2>5 DEF CalmOn
\* Worker w goes on with its victim, or to the next one.
<1>7. ASSUME NEW w \in Workers, job[w] # Idle,
             \/ Done(w)
             \/ Goes(w, "delete")
             \/ Goes(w, "update") /\ live'[job[w].on].there /\ copy'[w] = job[w].on,
             \A o \in Objects \ {job[w].on} : live'[o] = live[o],
             \A v \in Workers \ {w} :
               copy'[v] = copy[v] \/ copy[v] = job[w].on,
             UNCHANGED <<pc, queue, failed>>
      PROVE  CalmOn'
  <2>1. /\ job'[w] = Idle \/ (job'[w].on = job[w].on /\ job'[w].call \in {"delete", "update"})
        /\ job'[w].call = "update" => live'[job[w].on].there /\ copy'[w] = job[w].on
        /\ \A v \in Workers \ {w} : job'[v] = job[v]
    BY <1>1, <1>7 DEF Done, Goes, Idle, PruneTypeOK
  <2>2. CalmPrune'
    <3> SUFFICES ASSUME NEW v \in Workers, job'[v] # Idle
                 PROVE  /\ queue'[job'[v].on] = 0
                        /\ \A u \in Workers : job'[u].on = job'[v].on => u = v
                        /\ job'[v].call = "update" =>
                             live'[job'[v].on].there /\ copy'[v] = job'[v].on
      BY DEF CalmPrune
    <3>1. Idle.on = Nothing
      BY DEF Idle
    <3>2. job[v] # Idle /\ job'[v].on = job[v].on /\ job[v].on \in Objects
      BY <1>1, <1>7, <2>1
    <3>3. \A u \in Workers : job'[u].on = job'[v].on => u = v
      BY <1>0, <1>1, <2>1, <3>1, <3>2 DEF CalmPrune
    <3>4. job'[v].call = "update" =>
            live'[job'[v].on].there /\ copy'[v] = job'[v].on
      <4>1. CASE v = w
        BY <2>1, <3>2, <4>1
      <4>2. CASE v # w
        <5>1. job'[v] = job[v] /\ job[w].on # job[v].on
          BY <1>0, <2>1, <3>2, <4>2 DEF CalmPrune
        <5> QED BY <1>0, <1>7, <3>2, <4>2, <5>1 DEF CalmPrune
      <4> QED BY <4>1, <4>2
    <3> QED BY <1>0, <1>7, <3>2, <3>3, <3>4 DEF CalmPrune
  <2> QED BY <1>0, <1>1, <1>2, <1>7, <2>2 DEF CalmOn
<1>8. ASSUME NEW w \in Workers, GetVictim(w) PROVE CalmOn'
  <2>1. job[w] # Idle /\ UNCHANGED <<live, pc, queue>>
    BY <1>8 DEF GetVictim, Calls, Idle
  <2>2. CASE ~live[job[w].on].there /\ Done(w) /\ UNCHANGED <<copy, failed, faulted>>
    BY <1>7, <2>1, <2>2
  <2>3. CASE /\ live[job[w].on].there
             /\ Read(w, job[w].on)
             /\ Goes(w, "update")
             /\ UNCHANGED <<failed, faulted>>
    <3>1. copy'[w] = job[w].on /\ \A v \in Workers \ {w} : copy'[v] = copy[v]
      BY <1>1, <2>3 DEF Read, ClusterTypeOK
    <3> QED BY <1>7, <2>1, <2>3, <3>1
  <2> QED BY <1>0, <1>8, <2>2, <2>3 DEF GetVictim
<1>9. ASSUME NEW w \in Workers, UpdateVictim(w) PROVE CalmOn'
  <2> DEFINE o == job[w].on
  <2>1. job[w] # Idle /\ job[w].call = "update" /\ UNCHANGED <<pc, queue>>
    BY <1>9 DEF UpdateVictim, Calls, Idle
  <2>2. live[o].there /\ copy[w] = o
    BY <1>0, <2>1 DEF CalmPrune
  <2>3. /\ Store(w, o, [live[o] EXCEPT !.final = FALSE])
        /\ Goes(w, "delete") /\ UNCHANGED failed
    BY <1>0, <1>9, <2>2 DEF UpdateVictim
  <2>4. /\ \A p \in Objects \ {o} : live'[p] = live[p]
        /\ \A v \in Workers \ {w} : copy'[v] = copy[v] \/ copy[v] = o
    BY <1>1, <2>3 DEF Store, ClusterTypeOK
  <2> QED BY <1>7, <2>1, <2>3, <2>4
<1>10. ASSUME NEW w \in Workers, DeleteVictim(w) PROVE CalmOn'
  <2> DEFINE o == job[w].on
  <2>1. job[w] # Idle /\ UNCHANGED <<pc, queue>>
    BY <1>10 DEF DeleteVictim, Calls, Idle
  <2>2. /\ IF live[o].there THEN Remove(o) ELSE UNCHANGED <<live, copy>>
        /\ Done(w) /\ UNCHANGED failed
    BY <1>0, <1>10 DEF DeleteVictim
  <2>3. /\ \A p \in Objects \ {o} : live'[p] = live[p]
        /\ \A v \in Workers \ {w} : copy'[v] = copy[v] \/ copy[v] = o
    BY <1>1, <2>2 DEF Remove, ClusterTypeOK
  <2> QED BY <1>7, <2>1, <2>2, <2>3
<1> QED
  BY <1>3, <1>4, <1>5, <1>6, <1>8, <1>9, <1>10 DEF PruneNext, Worker

LEMMA CalmStep == TypeInv /\ CalmInv /\ [Next]_vars => CalmInv'
<1> SUFFICES ASSUME TypeInv, CalmInv, [Next]_vars, Calm' PROVE CalmOn'
  BY DEF CalmInv, CalmOn
<1>0. /\ Calm /\ ~failed /\ CalmCRDs /\ CalmObjects /\ CalmPrune
      /\ ~Refused /\ faulted' # TRUE
  BY CalmBefore
<1>1. ClusterTypeOK /\ PruneTypeOK /\ Workers \subseteq Holders /\ Restorer \in Holders
      /\ pc # "failed"
      /\ (pc \in ObjectCalls => at \in Objects) /\ (pc \in CRDCalls => at \in CRDs)
      /\ (pc \in CRDCalls \cup {"crds"} => todo \subseteq CRDs)
      /\ \A w \in Workers : job[w] = Idle \/ (job[w].call # "next" /\ job[w].on \in Objects)
  BY <1>0, PruneAssumption, RestoreAssumption
  DEF TypeInv, TypeOK, Places, PruneTypeOK, CalmInv
\* In the calm others only serve a CRD that was created.
<1>2. CASE Interfere
  <2>1. UNCHANGED <<pc, restoring, failed, pool>>
    BY <1>2 DEF Interfere
  <2>2. PICK c \in CRDs : Establish(c)
    BY <1>2 DEF Interfere, Others, OtherWrites, OtherDeletes, OtherUpgrades, Note, Calm
  <2>3. /\ live' = live /\ ~crd[c].established /\ crd[c].there /\ crd[c] \in CRD
        /\ \A h \in Holders : copy'[h] = IF copy[h] = c THEN Nothing ELSE copy[h]
        /\ crd' = [crd EXCEPT ![c].established = TRUE]
    BY <1>1, <2>2 DEF Establish, ClusterTypeOK
  <2>4. /\ \A d \in CRDs \ {c} : crd'[d] = crd[d]
        /\ crd'[c].there /\ crd'[c].established
        /\ crd'[c].versions = crd[c].versions /\ crd'[c].stored = crd[c].stored
    BY <1>1, <2>3 DEF ClusterTypeOK, CRD
  <2>5. pc \in CRDCalls /\ crd[at].there => c # at
    BY <1>0, <2>3 DEF CalmCRDs
  <2>6. CalmCRDs'
    BY <1>0, <1>1, <2>1, <2>3, <2>4, <2>5 DEF CalmCRDs, CRDCalls, restoring
  <2>7. CalmObjects'
    BY <1>0, <1>1, <2>1, <2>3, ClusterAssumption DEF CalmObjects, ObjectCalls, restoring
  <2>8. CalmPrune'
    BY <1>0, <1>1, <2>1, <2>3, ClusterAssumption DEF CalmPrune, pool
  <2> QED BY <1>0, <1>1, <2>1, <2>6, <2>7, <2>8 DEF CalmOn
<1>3. CASE UNCHANGED vars
  BY <1>0, <1>1, <1>3
  DEF vars, cluster, restoring, pool, CalmOn, CalmCRDs, CalmObjects, CalmPrune
<1> QED
  BY <1>2, <1>3, CalmCRDsStep, CalmObjectsStep, CalmPruneStep DEF Next, Step

\* A restore fails only if a call failed, others changed what it was writing, an
\* object was being deleted, or two workers had the same victim.
THEOREM FailureHasCause == Spec => []FailsForCause
<1>1. TypeInv /\ CalmInv => FailsForCause
  <2> SUFFICES ASSUME TypeInv, CalmInv, pc = "failed", ~faulted, touched = {},
                      doomed = {}, \A o \in victims : ~(Times[o] > 1)
               PROVE  FALSE
    BY DEF FailsForCause
  <2>1. \A o \in victims : Times[o] <= 1
    BY PruneAssumption DEF TypeInv, TypeOK, PruneTypeOK
  <2> QED BY <2>1 DEF Calm, CalmInv
<1> QED BY <1>1, TypeInit, TypeStep, CalmInit, CalmStep, PTL DEF Spec

=============================================================================
