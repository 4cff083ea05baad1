------------------------ MODULE RestoreLease_proofs ------------------------
(***************************************************************************)
(* Theorems about RestoreLease, for every set of pods and of restores, any *)
(* overlap of the pods, any faults of the API and any number of crashes.   *)
(***************************************************************************)
EXTENDS RestoreLease, TLAPS

-----------------------------------------------------------------------------
(* Types                                                                   *)

LEMMA InitType == Init => TypeOK
<1> SUFFICES ASSUME Init PROVE TypeOK
  OBVIOUS
<1>1. /\ lease \in Restores \cup {NoLease, Free}
      /\ pod \in [Pods -> PodStates]
      /\ fresh \in [Pods -> [Restores -> BOOLEAN]]
  BY DEF Init, PodStates
<1>2. pc \in [Pods -> [Restores -> HandlerStates]]
  BY DEF Init, HandlerStates
<1>3. crashes \in 0..MaxCrashes
  BY LeaseAssumption DEF Init
<1> QED
  BY <1>1, <1>2, <1>3 DEF Init, TypeOK

LEMMA GotoType ==
  ASSUME TypeOK, NEW p \in Pods, NEW r \in Restores,
         NEW s \in HandlerStates, Goto(p, r, s)
  PROVE  pc' \in [Pods -> [Restores -> HandlerStates]]
  BY DEF TypeOK, Goto

LEMMA NotedType ==
  ASSUME TypeOK, NEW p \in Pods, NEW r \in Restores, Noted(p, r)
  PROVE  fresh' \in [Pods -> [Restores -> BOOLEAN]]
  BY DEF TypeOK, Noted

LEMMA WriteLeaseType ==
  ASSUME NEW v, WriteLease(v)
  PROVE  fresh' \in [Pods -> [Restores -> BOOLEAN]]
<1> DEFINE row == [r \in Restores |-> FALSE]
<1>1. row \in [Restores -> BOOLEAN]
  OBVIOUS
<1>2. fresh' = [p \in Pods |-> row]
  BY DEF WriteLease
<1> HIDE DEF row
<1> QED
  BY <1>1, <1>2

LEMMA NextType == TypeOK /\ [Next]_vars => TypeOK'
<1> SUFFICES ASSUME TypeOK, [Next]_vars PROVE TypeOK'
  OBVIOUS
<1>1. ASSUME NEW p \in Pods, StartPod(p) PROVE TypeOK'
  BY <1>1 DEF StartPod, TypeOK, PodStates
<1>2. ASSUME NEW p \in Pods, RegisterGet(p) PROVE TypeOK'
  BY <1>2 DEF RegisterGet, Fault, NoFault, history, TypeOK, PodStates
<1>3. ASSUME NEW p \in Pods, RegisterDelete(p) PROVE TypeOK'
  <2>1. fresh' \in [Pods -> [Restores -> BOOLEAN]]
    BY <1>3, WriteLeaseType DEF RegisterDelete, NoWrite, TypeOK
  <2>2. lease' \in Restores \cup {NoLease, Free}
    BY <1>3 DEF RegisterDelete, WriteLease, NoWrite, TypeOK
  <2>3. failed' \in BOOLEAN /\ robbed' \in BOOLEAN
    BY <1>3 DEF RegisterDelete, Fault, NoFault, TypeOK
  <2> QED
    BY <1>3, <2>1, <2>2, <2>3 DEF RegisterDelete, TypeOK, PodStates
<1>4. ASSUME NEW p \in Pods, Crash(p) PROVE TypeOK'
  BY <1>4, LeaseAssumption DEF Crash, history, TypeOK, PodStates, HandlerStates
<1>5. ASSUME NEW p \in Pods, NEW r \in Restores, Handler(p, r) PROVE TypeOK'
  <2>1. pc' \in [Pods -> [Restores -> HandlerStates]]
    <3>1. \E s \in HandlerStates : Goto(p, r, s)
      BY <1>5 DEF Handler, LockGet, LockCreate, LockUpdate, Work, UnlockGet,
                  UnlockUpdate, HandlerStates
    <3> QED
      BY <3>1, GotoType
  <2>2. fresh' \in [Pods -> [Restores -> BOOLEAN]]
    <3>1. \/ \E v : WriteLease(v)
          \/ Noted(p, r)
          \/ UNCHANGED fresh
      BY <1>5 DEF Handler, LockGet, LockCreate, LockUpdate, Work, UnlockGet,
                  UnlockUpdate, NoWrite
    <3> QED
      BY <3>1, WriteLeaseType, NotedType DEF TypeOK
  <2>3. lease' \in Restores \cup {NoLease, Free}
    BY <1>5 DEF Handler, LockGet, LockCreate, LockUpdate, Work, UnlockGet,
                UnlockUpdate, HolderIdentity, WriteLease, NoWrite, TypeOK
  <2>4. completed' \in [Restores -> BOOLEAN]
    BY <1>5 DEF Handler, LockGet, LockCreate, LockUpdate, Work, UnlockGet,
                UnlockUpdate, TypeOK
  <2>5. failed' \in BOOLEAN
    BY <1>5 DEF Handler, LockGet, LockCreate, LockUpdate, Work, UnlockGet,
                UnlockUpdate, Fault, NoFault, TypeOK
  <2>6. UNCHANGED <<pod, crashes, overlapped, robbed>>
    BY <1>5 DEF Handler, LockGet, LockCreate, LockUpdate, Work, UnlockGet,
                UnlockUpdate, history
  <2> QED
    BY <2>1, <2>2, <2>3, <2>4, <2>5, <2>6 DEF TypeOK
<1>6. CASE UNCHANGED vars
  BY <1>6 DEF vars, history, TypeOK
<1> QED
  BY <1>1, <1>2, <1>3, <1>4, <1>5, <1>6 DEF Next, Process

\* Every reachable state has the types of TypeOK.
THEOREM TypeCorrect == Spec => []TypeOK
  BY InitType, NextType, PTL DEF Spec

-----------------------------------------------------------------------------
(* Effects of the steps on one handler                                     *)

\* What one assignment to pc or to fresh does to every handler.
LEMMA GotoEffect ==
  ASSUME TypeOK, NEW p \in Pods, NEW r \in Restores, NEW s, Goto(p, r, s),
         NEW q \in Pods, NEW t \in Restores
  PROVE  pc'[q][t] = IF q = p /\ t = r THEN s ELSE pc[q][t]
  BY DEF TypeOK, Goto

LEMMA NotedEffect ==
  ASSUME TypeOK, NEW p \in Pods, NEW r \in Restores, Noted(p, r),
         NEW q \in Pods, NEW t \in Restores, q # p \/ t # r
  PROVE  fresh'[q][t] = fresh[q][t]
  BY DEF TypeOK, Noted

LEMMA WriteEffect ==
  ASSUME NEW v, WriteLease(v), NEW q \in Pods, NEW t \in Restores
  PROVE  fresh'[q][t] = FALSE
  BY DEF WriteLease

LEMMA CrashEffect ==
  ASSUME TypeOK, NEW p \in Pods, Crash(p),
         NEW q \in Pods, NEW t \in Restores
  PROVE  pc'[q][t] = IF q = p THEN "idle" ELSE pc[q][t]
  BY DEF Crash, TypeOK

\* A handler's step moves that handler only.
LEMMA HandlerMoves ==
  ASSUME TypeOK, NEW p \in Pods, NEW r \in Restores, Handler(p, r)
  PROVE  \E s \in HandlerStates : \A q \in Pods, t \in Restores :
           pc'[q][t] = IF q = p /\ t = r THEN s ELSE pc[q][t]
<1>1. PICK s \in HandlerStates : Goto(p, r, s)
  BY DEF Handler, LockGet, LockCreate, LockUpdate, Work, UnlockGet,
         UnlockUpdate, HandlerStates
<1> QED
  BY <1>1, GotoEffect

-----------------------------------------------------------------------------
(* A late Update frees nobody's lease                                      *)

\* A handler whose Update would still be applied has seen the lease as it is:
\* this is what makes the Updates of Lock and Unlock compare-and-swaps.
FreshIsCurrent ==
  \A p \in Pods : \A r \in Restores :
    fresh[p][r] => /\ pc[p][r] = "update" => lease = Free
                   /\ pc[p][r] = "unlockUpdate" => lease = r

LEMMA FreshInit == Init => FreshIsCurrent
  BY DEF Init, FreshIsCurrent

\* FreshIsCurrent needs no other invariant, and holds with overlapping pods.
LEMMA FreshNext == TypeOK /\ FreshIsCurrent /\ [Next]_vars => FreshIsCurrent'
<1> SUFFICES ASSUME TypeOK, FreshIsCurrent, [Next]_vars,
                    NEW q \in Pods, NEW t \in Restores, fresh'[q][t]
             PROVE  /\ pc'[q][t] = "update" => lease' = Free
                    /\ pc'[q][t] = "unlockUpdate" => lease' = t
  BY DEF FreshIsCurrent
<1> USE DEF FreshIsCurrent
<1>1. ASSUME NEW p \in Pods, Process(p)
      PROVE  UNCHANGED <<pc, lease, fresh>>
  BY <1>1, WriteEffect
  DEF Process, StartPod, RegisterGet, RegisterDelete, NoWrite
<1>2. ASSUME NEW p \in Pods, Crash(p)
      PROVE  /\ UNCHANGED <<lease, fresh>>
             /\ pc'[q][t] \in {"idle", pc[q][t]}
  BY <1>2, CrashEffect DEF Crash
<1>3. ASSUME NEW p \in Pods, NEW r \in Restores, Handler(p, r),
             q # p \/ t # r
      PROVE  UNCHANGED lease /\ pc'[q][t] = pc[q][t] /\ fresh[q][t]
  <2>1. \E s : Goto(p, r, s)
    BY <1>3 DEF Handler, LockGet, LockCreate, LockUpdate, Work, UnlockGet,
                UnlockUpdate
  <2>2. \/ UNCHANGED <<lease, fresh>>
        \/ UNCHANGED lease /\ Noted(p, r)
        \/ \E v : WriteLease(v)
    BY <1>3 DEF Handler, LockGet, LockCreate, LockUpdate, Work, UnlockGet,
                UnlockUpdate, NoWrite
  <2>3. UNCHANGED lease /\ fresh[q][t]
    BY <1>3, <2>2, WriteEffect, NotedEffect
  <2>4. pc'[q][t] = pc[q][t]
    BY <1>3, <2>1, GotoEffect
  <2> QED
    BY <2>3, <2>4
<1>4. ASSUME Handler(q, t)
      PROVE  /\ pc'[q][t] = "update" => lease' = Free
             /\ pc'[q][t] = "unlockUpdate" => lease' = t
  <2> USE GotoEffect
  <2>1. CASE LockGet(q, t)
    BY <2>1 DEF LockGet, NoHolder
  <2>2. CASE LockCreate(q, t) \/ LockUpdate(q, t) \/ Work(q, t) \/ UnlockUpdate(q, t)
    BY <2>2 DEF LockCreate, LockUpdate, Work, UnlockUpdate
  <2>3. CASE UnlockGet(q, t)
    BY <2>3 DEF UnlockGet, MustRelease
  <2> QED
    BY <1>4, <2>1, <2>2, <2>3 DEF Handler
<1>5. CASE UNCHANGED vars
  BY <1>5 DEF vars
<1>6. CASE \E p \in Pods : Process(p) \/ Crash(p)
  BY <1>1, <1>2, <1>6
<1>7. CASE \E p \in Pods, r \in Restores : Handler(p, r)
  BY <1>3, <1>4, <1>7
<1> QED
  BY <1>5, <1>6, <1>7 DEF Next

\* Even when pods overlap, and whatever fails, a lease leaves its holder only
\* by that holder's Unlock or by a starting pod:
\* a late Update of another restore's Unlock never frees it.
THEOREM NoTheft == Spec => OnlyHolderReleases
<1>1. Init => TypeOK /\ FreshIsCurrent
  BY InitType, FreshInit
<1>2. TypeOK /\ FreshIsCurrent /\ [Next]_vars => (TypeOK /\ FreshIsCurrent)'
  BY NextType, FreshNext
<1>3. ASSUME TypeOK, FreshIsCurrent, [Next]_vars,
             lease' # lease, lease \in Restores
      PROVE  GivenBack \/ Deleted
  <2>1. CASE UNCHANGED vars
    BY <1>3, <2>1 DEF vars
  <2>2. ASSUME NEW p \in Pods, Process(p) PROVE Deleted
    BY <1>3, <2>2 DEF Process, StartPod, RegisterGet, RegisterDelete, NoWrite,
                      WriteLease, Deleted, TypeOK
  <2>3. ASSUME NEW p \in Pods, Crash(p) PROVE FALSE
    BY <1>3, <2>3 DEF Crash
  <2>4. ASSUME NEW p \in Pods, NEW r \in Restores, Handler(p, r) PROVE GivenBack
    <3>1. UnlockUpdate(p, r)
      BY <1>3, <2>4, LeaseAssumption
      DEF Handler, LockGet, LockCreate, LockUpdate, Work, UnlockGet, NoWrite,
          Applies, FreshIsCurrent, HolderIdentity
    <3>2. Applies(p, r) /\ lease' = Free /\ pc[p][r] = "unlockUpdate"
      BY <1>3, <3>1 DEF UnlockUpdate, NoWrite, WriteLease
    <3>3. lease = r
      BY <1>3, <3>2 DEF Applies, FreshIsCurrent, HolderIdentity
    <3>4. pc'[p][r] = "idle"
      BY <1>3, <3>1, GotoEffect DEF UnlockUpdate
    <3> QED
      BY <3>2, <3>3, <3>4 DEF GivenBack
  <2> QED
    BY <1>3, <2>1, <2>2, <2>3, <2>4 DEF Next
<1> QED
  BY <1>1, <1>2, <1>3, PTL DEF Spec, OnlyHolderReleases

-----------------------------------------------------------------------------
(* Mutual exclusion and the abstract lock                                  *)

\* At most one handler has the lease or is giving it back.
OneHolder ==
  ~robbed =>
    \A p, q \in Pods : \A r, s \in Restores :
      Holding(p, r) /\ Holding(q, s) => p = q /\ r = s

\* HolderIsNamed alone is not inductive: an Update of Lock could overwrite a
\* holder (FreshIsCurrent), and one of two handlers of the same restore in
\* different pods could free the lease the other one needs (OneHolder).
IInv == TypeOK /\ FreshIsCurrent /\ HolderIsNamed /\ OneHolder

LEMMA InitInv == Init => IInv
<1> SUFFICES ASSUME Init PROVE IInv
  OBVIOUS
<1>1. \A p \in Pods, r \in Restores : ~Holding(p, r)
  BY DEF Init, Holding
<1> QED
  BY <1>1, InitType, FreshInit DEF IInv, HolderIsNamed, OneHolder

\* The steps of a process before its handlers run, and its crash.
LEMMA ProcessInv ==
  ASSUME IInv, NEW p \in Pods, Process(p) \/ Crash(p)
  PROVE  HolderIsNamed' /\ OneHolder'
<1> USE DEF IInv, HolderIsNamed, OneHolder, Holding
<1>1. CASE StartPod(p) \/ RegisterGet(p)
  BY <1>1 DEF StartPod, RegisterGet, history
<1>2. CASE RegisterDelete(p)
  BY <1>2 DEF RegisterDelete, NoWrite
<1>3. CASE Crash(p)
  BY <1>3, CrashEffect DEF Crash, history
<1> QED
  BY <1>1, <1>2, <1>3 DEF Process

\* The steps of a handler.
LEMMA HandlerInv ==
  ASSUME IInv, NEW p \in Pods, NEW r \in Restores, Handler(p, r)
  PROVE  HolderIsNamed' /\ OneHolder'
<1> SUFFICES ASSUME ~robbed PROVE HolderIsNamed' /\ OneHolder'
  BY DEF Handler, LockGet, LockCreate, LockUpdate, Work, UnlockGet,
         UnlockUpdate, history, HolderIsNamed, OneHolder
<1> USE DEF IInv, HolderIsNamed
<1>1. PICK s \in HandlerStates : \A q \in Pods, t \in Restores :
        pc'[q][t] = IF q = p /\ t = r THEN s ELSE pc[q][t]
  BY HandlerMoves
<1>2. CASE UNCHANGED lease /\ (Holding(p, r)' => Holding(p, r))
  BY <1>1, <1>2 DEF OneHolder, Holding
<1>3. CASE /\ \A q \in Pods, t \in Restores : ~Holding(q, t)
           /\ Holding(p, r)' => lease' = r
  BY <1>1, <1>3 DEF OneHolder, Holding
<1>4. CASE LockGet(p, r) \/ Work(p, r) \/ UnlockGet(p, r)
  <2>1. UNCHANGED lease /\ (Holding(p, r)' => Holding(p, r))
    BY <1>4, GotoEffect DEF LockGet, Work, UnlockGet, Holding
  <2> QED
    BY <1>2, <2>1
<1>5. CASE LockCreate(p, r)
  <2>1. CASE lease = NoLease
    <3>1. \A q \in Pods, t \in Restores : ~Holding(q, t)
      BY <2>1, LeaseAssumption
    <3>2. Holding(p, r)' => lease' = r
      BY <1>5, GotoEffect, LeaseAssumption
      DEF LockCreate, NoWrite, WriteLease, HolderIdentity, Holding
    <3> QED
      BY <1>3, <3>1, <3>2
  <2>2. CASE lease # NoLease
    <3>1. UNCHANGED lease /\ ~Holding(p, r)'
      BY <1>5, <2>2, GotoEffect DEF LockCreate, NoWrite, Holding
    <3> QED
      BY <1>2, <3>1
  <2> QED
    BY <2>1, <2>2
<1>6. CASE LockUpdate(p, r)
  <2>1. CASE fresh[p][r]
    <3>1. \A q \in Pods, t \in Restores : ~Holding(q, t)
      BY <1>6, <2>1, LeaseAssumption DEF LockUpdate, FreshIsCurrent
    <3>2. Holding(p, r)' => lease' = r
      BY <1>6, GotoEffect
      DEF LockUpdate, NoWrite, WriteLease, HolderIdentity, Holding
    <3> QED
      BY <1>3, <3>1, <3>2
  <2>2. CASE ~fresh[p][r]
    <3>1. UNCHANGED lease /\ ~Holding(p, r)'
      BY <1>6, <2>2, GotoEffect DEF LockUpdate, NoWrite, Applies, Holding
    <3> QED
      BY <1>2, <3>1
  <2> QED
    BY <2>1, <2>2
<1>7. CASE UnlockUpdate(p, r)
  <2>1. Holding(p, r) /\ ~Holding(p, r)'
    BY <1>7, GotoEffect DEF UnlockUpdate, Holding
  <2>2. \A q \in Pods, t \in Restores : ~Holding(q, t)'
    BY <1>1, <2>1 DEF OneHolder, Holding
  <2> QED
    BY <2>2 DEF OneHolder
<1> QED
  BY <1>4, <1>5, <1>6, <1>7 DEF Handler

LEMMA NextInv == IInv /\ [Next]_vars => IInv'
<1> SUFFICES ASSUME IInv, [Next]_vars PROVE IInv'
  OBVIOUS
<1>1. TypeOK'
  BY NextType DEF IInv
<1>2. FreshIsCurrent'
  BY FreshNext DEF IInv
<1>3. HolderIsNamed' /\ OneHolder'
  <2>1. CASE UNCHANGED vars
    BY <2>1 DEF vars, history, IInv, HolderIsNamed, OneHolder, Holding
  <2> QED
    BY <2>1, ProcessInv, HandlerInv DEF Next
<1> QED
  BY <1>1, <1>2, <1>3 DEF IInv

LEMMA Invariance == Spec => []IInv
  BY InitInv, NextInv, PTL DEF Spec

\* As long as no starting pod deletes it, the lease names the restore of the
\* handler that works or has yet to give it back: neither a failing API nor a
\* crash nor a late Update of another handler takes it away.
THEOREM LeaseNamesHolder == Spec => []HolderIsNamed
<1>1. IInv => HolderIsNamed
  BY DEF IInv
<1> QED
  BY <1>1, Invariance, PTL

LEMMA ExclusionFromInv == IInv => MutualExclusion
  BY DEF IInv, OneHolder, MutualExclusion, Working, Holding

\* Restores are processed one at a time, as long as no starting pod deletes
\* the lease of one.
THEOREM Exclusion == Spec => []MutualExclusion
  BY ExclusionFromInv, Invariance, PTL

\* The lease implements the abstract lock: a step of the controller starts a
\* restore while none is in progress, stops the one in progress, or is not
\* visible to the lock.
THEOREM Refinement == Spec => ImplementsLock
<1>1. Init => Lock!Init
  BY DEF Init, Lock!Init, InProgress, Working
<1>2. ASSUME IInv PROVE \A r \in InProgress : InProgress = {r}
  BY <1>2, ExclusionFromInv DEF MutualExclusion, InProgress
<1>3. ASSUME IInv, IInv', [Next]_vars PROVE [Lock!Next]_InProgress
  <2>1. CASE UNCHANGED vars
    BY <2>1 DEF vars, history, InProgress, Working
  <2>2. CASE \E p \in Pods : StartPod(p) \/ RegisterGet(p)
    BY <2>2 DEF StartPod, RegisterGet, history, InProgress, Working
  <2>3. CASE InProgress' \subseteq InProgress
    <3>1. CASE InProgress = {}
      BY <2>3, <3>1
    <3>2. CASE InProgress # {}
      <4>1. PICK r \in Restores : InProgress = {r}
        BY <1>2, <1>3, <3>2 DEF InProgress
      <4>2. InProgress' = {} \/ InProgress' = InProgress
        BY <2>3, <4>1
      <4> QED
        BY <4>1, <4>2 DEF Lock!Next, Lock!Stop
    <3> QED
      BY <3>1, <3>2
  <2>4. ASSUME NEW p \in Pods, RegisterDelete(p) \/ Crash(p)
        PROVE  InProgress' \subseteq InProgress
    <3>1. \A q \in Pods, t \in Restores :
            pc'[q][t] = "working" => pc[q][t] = "working"
      BY <1>3, <2>4, CrashEffect DEF IInv, RegisterDelete
    <3>2. robbed => robbed'
      BY <2>4 DEF RegisterDelete, Crash, history
    <3> QED
      BY <3>1, <3>2 DEF InProgress, Working
  <2>5. ASSUME NEW p \in Pods, NEW r \in Restores, Handler(p, r)
        PROVE  [Lock!Next]_InProgress
    <3>1. UNCHANGED robbed
      BY <2>5 DEF Handler, LockGet, LockCreate, LockUpdate, Work, UnlockGet,
                  UnlockUpdate, history
    <3>2. PICK s \in HandlerStates : \A q \in Pods, t \in Restores :
            pc'[q][t] = IF q = p /\ t = r THEN s ELSE pc[q][t]
      BY <1>3, <2>5, HandlerMoves DEF IInv
    <3>3. CASE s # "working" \/ robbed \/ pc[p][r] = "working"
      <4>1. InProgress' \subseteq InProgress
        BY <3>1, <3>2, <3>3 DEF InProgress, Working
      <4> QED
        BY <2>3, <4>1
    <3>4. CASE s = "working" /\ ~robbed /\ pc[p][r] # "working"
      <4>1. MutualExclusion'
        BY <1>3, ExclusionFromInv, PTL
      <4>2. \A q \in Pods, t \in Restores : pc'[q][t] = "working" => q = p /\ t = r
        BY <3>1, <3>2, <3>4, <4>1 DEF MutualExclusion, Working
      <4>3. InProgress' = {r}
        BY <3>1, <3>2, <3>4, <4>2 DEF InProgress, Working
      <4>4. InProgress = {}
        BY <3>2, <3>4, <4>2 DEF InProgress, Working
      <4> QED
        BY <4>3, <4>4 DEF Lock!Next, Lock!Start
    <3> QED
      BY <3>3, <3>4
  <2> QED
    BY <1>3, <2>1, <2>2, <2>3, <2>4, <2>5 DEF Next, Process
<1> QED
  BY <1>1, <1>3, Invariance, PTL DEF Spec, ImplementsLock, Lock!Spec

-----------------------------------------------------------------------------
(* Who can be robbed                                                       *)

\* Handlers run in running pods only.
NoneBegun ==
  \A p \in Pods : pod[p] # "running" => \A r \in Restores : pc[p][r] = "idle"

\* No two pods are up together.
OnePodUp ==
  ~overlapped =>
    \A p, q \in Pods : pod[p] # "down" /\ pod[q] # "down" => p = q

\* A pod that deletes the lease has no handler yet (NoneBegun), and no other
\* pod is up (OnePodUp).
SoloInv == TypeOK /\ NoneBegun /\ OnePodUp /\ RobbedByOverlap

LEMMA SoloStep == SoloInv /\ [Next]_vars => SoloInv'
<1> SUFFICES ASSUME SoloInv, [Next]_vars PROVE SoloInv'
  OBVIOUS
<1> USE DEF SoloInv, NoneBegun, OnePodUp, RobbedByOverlap
<1>1. TypeOK'
  BY NextType
<1>2. ASSUME NEW p \in Pods, StartPod(p) PROVE SoloInv'
  BY <1>1, <1>2 DEF StartPod, TypeOK
<1>3. ASSUME NEW p \in Pods, RegisterGet(p) PROVE SoloInv'
  <2>1. \A q \in Pods : /\ pod'[q] = "down" <=> pod[q] = "down"
                        /\ pod'[q] # "running" => pod[q] # "running"
    BY <1>3 DEF RegisterGet, TypeOK
  <2> QED
    BY <1>1, <1>3, <2>1 DEF RegisterGet, history
<1>4. ASSUME NEW p \in Pods, RegisterDelete(p) PROVE SoloInv'
  <2>1. \A q \in Pods : /\ pod'[q] = "down" <=> pod[q] = "down"
                        /\ pod'[q] # "running" => pod[q] # "running"
    BY <1>4 DEF RegisterDelete, TypeOK
  <2>2. robbed' => overlapped
    BY <1>4 DEF RegisterDelete, Holding
  <2> QED
    BY <1>1, <1>4, <2>1, <2>2 DEF RegisterDelete
<1>5. ASSUME NEW p \in Pods, Crash(p) PROVE SoloInv'
  <2>1. \A q \in Pods : pod'[q] = IF q = p THEN "down" ELSE pod[q]
    BY <1>5 DEF Crash, TypeOK
  <2>2. NoneBegun'
    BY <1>5, <2>1, CrashEffect
  <2>3. OnePodUp' /\ RobbedByOverlap'
    BY <1>5, <2>1 DEF Crash, history
  <2> QED
    BY <1>1, <2>2, <2>3
<1>6. ASSUME NEW p \in Pods, NEW r \in Restores, Handler(p, r) PROVE SoloInv'
  <2>1. UNCHANGED <<pod, history>> /\ pod[p] = "running"
    BY <1>6 DEF Handler, LockGet, LockCreate, LockUpdate, Work, UnlockGet,
                UnlockUpdate, Runs
  <2>2. \A q \in Pods, t \in Restores :
          q # p => pc'[q][t] = pc[q][t]
    BY <1>6, HandlerMoves
  <2>3. NoneBegun'
    BY <2>1, <2>2
  <2>4. OnePodUp' /\ RobbedByOverlap'
    BY <2>1 DEF history
  <2> QED
    BY <1>1, <2>3, <2>4
<1>7. CASE UNCHANGED vars
  BY <1>1, <1>7 DEF vars, history
<1> QED
  BY <1>2, <1>3, <1>4, <1>5, <1>6, <1>7 DEF Next, Process

\* A lease is deleted under a handler at work only when pods overlap: with the
\* two theorems above, pods that replace one another are mutually exclusive.
THEOREM RobbersOverlap == Spec => []RobbedByOverlap
<1>1. Init => SoloInv
  BY InitType DEF Init, SoloInv, NoneBegun, OnePodUp, RobbedByOverlap
<1>2. SoloInv => RobbedByOverlap
  BY DEF SoloInv
<1> QED
  BY <1>1, <1>2, SoloStep, PTL DEF Spec

-----------------------------------------------------------------------------
(* Who gives the lease back                                                *)

\* Nobody writes the lease between the Get and the Update of Unlock, unless a
\* starting pod deletes it: the Update that gives it back is not refused.
StillFresh ==
  ~robbed =>
    \A p \in Pods : \A r \in Restores :
      pc[p][r] = "unlockUpdate" => fresh[p][r]

LEMMA StillFreshStep == IInv /\ StillFresh /\ [Next]_vars => StillFresh'
<1> SUFFICES ASSUME IInv, StillFresh, [Next]_vars, ~robbed',
                    NEW q \in Pods, NEW t \in Restores, pc'[q][t] = "unlockUpdate"
             PROVE  fresh'[q][t]
  BY DEF StillFresh
<1>1. ~robbed
  BY DEF Next, Process, StartPod, RegisterGet, RegisterDelete, Crash, Handler,
         LockGet, LockCreate, LockUpdate, Work, UnlockGet, UnlockUpdate, history, vars
<1>2. CASE pc[q][t] = "unlockUpdate"
  <2>1. fresh[q][t] /\ lease = t
    BY <1>1, <1>2 DEF StillFresh, IInv, HolderIsNamed, Holding
  <2>2. ASSUME NEW p \in Pods, Process(p) PROVE UNCHANGED fresh
    BY <1>2, <2>2 DEF Process, StartPod, RegisterGet, RegisterDelete, NoWrite, Holding
  <2>3. ASSUME NEW p \in Pods, NEW r \in Restores, Handler(p, r)
        PROVE  fresh'[q][t]
    <3>1. CASE p = q /\ r = t
      BY <1>2, <2>3, <3>1, GotoEffect
      DEF IInv, Handler, LockGet, LockCreate, LockUpdate, Work, UnlockGet, UnlockUpdate
    <3>2. CASE p # q \/ r # t
      <4>1. ~Holding(p, r)
        BY <1>1, <1>2, <3>2 DEF IInv, OneHolder, Holding
      <4>2. LockGet(p, r) \/ LockCreate(p, r) \/ LockUpdate(p, r)
        BY <2>3, <4>1 DEF Handler, Work, UnlockGet, UnlockUpdate, Holding
      <4>3. Noted(p, r) \/ UNCHANGED fresh
        BY <2>1, <4>2, LeaseAssumption
        DEF IInv, FreshIsCurrent, LockGet, LockCreate, LockUpdate, Applies, NoWrite
      <4> QED
        BY <2>1, <3>2, <4>3, NotedEffect DEF IInv
    <3> QED
      BY <3>1, <3>2
  <2> QED
    BY <2>1, <2>2, <2>3 DEF Next, Crash, vars
<1>3. CASE pc[q][t] # "unlockUpdate"
  <2>1. PICK p \in Pods, r \in Restores : Handler(p, r)
    BY <1>3, CrashEffect
    DEF IInv, Next, Process, StartPod, RegisterGet, RegisterDelete, vars
  <2>2. p = q /\ r = t
    BY <1>3, <2>1, HandlerMoves DEF IInv
  <2>3. Noted(q, t)
    BY <1>3, <2>1, <2>2, GotoEffect
    DEF IInv, Handler, LockGet, LockCreate, LockUpdate, Work, UnlockGet, UnlockUpdate
  <2> QED
    BY <2>3 DEF IInv, TypeOK, Noted
<1> QED
  BY <1>2, <1>3

\* HeldIsGivenBack is inductive next to these.
GivenInv == IInv /\ SoloInv /\ StillFresh /\ HeldIsGivenBack

LEMMA GivenStep == GivenInv /\ [Next]_vars => HeldIsGivenBack'
<1> SUFFICES ASSUME GivenInv, [Next]_vars, ~failed', ~overlapped',
                    lease' \in Restores, NEW a \in Pods, Runs(a)'
             PROVE  \E p \in Pods : Holding(p, lease)'
  BY DEF HeldIsGivenBack, HeldMeansInProgress
<1> USE DEF GivenInv
<1>1. ~failed /\ ~overlapped /\ ~robbed
  <2>1. ~failed /\ ~overlapped
    BY DEF IInv, TypeOK, Next, Process, StartPod, RegisterGet, RegisterDelete, Crash,
           Handler, LockGet, LockCreate, LockUpdate, Work, UnlockGet, UnlockUpdate,
           Fault, NoFault, history, vars
  <2> QED
    BY <2>1 DEF SoloInv, RobbedByOverlap
<1>2. ASSUME lease \in Restores, NEW b \in Pods, Runs(b)
      PROVE  \E p \in Pods : Holding(p, lease)
  BY <1>1, <1>2 DEF HeldIsGivenBack, HeldMeansInProgress
<1>3. ASSUME NEW p \in Pods, Process(p) PROVE \E q \in Pods : Holding(q, lease)'
  <2>1. lease \in Restores /\ Runs(a)
    BY <1>3, LeaseAssumption
    DEF IInv, TypeOK, Process, StartPod, RegisterGet, RegisterDelete, Runs, Fault,
        WriteLease
  <2>2. UNCHANGED <<lease, pc>>
    BY <1>3, LeaseAssumption
    DEF Process, StartPod, RegisterGet, RegisterDelete, Fault, WriteLease
  <2> QED
    BY <1>2, <2>1, <2>2 DEF Holding
<1>4. ASSUME NEW p \in Pods, Crash(p) PROVE FALSE
  <2>1. pod[a] # "down" /\ a # p
    BY <1>4 DEF Crash, Runs, IInv, TypeOK
  <2> QED
    BY <1>1, <1>4, <2>1 DEF Crash, SoloInv, OnePodUp
<1>5. ASSUME NEW p \in Pods, NEW r \in Restores, Handler(p, r)
      PROVE  \E q \in Pods : Holding(q, lease)'
  <2>1. PICK s \in HandlerStates : \A q \in Pods, t \in Restores :
          pc'[q][t] = IF q = p /\ t = r THEN s ELSE pc[q][t]
    BY <1>5, HandlerMoves DEF IInv
  <2>2. Runs(a)
    BY <1>5 DEF Handler, LockGet, LockCreate, LockUpdate, Work, UnlockGet,
                UnlockUpdate, Runs
  <2>3. CASE lease' = r /\ Holding(p, r)'
    BY <2>3 DEF Holding
  <2>4. CASE UNCHANGED lease /\ (lease = r => (Holding(p, r) => Holding(p, r)'))
    <3>1. PICK q \in Pods : Holding(q, lease)
      BY <1>2, <2>2, <2>4
    <3>2. CASE q = p /\ lease = r
      BY <2>4, <3>1, <3>2 DEF Holding
    <3>3. CASE q # p \/ lease # r
      BY <2>1, <2>4, <3>1, <3>3 DEF Holding
    <3> QED
      BY <3>2, <3>3
  <2> USE GotoEffect DEF IInv
  <2>5. CASE LockGet(p, r)
    BY <2>4, <2>5 DEF LockGet, Holding
  <2>6. CASE LockCreate(p, r)
    <3>1. \/ lease' = r /\ pc'[p][r] = "working"
          \/ UNCHANGED lease /\ pc[p][r] = "create"
      BY <2>6 DEF LockCreate, Fault, NoWrite, WriteLease, HolderIdentity, HandlerStates
    <3> QED
      BY <2>3, <2>4, <3>1 DEF Holding
  <2>7. CASE LockUpdate(p, r)
    <3>1. \/ lease' = r /\ pc'[p][r] = "working"
          \/ UNCHANGED lease /\ pc[p][r] = "update"
      BY <2>7 DEF LockUpdate, Fault, NoWrite, WriteLease, HolderIdentity, HandlerStates
    <3> QED
      BY <2>3, <2>4, <3>1 DEF Holding
  <2>8. CASE Work(p, r)
    BY <2>4, <2>8 DEF Work, Holding, HandlerStates
  <2>9. CASE UnlockGet(p, r)
    <3>1. UNCHANGED lease /\ (lease = r => pc'[p][r] = "unlockUpdate")
      BY <2>9 DEF UnlockGet, Fault, MustRelease, HandlerStates
    <3> QED
      BY <2>4, <3>1 DEF Holding
  <2>10. CASE UnlockUpdate(p, r)
    <3>1. fresh[p][r]
      BY <1>1, <2>10 DEF UnlockUpdate, StillFresh
    <3>2. lease' = Free
      BY <2>10, <3>1 DEF UnlockUpdate, Applies, Fault, WriteLease
    <3> QED
      BY <3>2, LeaseAssumption
  <2> QED
    BY <1>5, <2>5, <2>6, <2>7, <2>8, <2>9, <2>10 DEF Handler
<1>6. CASE UNCHANGED vars
  <2>1. lease \in Restores /\ Runs(a)
    BY <1>6 DEF vars, Runs
  <2> QED
    BY <1>2, <1>6, <2>1 DEF vars, Holding
<1> QED
  BY <1>3, <1>4, <1>5, <1>6 DEF Next

\* As long as calls succeed and pods do not overlap, every exit of a handler
\* gives the lease back, and a crash leaves it to the pod that starts next.
THEOREM EveryExitGivesBack == Spec => []HeldIsGivenBack
<1>1. Init => GivenInv
  <2>1. Init => IInv
    BY InitInv
  <2>2. Init => SoloInv
    BY InitType DEF Init, SoloInv, NoneBegun, OnePodUp, RobbedByOverlap
  <2>3. Init => StillFresh /\ HeldIsGivenBack
    BY DEF Init, StillFresh, HeldIsGivenBack, HeldMeansInProgress, Runs
  <2> QED
    BY <2>1, <2>2, <2>3 DEF GivenInv
<1>2. GivenInv /\ [Next]_vars => GivenInv'
  BY NextInv, SoloStep, StillFreshStep, GivenStep DEF GivenInv
<1>3. GivenInv => HeldIsGivenBack
  BY DEF GivenInv
<1> QED
  BY <1>1, <1>2, <1>3, PTL DEF Spec

=============================================================================
