---------------------------- MODULE RestoreLease ----------------------------
(***************************************************************************)
(* The lease "restore-controller" with which the restore controller keeps  *)
(* two restores from running at the same time, one step per call to the    *)
(* Kubernetes API:                                                         *)
(*                                                                         *)
(*   Register   Get the lease; Delete it when the Get found one            *)
(*   Lock       Get; Create when there is none, refuse when it has a       *)
(*              holder, else Update it with the restore as its holder      *)
(*   Unlock     Get; Update it with no holder when the restore holds it    *)
(*                                                                         *)
(* An Update carries the resourceVersion its Get returned and the API      *)
(* server refuses it when the lease was written since.  The versions are   *)
(* abstracted to fresh[p][r]: nothing wrote the lease since that handler   *)
(* read it.  A handler is one call of OnRestoreChange(r) in pod p; the     *)
(* work queue never runs two handlers for one key in one pod.              *)
(***************************************************************************)
EXTENDS Naturals

CONSTANTS
  Pods,         \* the pods the operator's Deployment may run
  Restores,     \* the Restore custom resources
  NoLease,      \* value of lease: the object does not exist
  Free,         \* value of lease: it exists and spec.holderIdentity is nil
  Faults,       \* the ways an API call may fail, see FaultKinds
  MaxCrashes    \* bound on the crashes of a behaviour

FaultKinds ==
  {"get",       \* a Get of the lease fails
   "write",     \* a Create or Update fails and is not applied
   "delete",    \* the Delete of Register fails and is not applied
   "lostReply"} \* it is applied, and an error is returned all the same

ASSUME LeaseAssumption ==
  /\ NoLease # Free
  /\ NoLease \notin Restores
  /\ Free \notin Restores
  /\ Faults \subseteq FaultKinds
  /\ MaxCrashes \in Nat

VARIABLES
  lease,        \* the lease object in the API server
  pod,          \* pod[p]: where the process of pod p is
  pc,           \* pc[p][r]: where the handler of restore r in pod p is
  fresh,        \* fresh[p][r]: no write of the lease since its last Get
  completed,    \* the informer's copy of r has a restoreCompletionTs
  crashes,      \* crashes so far
  failed,       \* history: a call to the API server has failed
  overlapped,   \* history: a pod has started while another one was up
  robbed        \* history: the lease of a handler at work was deleted

history == <<overlapped, robbed>>
vars == <<lease, pod, pc, fresh, completed, crashes, failed, history>>

PodStates == {"down", "registering", "deleting", "running"}
HandlerStates ==
  {"idle",          \* not running
   "create",        \* Lock is about to Create the lease
   "update",        \* Lock is about to Update the lease
   "working",       \* the restore itself, after Lock and before Unlock
   "unlockGet",     \* the deferred Unlock is about to Get the lease
   "unlockUpdate"}  \* Unlock is about to Update the lease

TypeOK ==
  /\ lease \in Restores \cup {NoLease, Free}
  /\ pod \in [Pods -> PodStates]
  /\ pc \in [Pods -> [Restores -> HandlerStates]]
  /\ fresh \in [Pods -> [Restores -> BOOLEAN]]
  /\ completed \in [Restores -> BOOLEAN]
  /\ crashes \in 0..MaxCrashes
  /\ failed \in BOOLEAN
  /\ overlapped \in BOOLEAN
  /\ robbed \in BOOLEAN

\* Any lease may be left from an earlier life of the operator.
Init ==
  /\ lease \in Restores \cup {NoLease, Free}
  /\ pod = [p \in Pods |-> "down"]
  /\ pc = [p \in Pods |-> [r \in Restores |-> "idle"]]
  /\ fresh = [p \in Pods |-> [r \in Restores |-> FALSE]]
  /\ completed = [r \in Restores |-> FALSE]
  /\ crashes = 0
  /\ failed = FALSE
  /\ overlapped = FALSE
  /\ robbed = FALSE

-----------------------------------------------------------------------------
Goto(p, r, s) == pc' = [pc EXCEPT ![p][r] = s]

\* Every write of the lease gives it a new resourceVersion.
WriteLease(v) ==
  /\ lease' = v
  /\ fresh' = [p \in Pods |-> [r \in Restores |-> FALSE]]

\* A Get notes the version that a later Update will send.
Noted(p, r) == fresh' = [fresh EXCEPT ![p][r] = TRUE]

NoWrite == UNCHANGED <<lease, fresh>>

Fault(k) == k \in Faults /\ failed' = TRUE

NoFault == UNCHANGED failed

\* A bug: the Update is sent without a resourceVersion.
AppliesAlways(p, r) == TRUE

\* Whether the API server applies the Update of a handler: the version it
\* read is still the current one, and so the lease still exists.
Applies(p, r) == fresh[p][r]

-----------------------------------------------------------------------------
(* Register, once per process, before any handler is called                *)

Holding(p, r) == pc[p][r] \in {"working", "unlockGet", "unlockUpdate"}

StartPod(p) ==
  /\ pod[p] = "down"
  /\ pod' = [pod EXCEPT ![p] = "registering"]
  /\ overlapped' = (overlapped \/ \E q \in Pods : pod[q] # "down")
  /\ UNCHANGED <<lease, pc, fresh, completed, crashes, failed, robbed>>

\* A bug: a lease that is found is left alone.
RegisterGetOnly(p) ==
  /\ pod[p] = "registering"
  /\ pod' = [pod EXCEPT ![p] = "running"]
  /\ UNCHANGED <<lease, pc, fresh, completed, crashes, failed, history>>

\* The Get of Register; an error counts as no lease.
RegisterGet(p) ==
  /\ pod[p] = "registering"
  /\ \/ /\ lease # NoLease /\ NoFault
        /\ pod' = [pod EXCEPT ![p] = "deleting"]
     \/ /\ (lease = NoLease /\ NoFault) \/ Fault("get")
        /\ pod' = [pod EXCEPT ![p] = "running"]
  /\ UNCHANGED <<lease, pc, fresh, completed, crashes, history>>

\* A bug: the handlers do not wait for it.
RunsInRegister(p) == pod[p] # "down"

\* Handlers are called once Register has returned.
Runs(p) == pod[p] = "running"

\* The Delete of Register, whoever holds the lease; its error is ignored.
RegisterDelete(p) ==
  /\ pod[p] = "deleting"
  /\ pod' = [pod EXCEPT ![p] = "running"]
  /\ \/ /\ WriteLease(NoLease) /\ NoFault
        /\ robbed' = (robbed \/ \E q \in Pods, r \in Restores : Holding(q, r))
     \/ Fault("delete") /\ NoWrite /\ UNCHANGED robbed
  /\ UNCHANGED <<pc, completed, crashes, overlapped>>

Crash(p) ==
  /\ pod[p] # "down"
  /\ crashes < MaxCrashes
  /\ crashes' = crashes + 1
  /\ pod' = [pod EXCEPT ![p] = "down"]
  /\ pc' = [pc EXCEPT ![p] = [r \in Restores |-> "idle"]]
  /\ UNCHANGED <<lease, fresh, completed, failed, history>>

-----------------------------------------------------------------------------
(* Lock, the first thing a handler does                                    *)

\* A bug: the pod calls itself the holder.
HolderPod(p, r) == p

\* The spec.holderIdentity a handler writes.
HolderIdentity(p, r) == r

\* A bug: the holder is not looked at.
NoHolderCheck(v) == v # NoLease

\* The lease the Get of Lock returned has no holder.
NoHolder(v) == v = Free

\* The Get of Lock.  When it fails, or finds a holder, the handler returns an
\* error and the queue will call it again: nothing changes.
LockGet(p, r) ==
  /\ Runs(p)
  /\ pc[p][r] = "idle"
  /\ ~completed[r]
  /\ \/ lease = NoLease /\ Goto(p, r, "create") /\ UNCHANGED fresh
     \/ NoHolder(lease) /\ Goto(p, r, "update") /\ Noted(p, r)
  /\ UNCHANGED <<lease, pod, completed, crashes, failed, history>>

\* A Create is refused when the lease exists by now.
LockCreate(p, r) ==
  /\ pc[p][r] = "create"
  /\ \/ /\ lease = NoLease /\ NoFault
        /\ WriteLease(HolderIdentity(p, r)) /\ Goto(p, r, "working")
     \/ lease # NoLease /\ NoWrite /\ Goto(p, r, "idle") /\ NoFault
     \/ Fault("write") /\ NoWrite /\ Goto(p, r, "idle")
     \/ /\ lease = NoLease /\ Fault("lostReply")
        /\ WriteLease(HolderIdentity(p, r)) /\ Goto(p, r, "idle")
  /\ UNCHANGED <<pod, completed, crashes, history>>

LockUpdate(p, r) ==
  /\ pc[p][r] = "update"
  /\ \/ /\ Applies(p, r) /\ NoFault
        /\ WriteLease(HolderIdentity(p, r)) /\ Goto(p, r, "working")
     \/ ~Applies(p, r) /\ NoWrite /\ Goto(p, r, "idle") /\ NoFault
     \/ Fault("write") /\ NoWrite /\ Goto(p, r, "idle")
     \/ /\ Applies(p, r) /\ Fault("lostReply")
        /\ WriteLease(HolderIdentity(p, r)) /\ Goto(p, r, "idle")
  /\ UNCHANGED <<pod, completed, crashes, history>>

\* Everything between Lock and the deferred Unlock, seen from the lease: it
\* ends, and the next call sees the restore completed, or tries it again
\* because it failed or because the informer lags behind.
Work(p, r) ==
  /\ pc[p][r] = "working"
  /\ Goto(p, r, "unlockGet")
  /\ \/ completed' = [completed EXCEPT ![r] = TRUE]
     \/ UNCHANGED completed
  /\ UNCHANGED <<lease, pod, fresh, crashes, failed, history>>

-----------------------------------------------------------------------------
(* Unlock; OnRestoreChange ignores the error it returns                    *)

\* Bugs: only a lease that is free is released; any holder's is released.
MustReleaseFree(r) == lease = Free
MustReleaseAny(r) == lease \in Restores

\* Whether the Get of Unlock found a lease that this restore has to give back.
MustRelease(r) == lease = r

UnlockGet(p, r) ==
  /\ pc[p][r] = "unlockGet"
  /\ \/ MustRelease(r) /\ Goto(p, r, "unlockUpdate") /\ Noted(p, r) /\ NoFault
     \/ ~MustRelease(r) /\ Goto(p, r, "idle") /\ UNCHANGED fresh /\ NoFault
     \/ Fault("get") /\ Goto(p, r, "idle") /\ UNCHANGED fresh
  /\ UNCHANGED <<lease, pod, completed, crashes, history>>

UnlockUpdate(p, r) ==
  /\ pc[p][r] = "unlockUpdate"
  /\ Goto(p, r, "idle")
  /\ \/ Applies(p, r) /\ WriteLease(Free) /\ NoFault
     \/ ~Applies(p, r) /\ NoWrite /\ NoFault
     \/ Fault("write") /\ NoWrite
  /\ UNCHANGED <<pod, completed, crashes, history>>

-----------------------------------------------------------------------------
Handler(p, r) ==
  \/ LockGet(p, r) \/ LockCreate(p, r) \/ LockUpdate(p, r)
  \/ Work(p, r)
  \/ UnlockGet(p, r) \/ UnlockUpdate(p, r)

Process(p) == StartPod(p) \/ RegisterGet(p) \/ RegisterDelete(p)

Next ==
  \E p \in Pods :
    \/ Process(p)
    \/ Crash(p)
    \/ \E r \in Restores : Handler(p, r)

Spec == Init /\ [][Next]_vars

\* The kubelet restarts the process and the queue calls a handler again until
\* it returns without an error.  Nothing makes pods crash or overlap.
Fairness ==
  \A p \in Pods :
    /\ WF_vars(Process(p) /\ UNCHANGED overlapped)
    /\ \A r \in Restores : WF_vars(Handler(p, r))

FairSpec == Spec /\ Fairness

-----------------------------------------------------------------------------
(* Properties                                                              *)

Working(p, r) == pc[p][r] = "working"

\* Two restores, or two handlers of one restore, are never processed at the
\* same time (what Lock at controller.go:141 is for), as long as no starting
\* pod deletes the lease of a handler at work.
MutualExclusion ==
  ~robbed =>
    \A p, q \in Pods : \A r, s \in Restores :
      Working(p, r) /\ Working(q, s) => p = q /\ r = s

\* Until then, from the moment a handler has the lease until it gives it back,
\* the lease names its restore: it is a witness an administrator or another
\* pod can rely on.
HolderIsNamed ==
  ~robbed =>
    \A p \in Pods : \A r \in Restores : Holding(p, r) => lease = r

\* The Delete in Register (controller.go:127) takes the lease from a handler
\* at work only when pods overlap, as in a rolling update of the Deployment.
RobbedByOverlap == robbed => overlapped

\* A lease that names a restore means that some running handler of it will
\* give it back, or that the operator is down or just starting and about to
\* delete it.  What "restore %v is in progress" (controller.go:885) says.
HeldMeansInProgress ==
  lease \in Restores =>
    \/ \E p \in Pods : Holding(p, lease)
    \/ \A p \in Pods : ~Runs(p)

\* As long as calls succeed and pods do not overlap, no exit of a handler and
\* no crash leaves the lease with a restore that is not in progress.
HeldIsGivenBack == ~failed /\ ~overlapped => HeldMeansInProgress

\* The step gives the lease back, by a handler of the restore that holds it.
GivenBack ==
  /\ lease' = Free
  /\ \E p \in Pods : pc[p][lease] = "unlockUpdate" /\ pc'[p][lease] = "idle"

\* The step is the Delete of a starting pod.
Deleted ==
  /\ lease' = NoLease
  /\ \E p \in Pods : pod[p] = "deleting" /\ pod'[p] = "running"

\* Whatever fails or overlaps, a restore is never robbed of its lease by the
\* Unlock of another restore, however late that Unlock's Update arrives: only
\* a handler of the holder frees the lease, or a starting pod deletes it.
OnlyHolderReleases ==
  [][lease' # lease /\ lease \in Restores => GivenBack \/ Deleted]_vars

\* As long as restores are pending, some restore gets to run again and again,
\* whatever crashes: a lease is not left behind for ever, unless a call fails
\* or pods overlap.
SomeRestoreRuns ==
  []<>(\/ \A r \in Restores : completed[r]
       \/ \E p \in Pods, r \in Restores : Working(p, r)
       \/ failed \/ overlapped)

\* The restores in progress, for the abstract lock: it is given up when the
\* lease of one of them is deleted.
InProgress ==
  {r \in Restores : ~robbed /\ \E p \in Pods : Working(p, r)}

Lock == INSTANCE RestoreLock WITH busy <- InProgress

\* The controller implements the abstract lock.
ImplementsLock == Lock!Spec
=============================================================================
