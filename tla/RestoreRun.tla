------------------------------ MODULE RestoreRun ------------------------------
(***************************************************************************)
(* One Restore, from the event that puts it on the work queue to its       *)
(* status.restoreCompletionTs: what OnRestoreChange does while it holds the*)
(* lease (RestoreLease), the attempts the queue makes, and the way a change*)
(* of the Restore comes back to the controller as an event.                *)
(*                                                                         *)
(* An attempt loads the archive, scales the controllers of its ResourceSet *)
(* down to 0, restores CRDs, cluster-scoped and namespaced objects, prunes,*)
(* scales the controllers up to what it found, and writes the status.      *)
(* What a phase writes, and in which order, is DependencyGraph's subject.  *)
(* The controllers are not among the restored objects (as with Rancher,    *)
(* controller.go:403), and only this restore scales them.                  *)
(***************************************************************************)
EXTENDS Naturals, Sequences

CONSTANTS
  Controllers,  \* controllerReferences of the ResourceSet in the archive
  Original,     \* replicas of each of them before the restore
  Faults,       \* what may go wrong, see FaultKinds
  MaxFaults     \* bound on how often something goes wrong in a behaviour

WritePhases == {"crds", "cluster", "namespaced"}
Phases == WritePhases \cup {"prune"}

FaultKinds == Phases \cup    \* a phase returns an error
  {"load",          \* fetching, reading or decrypting the archive fails
   "scaleDownGet",  \* the Get of a controller that is to be scaled down fails
   "scaleDownPut",  \* its Update fails and is not applied
   "scaleUp",       \* the Get or the Update of one to be scaled up fails
   "statusGet",     \* a Get of the Restore fails
   "statusPut",     \* an UpdateStatus of the Restore fails, is not applied
   "lostReply",     \* it is applied, and an error is returned all the same
   "touch",         \* no fault: somebody edits the metadata of the Restore
   "crash"}         \* the operator's process ends

ASSUME RunAssumption ==
  /\ Original \in [Controllers -> Nat]
  /\ Faults \subseteq FaultKinds
  /\ MaxFaults \in Nat

VARIABLES
  pc,           \* where the process is
  todo,         \* controllers still to be scaled in this pass
  after,        \* where to go on when they have been scaled up
  saved,        \* ControllerReferences[ind].Replicas of this attempt
  done,         \* phases of this attempt that returned no error
  seen,         \* error on the Reconciling condition the handler looks at
  err,          \* error it is about to report
  replicas,     \* spec.replicas of the controllers in the cluster
  spec,         \* spec.prune and spec.ignoreErrors of the Restore
  status,       \* status of the Restore in the API server
  cached,       \* the informer's copy of it
  watch,        \* changes of the Restore still to reach the informer
  queued,       \* the work queue holds the Restore
  faults,       \* faults so far
  happened      \* history: their kinds

attempt == <<todo, after, saved, done, seen, err>>
restore == <<spec, status, cached, watch>>
counted == <<faults, happened>>
vars == <<pc, attempt, replicas, restore, queued, counted>>

None == "none"
Errors == Phases \cup {"load", "finish"}
RestoreSpec == [prune : BOOLEAN, ignoreErrors : BOOLEAN]
Status == [completed : BOOLEAN, error : Errors \cup {None}]

Places == Phases \cup
  {"down", "idle", "load", "scaleDown", "scaleUp", "finish", "report"}

TypeOK ==
  /\ pc \in Places
  /\ todo \subseteq Controllers
  /\ after \in Places
  /\ saved \in [Controllers -> Nat]
  /\ done \subseteq Phases
  /\ seen \in Errors \cup {None}
  /\ err \in Errors \cup {None}
  /\ replicas \in [Controllers -> Nat]
  /\ spec \in RestoreSpec
  /\ status \in Status
  /\ cached \in Status
  /\ watch \in Seq(Status)
  /\ queued \in BOOLEAN
  /\ faults \in 0..MaxFaults
  /\ happened \subseteq Faults

Init ==
  /\ pc = "idle"
  /\ todo = {}
  /\ after = "finish"
  /\ saved = [c \in Controllers |-> 0]
  /\ done = {}
  /\ seen = None
  /\ err = None
  /\ replicas = Original
  /\ spec \in RestoreSpec
  /\ status = [completed |-> FALSE, error |-> None]
  /\ cached = status
  /\ watch = <<>>
  /\ queued = TRUE
  /\ faults = 0
  /\ happened = {}

-----------------------------------------------------------------------------
Fault(k) ==
  /\ k \in Faults
  /\ faults < MaxFaults
  /\ faults' = faults + 1
  /\ happened' = happened \cup {k}

NoFault == UNCHANGED counted

\* Go to a step that is not the scaling up after an error.
GoOn(p) ==
  /\ pc' = p
  /\ todo' = IF p \in {"scaleDown", "scaleUp"} THEN Controllers ELSE {}
  /\ after' = "finish"

\* A bug: the error is swallowed.
RequeueNot == GoOn("idle") /\ UNCHANGED queued

\* The handler returns an error: the queue will call it again.
Requeue == GoOn("idle") /\ queued' = TRUE

\* A bug: a condition without an error stays where there should be none.
WriteStatusEmpty(s) ==
  /\ status' = [s EXCEPT !.error = IF @ = None THEN "" ELSE @]
  /\ watch' = Append(watch, status')

\* A write of the Restore's status, and the event it causes.
WriteStatus(s) ==
  /\ status' = s
  /\ watch' = Append(watch, s)

NoWrite == UNCHANGED <<status, watch>>

-----------------------------------------------------------------------------
(* An attempt: OnRestoreChange, called with the informer's copy            *)

\* A bug: a Restore that is completed is not skipped.
DequeueAny ==
  /\ pc = "idle"
  /\ queued
  /\ queued' = FALSE
  /\ GoOn("load")
  /\ saved' = [c \in Controllers |-> 0]
  /\ done' = {}
  /\ seen' = cached.error
  /\ err' = None
  /\ UNCHANGED <<replicas, restore, counted>>

Dequeue ==
  /\ pc = "idle"
  /\ queued
  /\ queued' = FALSE
  /\ IF cached.completed
     THEN UNCHANGED <<pc, attempt>>
     ELSE /\ GoOn("load")
          /\ saved' = [c \in Controllers |-> 0]
          /\ done' = {}
          /\ seen' = cached.error
          /\ err' = None
  /\ UNCHANGED <<replicas, restore, counted>>

\* An archive that cannot be loaded is reported; a downloaded one that cannot
\* be removed is only an error.
Load ==
  /\ pc = "load"
  /\ \/ GoOn("scaleDown") /\ NoFault /\ UNCHANGED <<err, queued>>
     \/ Fault("load") /\ GoOn("report") /\ err' = "load" /\ UNCHANGED queued
     \/ Fault("load") /\ Requeue /\ UNCHANGED err
  /\ UNCHANGED <<saved, done, seen, replicas, restore>>

\* scaleDownControllersFromResourceSet, one controller: errors skip it.
ScaleDown(c) ==
  /\ pc = "scaleDown"
  /\ c \in todo
  /\ todo' = todo \ {c}
  /\ \/ /\ saved' = [saved EXCEPT ![c] = replicas[c]]
        /\ \/ replicas' = [replicas EXCEPT ![c] = 0] /\ NoFault
           \/ Fault("scaleDownPut") /\ UNCHANGED replicas
     \/ Fault("scaleDownGet") /\ UNCHANGED <<saved, replicas>>
  /\ UNCHANGED <<pc, after, done, seen, err, restore, queued>>

\* scaleUpControllersFromResourceSet, one controller: errors are ignored.
ScaleUp(c) ==
  /\ pc = "scaleUp"
  /\ c \in todo
  /\ todo' = todo \ {c}
  /\ \/ replicas' = [replicas EXCEPT ![c] = saved[c]] /\ NoFault
     \/ Fault("scaleUp") /\ UNCHANGED replicas
  /\ UNCHANGED <<pc, after, saved, done, seen, err, restore, queued>>

\* A bug: nobody waits until all controllers are scaled.
EndScalingEarly ==
  /\ pc \in {"scaleDown", "scaleUp"}
  /\ GoOn(IF pc = "scaleDown" THEN "crds" ELSE after)
  /\ UNCHANGED <<saved, done, seen, err, replicas, restore, queued, counted>>

EndScaling ==
  /\ pc \in {"scaleDown", "scaleUp"}
  /\ todo = {}
  /\ GoOn(IF pc = "scaleDown" THEN "crds" ELSE after)
  /\ UNCHANGED <<saved, done, seen, err, replicas, restore, queued, counted>>

\* A bug: without pruning the controllers are not scaled up.
FollowingPruneOnly ==
  [crds |-> "cluster", cluster |-> "namespaced",
   namespaced |-> IF spec.prune THEN "prune" ELSE "finish", prune |-> "scaleUp"]

\* What comes after a phase.
Following ==
  [crds |-> "cluster", cluster |-> "namespaced",
   namespaced |-> IF spec.prune THEN "prune" ELSE "scaleUp", prune |-> "scaleUp"]

\* A bug: no error ends the attempt.
ToleratesAny(p) == TRUE

\* Whether the handler carries on after an error of a phase.
Tolerates(p) == spec.ignoreErrors /\ p # "prune"

\* A phase.  On an error the controllers are scaled up, at once.
Phase(p) ==
  /\ pc = p
  /\ \/ /\ GoOn(Following[p])
        /\ done' = done \cup {p}
        /\ NoFault
        /\ UNCHANGED err
     \/ /\ Fault(p)
        /\ pc' = "scaleUp"
        /\ todo' = Controllers
        /\ after' = IF Tolerates(p) THEN Following[p] ELSE "report"
        /\ err' = IF Tolerates(p) THEN err ELSE p
        /\ UNCHANGED done
  /\ UNCHANGED <<saved, seen, replicas, restore, queued>>

\* The status of a completed restore is written to a fresh copy.  When its Get
\* fails there is no name to report the error under; when its UpdateStatus
\* fails it is reported on the copy, which has no Reconciling condition.
Finish ==
  /\ pc = "finish"
  /\ \/ /\ WriteStatus([completed |-> TRUE, error |-> None])
        /\ \/ GoOn("idle") /\ NoFault /\ UNCHANGED <<err, seen>>
           \/ Fault("lostReply") /\ GoOn("report") /\ err' = "finish" /\ seen' = None
        /\ UNCHANGED queued
     \/ /\ Fault("statusPut") /\ NoWrite
        /\ GoOn("report") /\ err' = "finish" /\ seen' = None
        /\ UNCHANGED queued
     \/ Fault("statusGet") /\ NoWrite /\ Requeue /\ UNCHANGED <<err, seen>>
  /\ UNCHANGED <<saved, done, replicas, spec, cached>>

\* setReconcilingCondition: an error that is on the condition already is
\* returned; another one is written there, which is what calls the handler
\* again, and returned only when that fails.
Report ==
  /\ pc = "report"
  /\ \/ seen = err /\ Requeue /\ NoWrite /\ NoFault
     \/ /\ seen # err
        /\ \/ /\ WriteStatus([status EXCEPT !.error = err])
              /\ \/ GoOn("idle") /\ NoFault /\ UNCHANGED queued
                 \/ Fault("lostReply") /\ Requeue
           \/ (Fault("statusGet") \/ Fault("statusPut")) /\ NoWrite /\ Requeue
  /\ UNCHANGED <<saved, done, seen, err, replicas, spec, cached>>

-----------------------------------------------------------------------------
(* The informer, the process and the users                                 *)

Deliver ==
  /\ pc # "down"
  /\ watch # <<>>
  /\ cached' = Head(watch)
  /\ watch' = Tail(watch)
  /\ queued' = TRUE
  /\ UNCHANGED <<pc, attempt, replicas, spec, status, counted>>

Touch ==
  /\ pc # "down"
  /\ Fault("touch")
  /\ WriteStatus(status)
  /\ UNCHANGED <<pc, attempt, replicas, spec, cached, queued>>

Crash ==
  /\ pc # "down"
  /\ Fault("crash")
  /\ GoOn("down")
  /\ watch' = <<>>
  /\ queued' = FALSE
  /\ UNCHANGED <<saved, done, seen, err, replicas, spec, status, cached>>

\* The informer lists the Restores and queues them all.
Restart ==
  /\ pc = "down"
  /\ GoOn("idle")
  /\ cached' = status
  /\ queued' = TRUE
  /\ UNCHANGED <<saved, done, seen, err, replicas, spec, status, watch, counted>>

-----------------------------------------------------------------------------
Scale == EndScaling \/ \E c \in Controllers : ScaleDown(c) \/ ScaleUp(c)

Handler ==
  \/ Dequeue \/ Load \/ Scale \/ Finish \/ Report
  \/ \E p \in Phases : Phase(p)

Next == Handler \/ Deliver \/ Touch \/ Crash \/ Restart

Spec == Init /\ [][Next]_vars

\* A worker takes what is queued and goes on with its handler, the API server
\* sends its events, and the kubelet restarts the process.
Fairness == WF_vars(Handler) /\ WF_vars(Deliver) /\ WF_vars(Restart)

FairSpec == Spec /\ Fairness

-----------------------------------------------------------------------------
(* Properties                                                              *)

\* While objects are restored or pruned no controller of the ResourceSet runs
\* ("first stop the controllers", controller.go:229): it would act on a
\* cluster that is half old and half new.  Except when scaling one down fails,
\* which is only logged, and after an error that is ignored: it has scaled
\* them up, and the phases go on.
Quiesced ==
  /\ {"scaleDownGet", "scaleDownPut"} \cap happened = {}
  /\ spec.ignoreErrors => WritePhases \cap happened = {}
  /\ pc \in Phases
  => \A c \in Controllers : replicas[c] = 0

\* Between two attempts, failed or not, the controllers are back at the
\* number of replicas they had before the first one, as long as each of them
\* can be got and scaled up and the process does not crash.
ScaledBackWhenIdle ==
  /\ {"scaleDownGet", "scaleUp", "crash"} \cap happened = {}
  /\ pc \in {"idle", "report", "finish"}
  => replicas = Original

\* What must have succeeded for the restore to be called complete.
Required ==
  (IF spec.ignoreErrors THEN {} ELSE WritePhases)
    \cup (IF spec.prune THEN {"prune"} ELSE {})

\* A Restore becomes completed only by an attempt of which every phase
\* succeeded: phases that succeeded in an earlier attempt do not add up.
CompletedHonest ==
  [][status'.completed /\ ~status.completed => Required \subseteq done]_vars

\* Nobody else has changed the Restore, and no reply to the handler was lost:
\* otherwise an event may bring back the copy from before the completion.
Undisturbed == {"lostReply", "touch"} \cap happened = {}

\* Once a Restore is completed, what users change afterwards is not overwritten
\* or pruned by another attempt, however late the controller learns of it.
RestoredOnce ==
  [][Undisturbed /\ status.completed => pc' \notin Phases]_vars

\* A completed Restore has no Reconciling condition, "because as per kstatus
\* lib its presence is considered an error" (controller.go:288).
CompletedIsClean == Undisturbed /\ status.completed => status.error = None

\* As long as things go wrong only so often, the Restore completes: neither an
\* error that was reported before nor a new one makes the queue forget it.
Completes == <>status.completed

\* What resourceset.go:67 promises: a restore that is over has scaled each
\* controller back to the original count.
ScaledBack == status.completed /\ pc = "idle" => replicas = Original
=============================================================================
