--------------------------- MODULE RestoreRun_proofs ---------------------------
(***************************************************************************)
(* Theorems about RestoreRun, for any controllers and replica counts, any  *)
(* options of the Restore and any number and kinds of faults.              *)
(***************************************************************************)
EXTENDS RestoreRun, TLAPS

\* Every step is one of these.
LEMMA Steps ==
  ASSUME [Next]_vars
  PROVE  \/ Dequeue \/ Load \/ EndScaling
         \/ \E c \in Controllers : ScaleDown(c) \/ ScaleUp(c)
         \/ \E p \in Phases : Phase(p)
         \/ Finish \/ Report
         \/ Deliver \/ Touch \/ Crash \/ Restart
         \/ UNCHANGED vars
  BY DEF Next, Handler, Scale

-----------------------------------------------------------------------------
LEMMA TypeInit == Init => TypeOK
  BY RunAssumption
  DEF Init, TypeOK, Places, Phases, WritePhases, Errors, Status, None

CountedType == faults \in 0..MaxFaults /\ happened \subseteq Faults

LEMMA FaultType == ASSUME NEW k, TypeOK, Fault(k) PROVE CountedType'
  BY RunAssumption DEF TypeOK, Fault, CountedType

LEMMA NoFaultType == ASSUME TypeOK, NoFault PROVE CountedType'
  BY DEF TypeOK, NoFault, counted, CountedType

LEMMA WriteType ==
  ASSUME TypeOK, NEW s \in Status, WriteStatus(s)
  PROVE  status' \in Status /\ watch' \in Seq(Status)
  BY DEF TypeOK, WriteStatus

LEMMA GoOnType ==
  ASSUME NEW p \in Places, GoOn(p)
  PROVE  pc' \in Places /\ todo' \subseteq Controllers /\ after' \in Places
  BY DEF GoOn, Places

LEMMA FollowingType ==
  ASSUME NEW p \in Phases
  PROVE  Following[p] \in {"cluster", "namespaced", "prune", "scaleUp"}
  BY DEF Following, Phases, WritePhases

LEMMA TypeStep == TypeOK /\ [Next]_vars => TypeOK'
<1> SUFFICES ASSUME TypeOK, [Next]_vars PROVE TypeOK'
  OBVIOUS
<1>p. /\ {"load", "scaleDown", "crds", "finish", "report", "idle", "down"} \subseteq Places
      /\ {"cluster", "namespaced", "prune", "scaleUp"} \subseteq Places
      /\ Phases \subseteq Places
  BY DEF Places, Phases, WritePhases
<1>e. {"load", "finish", None} \cup Phases = Errors \cup {None}
  BY DEF Errors, None
<1>1. CASE Dequeue
  <2>1. CASE cached.completed
    BY <1>1, <2>1 DEF Dequeue, TypeOK, attempt, restore, counted
  <2>2. CASE ~cached.completed
    <3>1. GoOn("load") /\ saved' = [c \in Controllers |-> 0] /\ done' = {}
          /\ seen' = cached.error /\ err' = None /\ queued' = FALSE
          /\ UNCHANGED <<replicas, restore, counted>>
      BY <1>1, <2>2 DEF Dequeue
    <3>2. cached.error \in Errors \cup {None}
      BY DEF TypeOK, Status
    <3>3. QED  BY <1>p, <3>1, <3>2, GoOnType DEF TypeOK, restore, counted
  <2>3. QED  BY <2>1, <2>2
<1>2. CASE Load
  <2>1. CountedType'
    BY <1>2, FaultType, NoFaultType DEF Load
  <2>2. pc' \in Places /\ todo' \subseteq Controllers /\ after' \in Places
    BY <1>2, <1>p, GoOnType DEF Load, Requeue
  <2>3. err' \in Errors \cup {None} /\ queued' \in BOOLEAN
    BY <1>2, <1>e DEF Load, Requeue, TypeOK
  <2>4. QED  BY <1>2, <2>1, <2>2, <2>3 DEF Load, TypeOK, restore, CountedType
<1>3. CASE EndScaling
  <2>1. (IF pc = "scaleDown" THEN "crds" ELSE after) \in Places
    BY <1>p DEF TypeOK
  <2>2. QED  BY <1>3, <2>1, GoOnType DEF EndScaling, TypeOK, restore, counted
<1>4. ASSUME NEW c \in Controllers, ScaleDown(c) PROVE TypeOK'
  <2>1. CountedType'
    BY <1>4, FaultType, NoFaultType DEF ScaleDown
  <2>2. saved' \in [Controllers -> Nat] /\ replicas' \in [Controllers -> Nat]
    BY <1>4 DEF ScaleDown, TypeOK
  <2>3. QED  BY <1>4, <2>1, <2>2 DEF ScaleDown, TypeOK, restore, CountedType
<1>5. ASSUME NEW c \in Controllers, ScaleUp(c) PROVE TypeOK'
  <2>1. CountedType'
    BY <1>5, FaultType, NoFaultType DEF ScaleUp
  <2>2. replicas' \in [Controllers -> Nat]
    BY <1>5 DEF ScaleUp, TypeOK
  <2>3. QED  BY <1>5, <2>1, <2>2 DEF ScaleUp, TypeOK, restore, CountedType
<1>6. ASSUME NEW p \in Phases, Phase(p) PROVE TypeOK'
  <2>0. Following[p] \in Places
    BY <1>p, FollowingType
  <2>1. CountedType'
    BY <1>6, FaultType, NoFaultType DEF Phase
  <2>2. pc' \in Places /\ todo' \subseteq Controllers /\ after' \in Places
    BY <1>6, <1>p, <2>0, GoOnType DEF Phase
  <2>3. done' \subseteq Phases /\ err' \in Errors \cup {None}
    BY <1>6, <1>e DEF Phase, TypeOK
  <2>4. QED  BY <1>6, <2>1, <2>2, <2>3 DEF Phase, TypeOK, restore, CountedType
<1>7. CASE Finish
  <2>1. CountedType'
    BY <1>7, FaultType, NoFaultType DEF Finish
  <2>2. pc' \in Places /\ todo' \subseteq Controllers /\ after' \in Places
    BY <1>7, <1>p, GoOnType DEF Finish, Requeue
  <2>3. err' \in Errors \cup {None} /\ seen' \in Errors \cup {None} /\ queued' \in BOOLEAN
    BY <1>7, <1>e DEF Finish, Requeue, TypeOK
  <2>4. [completed |-> TRUE, error |-> None] \in Status
    BY DEF Status
  <2>5. status' \in Status /\ watch' \in Seq(Status)
    BY <1>7, <2>4, WriteType DEF Finish, NoWrite, TypeOK
  <2>6. QED  BY <1>7, <2>1, <2>2, <2>3, <2>5 DEF Finish, TypeOK, CountedType
<1>8. CASE Report
  <2>1. CountedType'
    BY <1>8, FaultType, NoFaultType DEF Report
  <2>2. pc' \in Places /\ todo' \subseteq Controllers /\ after' \in Places
    BY <1>8, <1>p, GoOnType DEF Report, Requeue
  <2>3. queued' \in BOOLEAN
    BY <1>8 DEF Report, Requeue, TypeOK
  <2>4. [status EXCEPT !.error = err] \in Status
    BY DEF Status, TypeOK
  <2>5. status' \in Status /\ watch' \in Seq(Status)
    BY <1>8, <2>4, WriteType DEF Report, NoWrite, TypeOK
  <2>6. QED  BY <1>8, <2>1, <2>2, <2>3, <2>5 DEF Report, TypeOK, CountedType
<1>9. CASE Deliver
  BY <1>9 DEF Deliver, TypeOK, attempt, counted
<1>10. CASE Touch
  <2>1. CountedType'
    BY <1>10, FaultType DEF Touch
  <2>2. status' \in Status /\ watch' \in Seq(Status)
    BY <1>10, WriteType DEF Touch, TypeOK
  <2>3. QED  BY <1>10, <2>1, <2>2 DEF Touch, TypeOK, attempt, CountedType
<1>11. CASE Crash
  <2>1. CountedType'
    BY <1>11, FaultType DEF Crash
  <2>2. watch' \in Seq(Status)
    BY <1>11 DEF Crash
  <2>3. QED  BY <1>11, <1>p, <2>1, <2>2, GoOnType DEF Crash, TypeOK, CountedType
<1>12. CASE Restart
  BY <1>12, <1>p, GoOnType DEF Restart, TypeOK, counted
<1>13. CASE UNCHANGED vars
  BY <1>13 DEF vars, attempt, restore, counted, TypeOK
<1>14. QED
  BY Steps, <1>1, <1>2, <1>3, <1>4, <1>5, <1>6, <1>7, <1>8, <1>9, <1>10, <1>11,
     <1>12, <1>13

\* Every variable keeps its type, whatever goes wrong.
THEOREM TypeCorrect == Spec => []TypeOK
  BY TypeInit, TypeStep, PTL DEF Spec

-----------------------------------------------------------------------------
\* What has happened stays, and the spec of the Restore does not change.
LEMMA History == ASSUME [Next]_vars PROVE happened \subseteq happened' /\ spec' = spec
<1> USE DEF Fault, NoFault, counted, restore
<1>1. CASE Dequeue \/ Load \/ EndScaling
  BY <1>1 DEF Dequeue, Load, EndScaling
<1>2. ASSUME NEW c \in Controllers, ScaleDown(c) \/ ScaleUp(c)
      PROVE  happened \subseteq happened' /\ spec' = spec
  BY <1>2 DEF ScaleDown, ScaleUp
<1>3. ASSUME NEW p \in Phases, Phase(p)
      PROVE  happened \subseteq happened' /\ spec' = spec
  BY <1>3 DEF Phase
<1>4. CASE Finish \/ Report
  BY <1>4 DEF Finish, Report
<1>5. CASE Deliver \/ Touch \/ Crash \/ Restart
  BY <1>5 DEF Deliver, Touch, Crash, Restart
<1>6. CASE UNCHANGED vars
  BY <1>6 DEF vars
<1> QED
  BY Steps, <1>1, <1>2, <1>3, <1>4, <1>5, <1>6

-----------------------------------------------------------------------------
(* Quiesced                                                                *)

\* Scaling down has worked, and no error was ignored.
StopsControllers ==
  /\ {"scaleDownGet", "scaleDownPut"} \cap happened = {}
  /\ spec.ignoreErrors => WritePhases \cap happened = {}

\* While controllers are scaled down, those that are through are stopped, and
\* no phase follows the scaling up.
Stopping ==
  /\ pc \in Phases => \A c \in Controllers : replicas[c] = 0
  /\ pc = "scaleDown" => \A c \in Controllers \ todo : replicas[c] = 0
  /\ pc = "scaleUp" => after \in {"finish", "report"}

QuietInv == TypeOK /\ (StopsControllers => Stopping)

LEMMA QuietStep ==
  ASSUME QuietInv, [Next]_vars
  PROVE  QuietInv'
<1>t. TypeOK /\ TypeOK'
  BY TypeStep DEF QuietInv
<1>h. SUFFICES ASSUME StopsControllers' PROVE Stopping'
  BY <1>t DEF QuietInv
<1>i. Stopping
  BY History, <1>h DEF QuietInv, StopsControllers
<1>p. /\ Phases = {"crds", "cluster", "namespaced", "prune"}
      /\ "scaleDown" \notin Phases /\ "scaleUp" \notin Phases
      /\ "idle" \notin Phases /\ "load" \notin Phases /\ "down" \notin Phases
      /\ "finish" \notin Phases /\ "report" \notin Phases
  BY DEF Phases, WritePhases
<1>1. CASE Dequeue
  BY <1>1, <1>p, <1>t, <1>i
  DEF Dequeue, GoOn, Stopping, attempt
<1>2. CASE Load
  BY <1>2, <1>p, <1>i DEF Load, GoOn, Requeue, Stopping
<1>3. CASE EndScaling
  BY <1>3, <1>p, <1>i DEF EndScaling, GoOn, Stopping
<1>4. ASSUME NEW c \in Controllers, ScaleDown(c) PROVE Stopping'
  <2>1. replicas' = [replicas EXCEPT ![c] = 0]
    BY <1>4, <1>h DEF ScaleDown, Fault, StopsControllers
  <2>2. pc = "scaleDown" /\ pc' = "scaleDown" /\ todo' = todo \ {c}
    BY <1>4 DEF ScaleDown
  <2>3. \A d \in Controllers \ todo' : replicas'[d] = 0
    BY <1>t, <1>i, <2>1, <2>2 DEF Stopping, TypeOK
  <2>4. QED  BY <1>p, <1>t, <2>2, <2>3 DEF Stopping
<1>5. ASSUME NEW c \in Controllers, ScaleUp(c) PROVE Stopping'
  BY <1>5, <1>p, <1>i DEF ScaleUp, Stopping
<1>6. ASSUME NEW p \in Phases, Phase(p) PROVE Stopping'
  <2>1. UNCHANGED replicas /\ (pc' \in Phases \/ pc' = "scaleUp") /\ pc \in Phases
    BY <1>6, <1>p, FollowingType DEF Phase, GoOn
  <2>2. pc' = "scaleUp" => after' \in {"finish", "report"}
    <3>1. CASE GoOn(Following[p])
      BY <3>1 DEF GoOn
    <3>2. CASE Fault(p) /\ after' = IF Tolerates(p) THEN Following[p] ELSE "report"
      <4>1. p = "prune" \/ ~spec.ignoreErrors
        BY <1>h, <3>2, History DEF Fault, StopsControllers, Phases
      <4> QED
        BY <3>2, <4>1 DEF Tolerates
    <3> QED
      BY <1>6, <3>1, <3>2 DEF Phase
  <2>3. pc' # "scaleDown"
    BY <1>p, <2>1
  <2>4. QED  BY <1>i, <2>1, <2>2, <2>3 DEF Stopping
<1>7. CASE Finish
  BY <1>7, <1>p, <1>i DEF Finish, GoOn, Requeue, Stopping
<1>8. CASE Report
  BY <1>8, <1>p, <1>i DEF Report, GoOn, Requeue, Stopping
<1>9. CASE Deliver \/ Touch
  BY <1>9, <1>i DEF Deliver, Touch, Stopping, attempt
<1>10. CASE Crash \/ Restart
  BY <1>10, <1>p, <1>i DEF Crash, Restart, GoOn, Stopping
<1>11. CASE UNCHANGED vars
  BY <1>11, <1>i DEF vars, attempt, Stopping
<1>12. QED
  BY Steps, <1>1, <1>2, <1>3, <1>4, <1>5, <1>6, <1>7, <1>8, <1>9, <1>10, <1>11

\* Nothing is written or pruned while a controller of the ResourceSet runs,
\* whatever else fails or crashes and however often the restore is attempted.
THEOREM QuietDuringPhases == Spec => []Quiesced
<1>1. Init => QuietInv
  BY TypeInit DEF Init, QuietInv, Stopping, Phases, WritePhases
<1>2. QuietInv => Quiesced
  BY DEF QuietInv, Stopping, StopsControllers, Quiesced
<1>3. QED  BY <1>1, <1>2, QuietStep, PTL DEF Spec

-----------------------------------------------------------------------------
(* ScaledBackWhenIdle                                                      *)

\* Every controller was got and scaled up, and the process has not crashed.
Scales == {"scaleDownGet", "scaleUp", "crash"} \cap happened = {}

\* Where the original number of replicas of a controller is known.
Known ==
  /\ pc \in {"idle", "report", "finish", "load"} => replicas = Original
  /\ pc = "scaleDown" =>
       \A c \in Controllers :
         (IF c \in todo THEN replicas[c] ELSE saved[c]) = Original[c]
  /\ pc \in Phases \cup {"scaleUp"} => saved = Original
  /\ pc = "scaleUp" =>
       \A c \in Controllers \ todo : replicas[c] = Original[c]
  /\ pc # "down"
  /\ after \in {"finish", "report", "cluster", "namespaced", "prune", "scaleUp"}

BackInv == TypeOK /\ (Scales => Known)

LEMMA BackStep ==
  ASSUME BackInv, [Next]_vars
  PROVE  BackInv'
<1>t. TypeOK /\ TypeOK'
  BY TypeStep DEF BackInv
<1>h. SUFFICES ASSUME Scales' PROVE Known'
  BY <1>t DEF BackInv
<1>i. Known
  BY History, <1>h DEF BackInv, Scales
<1>p. Phases = {"crds", "cluster", "namespaced", "prune"}
  BY DEF Phases, WritePhases
<1>o. Original \in [Controllers -> Nat]
  BY RunAssumption
<1>1. CASE Dequeue
  BY <1>1, <1>p, <1>t, <1>i DEF Dequeue, GoOn, Known, attempt
<1>2. CASE Load
  BY <1>2, <1>p, <1>t, <1>i, <1>o
  DEF Load, GoOn, Requeue, Known, TypeOK
<1>3. CASE EndScaling
  <2>1. CASE pc = "scaleDown"
    <3>1. saved = Original
      BY <1>3, <1>t, <1>i, <1>o, <2>1 DEF EndScaling, Known, TypeOK
    <3>2. QED
      BY <1>3, <1>p, <1>t, <1>i, <2>1, <3>1
      DEF EndScaling, GoOn, Known
  <2>2. CASE pc = "scaleUp"
    <3>1. replicas = Original
      BY <1>3, <1>t, <1>i, <1>o, <2>2 DEF EndScaling, Known, TypeOK
    <3>2. QED
      BY <1>3, <1>p, <1>t, <1>i, <2>2, <3>1
      DEF EndScaling, GoOn, Known
  <2>3. QED  BY <1>3, <2>1, <2>2 DEF EndScaling
<1>4. ASSUME NEW c \in Controllers, ScaleDown(c) PROVE Known'
  <2>1. /\ saved' = [saved EXCEPT ![c] = replicas[c]]
        /\ replicas' \in {[replicas EXCEPT ![c] = 0], replicas}
    BY <1>4, <1>h DEF ScaleDown, Fault, Scales
  <2>2. /\ pc = "scaleDown" /\ pc' = "scaleDown" /\ c \in todo
        /\ todo' = todo \ {c} /\ after' = after
    BY <1>4 DEF ScaleDown
  <2>3. ASSUME NEW d \in Controllers
        PROVE  (IF d \in todo' THEN replicas'[d] ELSE saved'[d]) = Original[d]
    <3>1. CASE d = c
      BY <1>t, <1>i, <2>1, <2>2, <3>1 DEF Known, TypeOK
    <3>2. CASE d # c
      BY <1>t, <1>i, <2>1, <2>2, <3>2 DEF Known, TypeOK
    <3>3. QED  BY <3>1, <3>2
  <2>4. QED
    BY <1>p, <1>t, <1>i, <2>2, <2>3 DEF Known
<1>5. ASSUME NEW c \in Controllers, ScaleUp(c) PROVE Known'
  <2>1. replicas' = [replicas EXCEPT ![c] = saved[c]]
    BY <1>5, <1>h DEF ScaleUp, Fault, Scales
  <2>2. /\ pc = "scaleUp" /\ pc' = "scaleUp" /\ todo' = todo \ {c}
        /\ UNCHANGED <<after, saved>> /\ saved = Original
    BY <1>5, <1>i DEF ScaleUp, Known
  <2>3. \A d \in Controllers \ todo' : replicas'[d] = Original[d]
    BY <1>t, <1>i, <2>1, <2>2 DEF Known, TypeOK
  <2>4. QED
    BY <1>p, <1>t, <1>i, <2>2, <2>3 DEF Known
<1>6. ASSUME NEW p \in Phases, Phase(p) PROVE Known'
  <2>1. /\ pc' \in Phases \cup {"scaleUp"} /\ pc \in Phases
        /\ UNCHANGED saved
    BY <1>6, <1>p, FollowingType DEF Phase, GoOn
  <2>2. pc' = "scaleUp" => todo' = Controllers
    BY <1>6 DEF Phase, GoOn
  <2>3. after' \in {"finish", "report", "cluster", "namespaced", "prune", "scaleUp"}
    BY <1>6, FollowingType DEF Phase, GoOn
  <2>4. pc' \notin {"idle", "report", "finish", "load", "scaleDown", "down"}
    BY <1>p, <2>1
  <2>5. QED
    BY <1>t, <1>i, <2>1, <2>2, <2>3, <2>4 DEF Known
<1>7. CASE Finish
  BY <1>7, <1>p, <1>t, <1>i DEF Finish, GoOn, Requeue, Known
<1>8. CASE Report
  BY <1>8, <1>p, <1>t, <1>i DEF Report, GoOn, Requeue, Known
<1>9. CASE Deliver \/ Touch
  BY <1>9, <1>t, <1>i DEF Deliver, Touch, Known, attempt
<1>10. CASE Crash \/ Restart
  BY <1>10, <1>h, <1>i DEF Crash, Restart, Fault, Scales, Known
<1>11. CASE UNCHANGED vars
  BY <1>11, <1>i DEF vars, attempt, Known
<1>12. QED
  BY Steps, <1>1, <1>2, <1>3, <1>4, <1>5, <1>6, <1>7, <1>8, <1>9, <1>10, <1>11

\* When an attempt is over the controllers have their replicas back, also when
\* they were scaled up more than once because errors are ignored, and when
\* one of them could not be scaled down.
THEOREM ControllersComeBack == Spec => []ScaledBackWhenIdle
<1>1. Init => BackInv
  BY TypeInit, RunAssumption DEF Init, BackInv, Known, Phases, WritePhases
<1>2. BackInv => ScaledBackWhenIdle
  BY DEF BackInv, Known, Scales, ScaledBackWhenIdle
<1>3. QED  BY <1>1, <1>2, BackStep, PTL DEF Spec

-----------------------------------------------------------------------------
(* CompletedHonest                                                         *)

\* The phases that come before a place.
Before(p) ==
  CASE p = "cluster" -> {"crds"}
    [] p = "namespaced" -> {"crds", "cluster"}
    [] p = "prune" -> WritePhases
    [] p \in {"scaleUp", "finish"} -> Phases
    [] OTHER -> {}

HonestInv ==
  /\ TypeOK
  /\ pc # "scaleUp" => Required \cap Before(pc) \subseteq done
  /\ pc = "scaleUp" => Required \cap Before(after) \subseteq done

LEMMA HonestStep == HonestInv /\ [Next]_vars => HonestInv'
<1> SUFFICES ASSUME HonestInv, [Next]_vars PROVE HonestInv'
  OBVIOUS
<1>t. TypeOK /\ TypeOK'
  BY TypeStep DEF HonestInv
<1>q. Required' = Required
  BY History DEF Required
<1>p. /\ Phases = {"crds", "cluster", "namespaced", "prune"}
      /\ WritePhases = {"crds", "cluster", "namespaced"}
  BY DEF Phases, WritePhases
<1>b. /\ \A p : p \notin {"cluster", "namespaced", "prune", "scaleUp", "finish"}
                  => Before(p) = {}
      /\ Before("cluster") = {"crds"} /\ Before("namespaced") = {"crds", "cluster"}
      /\ Before("prune") = {"crds", "cluster", "namespaced"}
      /\ Before("scaleUp") = Phases /\ Before("finish") = Phases
  BY <1>p DEF Before
<1>1. CASE pc' \in {"idle", "down", "load", "scaleDown", "crds", "report"}
  <2>1. Before(pc') = {}
    BY <1>1, <1>b
  <2>2. QED  BY <1>1, <1>t, <1>q, <2>1 DEF HonestInv
<1>2. CASE UNCHANGED <<pc, after, done>>
  BY <1>2, <1>t, <1>q DEF HonestInv
<1>3. CASE EndScaling /\ pc = "scaleUp"
  <2>1. pc' = after /\ after' = "finish" /\ done' = done
    BY <1>3 DEF EndScaling, GoOn
  <2>2. Required \cap Before(after) \subseteq done
    BY <1>3 DEF HonestInv
  <2>3. CASE after = "scaleUp"
    BY <1>b, <1>t, <1>q, <2>1, <2>2, <2>3 DEF HonestInv
  <2>4. CASE after # "scaleUp"
    BY <1>t, <1>q, <2>1, <2>2, <2>4 DEF HonestInv
  <2>5. QED  BY <2>3, <2>4
<1>4. ASSUME NEW p \in Phases, Phase(p) PROVE HonestInv'
  <2>0. /\ Required \cap Before(p) \subseteq done
        /\ Following["crds"] = "cluster" /\ Following["cluster"] = "namespaced"
        /\ Following["prune"] = "scaleUp"
        /\ Following["namespaced"] = IF spec.prune THEN "prune" ELSE "scaleUp"
    BY <1>4, <1>p DEF Phase, HonestInv, Following
  <2>r. Required = (IF spec.ignoreErrors THEN {} ELSE {"crds", "cluster", "namespaced"})
                     \cup (IF spec.prune THEN {"prune"} ELSE {})
    BY <1>p DEF Required
  <2>1. Required \cap Before(Following[p]) \subseteq done \cup {p}
    BY <1>b, <1>p, <2>0, <2>r
  <2>2. CASE GoOn(Following[p]) /\ done' = done \cup {p}
    <3>1. pc' = Following[p] /\ after' = "finish"
      BY <2>2 DEF GoOn
    <3>2. CASE pc' # "scaleUp"
      BY <1>t, <1>q, <2>1, <2>2, <3>1, <3>2 DEF HonestInv
    <3>3. CASE pc' = "scaleUp"
      BY <1>b, <1>t, <1>q, <2>1, <2>2, <3>1, <3>3 DEF HonestInv
    <3>4. QED  BY <3>2, <3>3
  <2>3. CASE /\ pc' = "scaleUp" /\ done' = done
             /\ after' = IF Tolerates(p) THEN Following[p] ELSE "report"
    <3>1. CASE Tolerates(p)
      <4>1. Required \cap Before(Following[p]) \subseteq done
        BY <1>b, <1>p, <2>0, <2>r, <3>1 DEF Tolerates
      <4>2. QED  BY <1>t, <1>q, <2>3, <3>1, <4>1 DEF HonestInv
    <3>2. CASE ~Tolerates(p)
      BY <1>b, <1>t, <1>q, <2>3, <3>2 DEF HonestInv
    <3>3. QED  BY <3>1, <3>2
  <2>4. QED  BY <1>4, <2>2, <2>3 DEF Phase
<1>5. CASE Dequeue \/ Load
  BY <1>1, <1>2, <1>5 DEF Dequeue, Load, GoOn, Requeue, attempt
<1>6. CASE EndScaling
  BY <1>1, <1>3, <1>6 DEF EndScaling, GoOn
<1>7. ASSUME NEW c \in Controllers, ScaleDown(c) \/ ScaleUp(c) PROVE HonestInv'
  BY <1>2, <1>7 DEF ScaleDown, ScaleUp
<1>8. CASE Finish \/ Report
  BY <1>1, <1>8 DEF Finish, Report, GoOn, Requeue
<1>9. CASE Deliver \/ Touch
  BY <1>2, <1>9 DEF Deliver, Touch, attempt
<1>10. CASE Crash \/ Restart
  BY <1>1, <1>10 DEF Crash, Restart, GoOn
<1>11. CASE UNCHANGED vars
  BY <1>2, <1>11 DEF vars, attempt
<1>12. QED
  BY Steps, <1>4, <1>5, <1>6, <1>7, <1>8, <1>9, <1>10, <1>11

\* A Restore is never called completed by an attempt that skipped or failed a
\* phase it must not, whatever went wrong before and however often.
THEOREM CompletionIsEarned == Spec => CompletedHonest
<1>1. Init => HonestInv
  BY TypeInit DEF Init, HonestInv, Before
<1>2. HonestInv /\ [Next]_vars =>
        [status'.completed /\ ~status.completed => Required \subseteq done]_vars
  <2> SUFFICES ASSUME HonestInv, [Next]_vars,
                      status'.completed, ~status.completed
               PROVE  Required \subseteq done
    OBVIOUS
  <2>1. status' # status
    OBVIOUS
  <2>2. CASE Finish
    <3>1. pc = "finish" /\ Before("finish") = Phases
      BY <2>2 DEF Finish, Before
    <3>2. QED
      BY <3>1 DEF HonestInv, Required, Phases
  <2>3. CASE Report
    <3>1. status' = [status EXCEPT !.error = err]
      BY <2>1, <2>3 DEF Report, WriteStatus, NoWrite
    <3>2. status'.completed = status.completed
      BY <3>1 DEF HonestInv, TypeOK, Status
    <3>3. QED  BY <3>2
  <2>4. CASE Touch
    BY <2>1, <2>4 DEF Touch, WriteStatus
  <2>5. Finish \/ Report \/ Touch
    <3>1. ~Dequeue /\ ~Load /\ ~EndScaling
      BY <2>1 DEF Dequeue, Load, EndScaling, restore
    <3>2. \A c \in Controllers : ~ScaleDown(c) /\ ~ScaleUp(c)
      BY <2>1 DEF ScaleDown, ScaleUp, restore
    <3>3. \A p \in Phases : ~Phase(p)
      BY <2>1 DEF Phase, restore
    <3>4. ~Deliver /\ ~Crash /\ ~Restart /\ ~UNCHANGED vars
      BY <2>1 DEF Deliver, Crash, Restart, vars, restore
    <3>5. QED  BY Steps, <3>1, <3>2, <3>3, <3>4
  <2>6. QED  BY <2>2, <2>3, <2>4, <2>5
<1>3. QED  BY <1>1, <1>2, HonestStep, PTL DEF Spec, CompletedHonest

-----------------------------------------------------------------------------
(* RestoredOnce and CompletedIsClean                                       *)

\* A handler runs on the newest copy and with nothing on its way; between two
\* handlers at most the event of the last one is.
UpToDate ==
  /\ pc = "down" => watch = <<>>
  /\ pc = "idle" => \/ watch = <<>> /\ cached = status
                    \/ watch = <<status>> /\ ~queued
  /\ pc \notin {"idle", "down"} =>
       ~queued /\ watch = <<>> /\ cached = status /\ ~status.completed
  /\ status.completed => status.error = None

OnceInv == TypeOK /\ (Undisturbed => UpToDate)

LEMMA OnceStep ==
  ASSUME OnceInv, [Next]_vars
  PROVE  OnceInv'
<1>t. TypeOK /\ TypeOK'
  BY TypeStep DEF OnceInv
<1>h. SUFFICES ASSUME Undisturbed' PROVE UpToDate'
  BY <1>t DEF OnceInv
<1>i. UpToDate
  BY History, <1>h DEF OnceInv, Undisturbed
<1>p. "idle" \notin Phases /\ "down" \notin Phases
  BY DEF Phases, WritePhases
<1>s. \A x \in Status : /\ Append(<<>>, x) = <<x>>
                        /\ Head(<<x>>) = x /\ Tail(<<x>>) = <<>> /\ <<x>> # <<>>
  OBVIOUS
<1>1. CASE Dequeue
  BY <1>1, <1>i DEF Dequeue, GoOn, UpToDate, restore, attempt
<1>2. CASE Load
  BY <1>2, <1>i DEF Load, GoOn, Requeue, UpToDate, restore
<1>3. CASE EndScaling
  BY <1>3, <1>i DEF EndScaling, GoOn, UpToDate, restore
<1>4. ASSUME NEW c \in Controllers, ScaleDown(c) \/ ScaleUp(c) PROVE UpToDate'
  BY <1>4, <1>i DEF ScaleDown, ScaleUp, UpToDate, restore
<1>5. ASSUME NEW p \in Phases, Phase(p) PROVE UpToDate'
  <2>1. pc \notin {"idle", "down"} /\ UNCHANGED <<restore, queued>>
    BY <1>5, <1>p DEF Phase
  <2>2. pc' \notin {"idle", "down"}
    BY <1>5, FollowingType DEF Phase, GoOn
  <2>3. QED  BY <1>i, <2>1, <2>2 DEF UpToDate, restore
<1>6. CASE Finish
  <2>1. watch = <<>> /\ cached = status /\ ~queued /\ cached' = cached
        /\ ~status.completed
    BY <1>6, <1>i DEF Finish, UpToDate
  <2>2. CASE WriteStatus([completed |-> TRUE, error |-> None]) /\ GoOn("idle") /\ UNCHANGED queued
    <3>1. watch' = <<status'>>
      BY <2>1, <2>2 DEF WriteStatus
    <3>2. status'.error = None
      BY <2>2 DEF WriteStatus
    <3>3. pc' = "idle" /\ queued' = queued
      BY <2>2 DEF GoOn
    <3>4. QED  BY <2>1, <3>1, <3>2, <3>3 DEF UpToDate
  <2>3. CASE NoWrite /\ ((GoOn("report") /\ UNCHANGED queued) \/ Requeue)
    BY <1>i, <2>1, <2>3 DEF NoWrite, GoOn, Requeue, UpToDate
  <2>4. QED
    BY <1>6, <1>h, <2>2, <2>3 DEF Finish, Fault, Undisturbed
<1>7. CASE Report
  <2>1. watch = <<>> /\ cached = status /\ ~queued /\ cached' = cached
        /\ ~status.completed
    BY <1>7, <1>i DEF Report, UpToDate
  <2>2. CASE /\ WriteStatus([status EXCEPT !.error = err])
             /\ GoOn("idle") /\ UNCHANGED queued
    <3>1. watch' = <<status'>>
      BY <2>1, <2>2 DEF WriteStatus
    <3>2. ~status'.completed
      BY <1>t, <2>1, <2>2 DEF WriteStatus, TypeOK, Status
    <3>3. pc' = "idle" /\ queued' = queued
      BY <2>2 DEF GoOn
    <3>4. QED  BY <2>1, <3>1, <3>2, <3>3 DEF UpToDate
  <2>3. CASE NoWrite /\ Requeue
    BY <1>i, <2>1, <2>3 DEF NoWrite, GoOn, Requeue, UpToDate
  <2>4. QED
    BY <1>7, <1>h, <2>2, <2>3 DEF Report, Fault, Undisturbed
<1>8. CASE Deliver
  <2>1. pc = "idle" /\ watch = <<status>> /\ pc' = pc /\ status' = status
        /\ cached' = Head(watch) /\ watch' = Tail(watch)
    BY <1>8, <1>i DEF Deliver, UpToDate
  <2>2. cached' = status' /\ watch' = <<>>
    BY <1>s, <1>t, <2>1 DEF TypeOK
  <2>3. QED  BY <1>i, <2>1, <2>2 DEF UpToDate
<1>9. CASE Touch
  BY <1>9, <1>h DEF Touch, Fault, Undisturbed
<1>10. CASE Crash \/ Restart
  BY <1>10, <1>i DEF Crash, Restart, GoOn, UpToDate
<1>11. CASE UNCHANGED vars
  BY <1>11, <1>i DEF vars, restore, UpToDate
<1>12. QED
  BY Steps, <1>1, <1>2, <1>3, <1>4, <1>5, <1>6, <1>7, <1>8, <1>9, <1>10, <1>11

\* A completed Restore is not run again, although the controller decides that
\* on a cached copy: the attempt that completes it leaves nothing queued.
\* Crashes and failed calls do not matter; an UpdateStatus that is applied but
\* returns an error, or an edit of the Restore by somebody else, does.
THEOREM NotRunAgain == Spec => RestoredOnce
<1>1. Init => OnceInv
  BY TypeInit DEF Init, OnceInv, UpToDate
<1>2. OnceInv /\ [Next]_vars =>
        [Undisturbed /\ status.completed => pc' \notin Phases]_vars
  <2> SUFFICES ASSUME OnceInv, [Next]_vars, Undisturbed, status.completed
               PROVE  pc' \notin Phases
    OBVIOUS
  <2>1. pc \in {"idle", "down"}
    BY DEF OnceInv, UpToDate
  <2>2. {"idle", "down", "load"} \cap Phases = {}
    BY DEF Phases, WritePhases
  <2>3. pc' \in {"idle", "down", "load"}
    <3>1. \A p \in Phases : ~Phase(p)
      BY <2>1, <2>2 DEF Phase
    <3>2. ~Load /\ ~EndScaling /\ ~Finish /\ ~Report
      BY <2>1 DEF Load, EndScaling, Finish, Report
    <3>3. \A c \in Controllers : ~ScaleDown(c) /\ ~ScaleUp(c)
      BY <2>1 DEF ScaleDown, ScaleUp
    <3>4. Dequeue \/ Deliver \/ Touch \/ Crash \/ Restart \/ UNCHANGED vars
      BY Steps, <3>1, <3>2, <3>3
    <3>5. QED
      BY <2>1, <3>4 DEF Dequeue, Deliver, Touch, Crash, Restart, GoOn, vars, attempt
  <2>4. QED  BY <2>2, <2>3
<1>3. QED  BY <1>1, <1>2, OnceStep, PTL DEF Spec, RestoredOnce

\* A completed Restore is not left with the condition of an error.
THEOREM CompletionIsClean == Spec => []CompletedIsClean
<1>1. Init => OnceInv
  BY TypeInit DEF Init, OnceInv, UpToDate
<1>2. OnceInv => CompletedIsClean
  BY DEF OnceInv, UpToDate, CompletedIsClean
<1>3. QED  BY <1>1, <1>2, OnceStep, PTL DEF Spec
=============================================================================
