------------------------ MODULE BackupController_proofs ------------------------
(***************************************************************************)
(* Proofs about BackupController, for all schedules, bounds and faults: its*)
(* types, that a Backup that always had a schedule is never forgotten, and *)
(* that a one-time Backup is not processed twice.                          *)
(*                                                                         *)
(* The argument for WakesUpInTime: when the handler returns and leaves the *)
(* Backup alone, the copy it decided on was the current one, and it found  *)
(* the next snapshot still ahead; so it had asked to be called then.       *)
(*                                                                         *)
(* The argument for NotRepeated: until a write of the handler has reached  *)
(* the informer nothing calls the handler, so that it always decides on the*)
(* current copy.                                                           *)
(***************************************************************************)
EXTENDS BackupController, SequenceTheorems, TLAPS

\* What EnqueueAt leaves in the timer.
LEMMA EarlierTime ==
  ASSUME NEW t \in Nat, timer \in Nat, EnqueueAt(t)
  PROVE  timer' \in Nat /\ timer' <= t /\ (t # 0 => timer' # 0)
BY DEF EnqueueAt

\* Every schedule has a next time.
LEMMA NextIsLater ==
  ASSUME NEW s \in Nat \ {0}, NEW t \in Nat
  PROVE  NextAt(s, t) \in Nat
<1>1. t \div s \in Nat
  OBVIOUS
<1> QED BY <1>1 DEF NextAt

\* The handler goes on to a step of its own.
LEMMA CheckType ==
  ASSUME NEW b
  PROVE  Check(b) \in {"idle", "setType", "observe", "backup", "report"}
BY DEF Check

-----------------------------------------------------------------------------
(* Types                                                                   *)

\* Times and schedules are numbers.
LEMMA NumberTypes ==
  ASSUME TypeOK, BackupAssumption
  PROVE  /\ now \in Nat
         /\ job.schedule \in Schedules
         /\ job.schedule \in Nat
         /\ cached.next \in Nat
<1>1. now \in Nat
  BY DEF TypeOK, BackupAssumption
<1>2. job \in Backup /\ cached \in Backup
  BY DEF TypeOK
<1>3. job.schedule \in Schedules /\ cached.next \in Nat
  BY <1>2 DEF Backup
<1>4. Schedules \subseteq Nat
  BY DEF BackupAssumption
<1> QED BY <1>1, <1>3, <1>4

\* An edit makes a Backup of a Backup.
LEMMA EditedType ==
  ASSUME NEW b \in Backup, NEW s \in Schedules
  PROVE  /\ [b EXCEPT !.generation = @ + 1, !.schedule = s] \in Backup
         /\ [b EXCEPT !.generation = @ + 1, !.schedule = s].type = b.type
<1>1. b.generation \in Nat
  BY DEF Backup
<1>2. b.generation + 1 \in Nat
  BY <1>1
<1> QED BY <1>2 DEF Backup

\* Writing a Backup keeps the types of what the API server holds.
LEMMA WriteType ==
  ASSUME TypeOK, NEW b \in Backup, Write(b)
  PROVE  backup' \in Backup /\ watch' \in Seq(Backup)
BY DEF TypeOK, Write

\* A fault counts.
LEMMA FaultType ==
  ASSUME TypeOK, BackupAssumption, (\E k \in FaultKinds : Fault(k)) \/ NoFault
  PROVE  faults' \in 0..MaxFaults /\ happened' \subseteq Faults
BY DEF TypeOK, BackupAssumption, Fault, NoFault, counted

\* A step of the handler that writes its copy keeps the types.
LEMMA UpdateCopyType ==
  ASSUME TypeOK, BackupAssumption, NEW b \in Backup, UpdateCopy(b)
  PROVE  /\ backup' \in Backup
         /\ watch' \in Seq(Backup)
         /\ pc' = "idle"
         /\ queued' \in BOOLEAN
         /\ faults' \in 0..MaxFaults /\ happened' \subseteq Faults
<1>1. faults' \in 0..MaxFaults /\ happened' \subseteq Faults
  BY FaultType DEF UpdateCopy, FaultKinds
<1>2. backup' \in Backup /\ watch' \in Seq(Backup)
  BY WriteType DEF UpdateCopy, NoWrite, TypeOK
<1>3. pc' = "idle" /\ queued' \in BOOLEAN
  BY DEF UpdateCopy, Return, ReturnError, TypeOK
<1> QED BY <1>1, <1>2, <1>3

LEMMA TypeInit == BackupAssumption /\ Init => TypeOK
<1> SUFFICES ASSUME BackupAssumption, Init PROVE TypeOK
  OBVIOUS
<1>1. PICK s \in Schedules :
        backup = [generation |-> 1, schedule |-> s, type |-> "", observed |-> 0,
                  last |-> 0, next |-> 0, error |-> None]
  BY DEF Init
<1>2. backup \in Backup
  BY <1>1 DEF Backup
<1>3. now = 1 /\ edits = 0 /\ faults = 0 /\ watch = <<>>
  BY DEF Init
<1>4. now \in 1..MaxTime /\ edits \in 0..MaxEdits /\ faults \in 0..MaxFaults
  BY <1>3 DEF BackupAssumption
<1>5. watch \in Seq(Backup)
  BY <1>3
<1> QED BY <1>2, <1>4, <1>5 DEF Init, TypeOK

\* Every step keeps the types.
LEMMA TypeStep == BackupAssumption /\ TypeOK /\ [Next]_vars => TypeOK'
<1> SUFFICES ASSUME BackupAssumption, TypeOK, [Next]_vars PROVE TypeOK'
  OBVIOUS
<1>1. CASE Dequeue
  <2>1. pc' \in {"idle", "setType", "observe", "backup", "report"}
    BY <1>1, CheckType DEF Dequeue
  <2>2. timer' \in Nat
    BY <1>1, EarlierTime DEF Dequeue, TypeOK, Backup
  <2>3. job' \in Backup /\ seen' \in Errors \cup {None}
    BY <1>1 DEF Dequeue, TypeOK, Backup
  <2>4. err' \in Errors \cup {None}
    BY <1>1 DEF Dequeue, Errors
  <2> QED
    BY <1>1, <2>1, <2>2, <2>3, <2>4 DEF Dequeue, TypeOK, object, bounds, users, counted
<1>2. CASE SetType
  <2>1. [job EXCEPT !.type = TypeOf(job)] \in Backup
    BY DEF TypeOK, Backup, TypeOf
  <2> QED BY <1>2, <2>1, UpdateCopyType DEF SetType, TypeOK, handler, users
<1>3. CASE Observe
  <2>1. Observed(job) \in Backup
    BY DEF TypeOK, Backup, Observed
  <2> QED BY <1>3, <2>1, UpdateCopyType DEF Observe, TypeOK, handler, users
<1>4. CASE Perform
  <2>1. faults' \in 0..MaxFaults /\ happened' \subseteq Faults
    BY <1>4, FaultType DEF Perform, FaultKinds
  <2> QED BY <1>4, <2>1 DEF Perform, TypeOK, object, Errors, users
<1>5. CASE Finish
  <2>1. job.schedule \in Nat /\ now \in Nat
    BY NumberTypes
  <2>2. job.schedule # NoSchedule => NextAt(job.schedule, now) \in Nat
    BY <2>1, NextIsLater DEF NoSchedule
  <2>3. Completed(backup) \in Backup
    BY <2>1, <2>2 DEF Completed, TypeOK, Backup
  <2>4. backup' \in Backup /\ watch' \in Seq(Backup)
    BY <1>5, <2>3, WriteType DEF Finish, NoWrite, TypeOK
  <2>5. timer' \in Nat
    BY <1>5, <2>2, EarlierTime DEF Finish, TypeOK
  <2>6. faults' \in 0..MaxFaults /\ happened' \subseteq Faults
    BY <1>5, FaultType DEF Finish, FaultKinds
  <2>7. pc' \in {"idle", "report"} /\ queued' \in BOOLEAN
    BY <1>5 DEF Finish, Return, ReturnError, TypeOK
  <2>8. seen' \in Errors \cup {None} /\ err' \in Errors \cup {None}
    BY <1>5 DEF Finish, Errors, TypeOK
  <2> QED BY <1>5, <2>4, <2>5, <2>6, <2>7, <2>8 DEF Finish, TypeOK, users
<1>6. CASE Report
  <2>1. [backup EXCEPT !.error = err] \in Backup
    BY DEF TypeOK, Backup
  <2>2. backup' \in Backup /\ watch' \in Seq(Backup)
    BY <1>6, <2>1, WriteType DEF Report, NoWrite, TypeOK
  <2>3. faults' \in 0..MaxFaults /\ happened' \subseteq Faults
    BY <1>6, FaultType DEF Report, FaultKinds
  <2> QED BY <1>6, <2>2, <2>3 DEF Report, ReturnError, TypeOK, handler, users
<1>7. CASE Edit
  <2>1. PICK s \in Schedules :
          /\ Write([backup EXCEPT !.generation = @ + 1, !.schedule = s])
          /\ unscheduled' = (unscheduled \/ s = NoSchedule)
    BY <1>7 DEF Edit
  <2>2. [backup EXCEPT !.generation = @ + 1, !.schedule = s] \in Backup
    BY EditedType DEF TypeOK
  <2>3. edits' \in 0..MaxEdits /\ unscheduled' \in BOOLEAN
    BY <1>7 DEF Edit, TypeOK, BackupAssumption
  <2> QED BY <1>7, <2>1, <2>2, <2>3, WriteType DEF Edit, TypeOK, handler, counted
<1>8. CASE Deliver
  <2>1. cached' \in Backup /\ watch' \in Seq(Backup)
    BY <1>8 DEF Deliver, TypeOK
  <2> QED BY <1>8, <2>1 DEF Deliver, TypeOK, handler, bounds, users, counted
<1>9. CASE Ring
  BY <1>9 DEF Ring, TypeOK, handler, object, bounds, users, counted
<1>10. CASE Tick
  BY <1>10 DEF Tick, TypeOK, handler, object, bounds, users, counted, BackupAssumption
<1>11. CASE Crash
  <2>1. faults' \in 0..MaxFaults /\ happened' \subseteq Faults
    BY <1>11, FaultType DEF Crash, FaultKinds
  <2>2. watch' \in Seq(Backup)
    BY <1>11 DEF Crash
  <2> QED BY <1>11, <2>1, <2>2 DEF Crash, TypeOK, handler, users
<1>12. CASE Restart
  <2>1. watch' \in Seq(Backup)
    BY <1>12 DEF Restart
  <2> QED BY <1>12, <2>1 DEF Restart, TypeOK, handler, bounds, users, counted
<1>13. CASE UNCHANGED vars
  BY <1>13 DEF vars, TypeOK, handler, object, bounds, users, counted
<1> QED
  BY <1>1, <1>2, <1>3, <1>4, <1>5, <1>6, <1>7, <1>8, <1>9, <1>10, <1>11,
     <1>12, <1>13 DEF Next, Handler

\* Every variable keeps its type.
THEOREM TypeCorrect == Spec => []TypeOK
<1>1. Init => TypeOK
  BY TypeInit, BackupAssumption
<1>2. TypeOK /\ [Next]_vars => TypeOK'
  BY TypeStep, BackupAssumption
<1> QED BY <1>1, <1>2, PTL DEF Spec

-----------------------------------------------------------------------------
(* A recurring Backup is never forgotten                                   *)

\* b is a Backup that has a schedule and was never taken for a one-time one.
Scheduled(b) == b.schedule # NoSchedule /\ b.type # "One-time"

\* All copies of the Backup are.
Recurring ==
  /\ Scheduled(job) /\ Scheduled(cached) /\ Scheduled(backup)
  /\ \A i \in 1..Len(watch) : Scheduled(watch[i])

\* The last change still to reach the informer is the current Backup; when
\* there is none the informer's copy is, or was marked as observed in place.
Following ==
  IF watch = <<>> THEN pc # "down" => cached \in {backup, Observed(backup)}
  ELSE watch[Len(watch)] = backup

WakeInv == TypeOK /\ (~unscheduled => Recurring /\ Following) /\ WakesUpInTime

\* After a write nothing is quiet and the last change is the Backup.
LEMMA WriteFollows ==
  ASSUME TypeOK, Recurring, NEW b \in Backup, Scheduled(b), Write(b)
  PROVE  /\ Scheduled(backup')
         /\ \A i \in 1..Len(watch') : Scheduled(watch'[i])
         /\ watch' # <<>>
         /\ watch'[Len(watch')] = backup'
<1>1. watch \in Seq(Backup) /\ watch' = Append(watch, b) /\ backup' = b
  BY DEF TypeOK, Write
<1>2. /\ Len(watch') = Len(watch) + 1 /\ Len(watch) \in Nat
      /\ \A i \in 1..Len(watch) : watch'[i] = watch[i]
      /\ watch'[Len(watch')] = b
      /\ watch' # <<>>
  BY <1>1
<1>3. \A i \in 1..Len(watch') : i \in 1..Len(watch) \/ i = Len(watch')
  BY <1>2
<1> QED BY <1>1, <1>2, <1>3 DEF Recurring

\* A step that touches no copy keeps what is said of them.
LEMMA CopiesKept ==
  ASSUME Recurring, Following, UNCHANGED <<job, object>>, pc' = "down" \/ pc # "down"
  PROVE  Recurring' /\ Following'
BY DEF Recurring, Following, object

\* A step that writes the handler's copy, or fails and will be tried again.
LEMMA UpdateCopyFollows ==
  ASSUME TypeOK, Recurring, Following, NEW b \in Backup, Scheduled(b),
         pc # "down", UpdateCopy(b), UNCHANGED <<handler, cached>>
  PROVE  Recurring' /\ Following' /\ ~Quiescent'
<1>1. CASE Write(b)
  BY <1>1, WriteFollows DEF Recurring, Following, Quiescent, handler
<1>2. CASE NoWrite /\ ReturnError
  BY <1>2 DEF NoWrite, ReturnError, Recurring, Following, Quiescent, handler
<1> QED BY <1>1, <1>2 DEF UpdateCopy

\* Every step keeps the invariant.
LEMMA WakeStep ==
  ASSUME BackupAssumption, WakeInv, TypeOK', [Next]_vars
  PROVE  WakeInv'
<1> SUFFICES ASSUME ~unscheduled'
             PROVE  Recurring' /\ Following' /\ WakesUpInTime'
  BY DEF WakeInv, WakesUpInTime
<1>h. ~unscheduled
  BY DEF Next, Handler, Dequeue, SetType, Observe, Perform, Finish, Report, Edit,
     Deliver, Ring, Tick, Crash, Restart, vars, bounds, users
<1>i. TypeOK /\ Recurring /\ Following /\ WakesUpInTime
  BY <1>h DEF WakeInv
<1> USE <1>h, <1>i
<1>0. \A b \in Backup :
        Scheduled(b) => TypeOf(b) = "Recurring" /\ ~SingularAndComplete(b)
  BY DEF Backup, TypeOf, SingularAndComplete, Scheduled
<1>1. CASE Dequeue
  <2>1. Recurring' /\ Following'
    BY <1>1 DEF Dequeue, Recurring, Following, object
  <2>2. WakesUpInTime'
    <3> SUFFICES ASSUME Quiescent', Follows(backup)'
                 PROVE  (timer # 0 /\ timer <= backup.next)'
      BY DEF WakesUpInTime
    <3>1. cached.next = backup.next /\ Check(cached) = "idle"
      BY <1>1 DEF Dequeue, Quiescent, Following, object, Observed, TypeOK, Backup
    <3>2. cached \in Backup /\ ~SingularAndComplete(cached)
      BY <1>0 DEF TypeOK, Recurring
    <3>3. cached.next > now /\ cached.next \in Nat /\ now \in Nat
      BY <3>1, <3>2, NumberTypes DEF Check
    <3>4. EnqueueAt(cached.next)
      BY <1>1, <3>1, <3>2 DEF Dequeue, Early
    <3> QED BY <1>1, <3>1, <3>3, <3>4, EarlierTime DEF Dequeue, object, TypeOK
  <2> QED BY <2>1, <2>2
<1>2. CASE SetType
  <2> DEFINE b == [job EXCEPT !.type = TypeOf(job)]
  <2>1. b \in Backup /\ Scheduled(b)
    BY <1>0 DEF TypeOK, Backup, TypeOf, Recurring, Scheduled
  <2> QED BY <1>2, <2>1, UpdateCopyFollows DEF SetType, WakesUpInTime
<1>3. CASE Observe
  <2>1. Observed(job) \in Backup /\ Scheduled(Observed(job))
    BY DEF TypeOK, Backup, Recurring, Scheduled, Observed
  <2>2. Scheduled(cached') /\ UNCHANGED job
    BY <1>3, <2>1 DEF Observe, Recurring, handler
  <2>3. CASE Write(Observed(job))
    BY <1>3, <2>1, <2>2, <2>3, WriteFollows
    DEF Recurring, Following, Quiescent, WakesUpInTime
  <2>4. CASE NoWrite /\ ReturnError
    <3>1. ~Quiescent' /\ Recurring'
      BY <2>2, <2>4 DEF NoWrite, ReturnError, Recurring, Quiescent
    <3>2. Observed(Observed(backup)) = Observed(backup)
      BY DEF Observed, TypeOK, Backup
    <3>3. Following'
      BY <1>3, <2>4, <3>2 DEF Observe, NoWrite, Following
    <3> QED BY <3>1, <3>3 DEF WakesUpInTime
  <2> QED BY <1>3, <2>3, <2>4 DEF Observe, UpdateCopy
<1>4. CASE Perform
  <2>1. ~Quiescent'
    BY <1>4 DEF Perform, Quiescent
  <2> QED BY <1>4, <2>1, CopiesKept DEF Perform, WakesUpInTime
<1>5. CASE Finish
  <2>1. job.schedule \in Nat \ {0} /\ now \in Nat
    BY NumberTypes DEF NoSchedule, Recurring, Scheduled
  <2>2. NextAt(job.schedule, now) \in Nat
    BY <2>1, NextIsLater
  <2>3. Completed(backup) \in Backup /\ Scheduled(Completed(backup))
    BY <2>1, <2>2 DEF Completed, TypeOK, Backup, Recurring, Scheduled
  <2>4. CASE Write(Completed(backup))
    BY <1>5, <2>3, <2>4, WriteFollows
    DEF Finish, Recurring, Following, Quiescent, WakesUpInTime
  <2>5. CASE NoWrite
    <3>1. ~Quiescent'
      BY <1>5, <2>5, <2>3 DEF Finish, Quiescent, ReturnError, Write, NoWrite, TypeOK
    <3>2. Recurring' /\ Following'
      BY <1>5, <2>5, CopiesKept DEF Finish, NoWrite, object
    <3> QED BY <3>1, <3>2 DEF WakesUpInTime
  <2> QED BY <1>5, <2>4, <2>5 DEF Finish
<1>6. CASE Report
  <2> DEFINE b == [backup EXCEPT !.error = err]
  <2>1. b \in Backup /\ Scheduled(b)
    BY DEF TypeOK, Backup, Recurring, Scheduled
  <2>2. ~Quiescent'
    BY <1>6 DEF Report, ReturnError, Quiescent
  <2>3. CASE Write(b)
    BY <1>6, <2>1, <2>2, <2>3, WriteFollows
    DEF Report, Recurring, Following, WakesUpInTime, handler
  <2>4. CASE NoWrite
    <3>1. Recurring' /\ Following'
      BY <1>6, <2>4, CopiesKept DEF Report, NoWrite, object, handler
    <3> QED BY <2>2, <3>1 DEF WakesUpInTime
  <2> QED BY <1>6, <2>3, <2>4 DEF Report
<1>7. CASE Edit
  <2>1. PICK s \in Schedules :
          /\ Write([backup EXCEPT !.generation = @ + 1, !.schedule = s])
          /\ unscheduled' = (unscheduled \/ s = NoSchedule)
    BY <1>7 DEF Edit
  <2> DEFINE b == [backup EXCEPT !.generation = @ + 1, !.schedule = s]
  <2>2. b \in Backup /\ Scheduled(b)
    <3>1. s # NoSchedule
      BY <2>1
    <3>2. b.schedule = s
      BY DEF TypeOK, Backup
    <3> QED BY <3>1, <3>2, EditedType DEF TypeOK, Recurring, Scheduled
  <2> QED
    BY <1>7, <2>1, <2>2, WriteFollows
    DEF Edit, Recurring, Following, Quiescent, WakesUpInTime, handler
<1>8. CASE Deliver
  <2>1. ~Quiescent'
    BY <1>8 DEF Deliver, Quiescent
  <2>2. watch \in Seq(Backup) /\ watch # <<>>
    BY <1>8 DEF Deliver, TypeOK
  <2>3. Recurring'
    BY <1>8, <2>2 DEF Deliver, Recurring, handler
  <2>4. Following'
    <3> DEFINE n == Len(watch)
    <3>1. n \in Nat /\ n # 0
      BY <2>2
    <3>2. Len(Tail(watch)) = n - 1
      BY <2>2
    <3>3. \A i \in 1..(n - 1) : Tail(watch)[i] = watch[i + 1]
      BY <2>2
    <3>4. CASE n = 1
      <4>1. Head(watch) = watch[1]
        BY <2>2
      <4>2. Tail(watch) \in Seq(Backup) /\ Len(Tail(watch)) = 0
        BY <2>2, <3>2, <3>4
      <4>3. Tail(watch) = <<>>
        BY <4>2, EmptySeq
      <4> QED BY <1>8, <2>2, <3>4, <4>1, <4>3 DEF Deliver, Following
    <3>5. CASE n > 1
      <4>1. Tail(watch) # <<>> /\ Tail(watch)[n - 1] = watch[n]
        BY <3>1, <3>2, <3>3, <3>5
      <4> QED BY <1>8, <2>2, <3>2, <4>1 DEF Deliver, Following
    <3>6. \A k \in Nat : k # 0 => k = 1 \/ k > 1
      OBVIOUS
    <3> QED BY <3>1, <3>4, <3>5, <3>6
  <2> QED BY <2>1, <2>3, <2>4 DEF WakesUpInTime
<1>9. CASE Ring
  <2>1. ~Quiescent'
    BY <1>9 DEF Ring, Quiescent
  <2> QED BY <1>9, <2>1, CopiesKept DEF Ring, WakesUpInTime, handler
<1>10. CASE Tick
  BY <1>10, CopiesKept
  DEF Tick, WakesUpInTime, Quiescent, Follows, handler, object, bounds, users
<1>11. CASE Crash
  <2>1. ~Quiescent'
    BY <1>11 DEF Crash, Quiescent
  <2>2. Recurring' /\ Following'
    BY <1>11 DEF Crash, Recurring, Following, handler
  <2> QED BY <2>1, <2>2 DEF WakesUpInTime
<1>12. CASE Restart
  <2>1. ~Quiescent'
    BY <1>12 DEF Restart, Quiescent
  <2>2. Recurring' /\ Following'
    BY <1>12 DEF Restart, Recurring, Following, handler
  <2> QED BY <2>1, <2>2 DEF WakesUpInTime
<1>13. CASE UNCHANGED vars
  BY <1>13 DEF vars, Recurring, Following, WakesUpInTime, Quiescent, Follows,
     handler, object, bounds, users
<1> QED
  BY <1>1, <1>2, <1>3, <1>4, <1>5, <1>6, <1>7, <1>8, <1>9, <1>10, <1>11,
     <1>12, <1>13 DEF Next, Handler

\* At the start all copies are the one Backup, which is queued.
LEMMA WakeInit == Init => WakeInv
<1> SUFFICES ASSUME Init PROVE WakeInv
  OBVIOUS
<1>1. TypeOK
  BY TypeInit, BackupAssumption
<1>2. /\ cached = backup /\ job = backup /\ watch = <<>> /\ queued
      /\ unscheduled = (backup.schedule = NoSchedule)
  BY DEF Init
<1>3. PICK s \in Schedules :
        backup = [generation |-> 1, schedule |-> s, type |-> "", observed |-> 0,
                  last |-> 0, next |-> 0, error |-> None]
  BY DEF Init
<1>4. backup.type # "One-time"
  BY <1>3
<1>5. Recurring \/ unscheduled
  <2>1. backup.schedule = NoSchedule => unscheduled
    BY <1>2
  <2>2. \A i \in 1..Len(watch) : FALSE
    BY <1>2
  <2> QED BY <1>2, <1>4, <2>1, <2>2 DEF Recurring, Scheduled
<1> QED BY <1>1, <1>2, <1>5 DEF WakeInv, Following, WakesUpInTime, Quiescent

\* A Backup that has a schedule, and is only ever given other ones, is not
\* forgotten: when nothing else calls the handler, the timer will in time,
\* whatever was edited, failed or crashed.
THEOREM NeverForgotten == Spec => []WakesUpInTime
<1>1. Init => WakeInv
  BY WakeInit
<1>2. WakeInv /\ [Next]_vars => WakeInv'
  BY WakeStep, TypeStep, BackupAssumption DEF WakeInv
<1>3. WakeInv => WakesUpInTime
  BY DEF WakeInv
<1> QED BY <1>1, <1>2, <1>3, PTL DEF Spec

-----------------------------------------------------------------------------
(* A one-time Backup is not processed twice                                *)

\* As long as nobody edits the Backup, it once had no schedule only when it
\* has none.
ScheduleKept == edits = 0 => (unscheduled <=> backup.schedule = NoSchedule)

\* Nobody edits it, and only what NotRepeated allows goes wrong.
Calm == edits = 0 /\ happened \subseteq {"get", "crash"}

\* The handler has asked for no other call, works on the current Backup, and
\* performs one that is not complete.
AtWork ==
  /\ timer = 0
  /\ backup.next = 0
  /\ pc \in {"down", "idle", "setType", "backup", "finish"}
  /\ pc \notin {"down", "idle"} => ~queued /\ job = backup
  /\ pc \in {"backup", "finish"} => ~SingularAndComplete(backup)

\* The informer is up to date, or what the handler wrote is on its way to it
\* and nothing calls the handler before it arrives.
Caught ==
  \/ watch = <<>> /\ (pc # "down" => cached = backup)
  \/ watch = <<backup>> /\ pc = "idle" /\ ~queued

OnceInv ==
  /\ ScheduleKept
  /\ Calm /\ backup.schedule = NoSchedule => AtWork /\ Caught

LEMMA OnceInit == Init => OnceInv
<1> SUFFICES ASSUME Init PROVE OnceInv
  OBVIOUS
<1>1. ScheduleKept
  BY DEF Init, ScheduleKept
<1>2. backup.next = 0
  <2>1. PICK s \in Schedules :
          backup = [generation |-> 1, schedule |-> s, type |-> "", observed |-> 0,
                    last |-> 0, next |-> 0, error |-> None]
    BY DEF Init
  <2> QED BY <2>1
<1>3. AtWork
  BY <1>2 DEF Init, AtWork
<1>4. Caught
  BY DEF Init, Caught
<1> QED BY <1>1, <1>3, <1>4 DEF OnceInv

\* The schedule is changed by an edit only.
LEMMA ScheduleStep ==
  ASSUME TypeOK, ScheduleKept, [Next]_vars
  PROVE  ScheduleKept' /\ (edits' = 0 => edits = 0 /\ backup'.schedule = backup.schedule)
<1>1. \A b \in Backup :
        /\ [b EXCEPT !.type = TypeOf(b)].schedule = b.schedule
        /\ Observed(b).schedule = b.schedule
        /\ [b EXCEPT !.error = err].schedule = b.schedule
        /\ Completed(b).schedule = b.schedule
  BY DEF Backup, Completed, Observed
<1>2. CASE UNCHANGED <<backup, edits, unscheduled>>
  BY <1>2 DEF ScheduleKept
<1>3. CASE SetType \/ Observe
  <2>1. backup'.schedule = backup.schedule
    BY <1>1, <1>3 DEF SetType, Observe, UpdateCopy, Write, NoWrite, TypeOK
  <2> QED BY <1>3, <2>1 DEF SetType, Observe, ScheduleKept, users
<1>4. CASE Finish
  <2>1. backup'.schedule = backup.schedule
    BY <1>1, <1>4 DEF Finish, Write, NoWrite, TypeOK
  <2> QED BY <1>4, <2>1 DEF Finish, ScheduleKept, users
<1>5. CASE Report
  <2>1. backup'.schedule = backup.schedule
    BY <1>1, <1>5 DEF Report, Write, NoWrite, TypeOK
  <2> QED BY <1>5, <2>1 DEF Report, ScheduleKept, users
<1>6. CASE Edit
  <2>1. edits \in Nat /\ edits' = edits + 1
    BY <1>6 DEF Edit, TypeOK, BackupAssumption
  <2> QED BY <2>1 DEF ScheduleKept
<1> QED
  BY <1>2, <1>3, <1>4, <1>5, <1>6
  DEF Next, Handler, Dequeue, Perform, Deliver, Ring, Tick, Crash, Restart, vars,
      object, bounds, users

\* Without a schedule the handler only sets the type, or takes a snapshot.
LEMMA CheckOnce ==
  ASSUME BackupAssumption, TypeOK, NEW b, b.schedule = NoSchedule, b.next = 0
  PROVE  /\ Check(b) \in {"idle", "setType", "backup"}
         /\ Check(b) = "idle" <=> SingularAndComplete(b)
         /\ ~Early(b)
<1>1. b.schedule \notin Invalid /\ ~(b.next > now)
  BY NumberTypes DEF BackupAssumption, NoSchedule
<1> QED BY <1>1 DEF Check, Early

\* A write on the informer's empty queue.
LEMMA WriteAlone ==
  ASSUME NEW b, watch = <<>>, Write(b)
  PROVE  backup' = b /\ watch' = <<backup'>>
BY DEF Write

LEMMA OnceStep ==
  ASSUME BackupAssumption, TypeOK, OnceInv, [Next]_vars
  PROVE  OnceInv'
<1>0. ScheduleKept' /\ (edits' = 0 => edits = 0 /\ backup'.schedule = backup.schedule)
  BY ScheduleStep DEF OnceInv
<1> SUFFICES ASSUME Calm', backup'.schedule = NoSchedule
             PROVE  AtWork' /\ Caught'
  BY <1>0 DEF OnceInv
<1>c. Calm
  <2>1. happened \subseteq happened'
    BY DEF Next, Handler, Dequeue, SetType, Observe, Perform, Finish, Report, Edit,
       Deliver, Ring, Tick, Crash, Restart, UpdateCopy, Fault, NoFault, vars, bounds,
       counted
  <2> QED BY <1>0, <2>1 DEF Calm
<1>i. /\ AtWork /\ Caught /\ Calm' /\ backup.schedule = NoSchedule
  BY <1>0, <1>c DEF OnceInv, Calm
<1>n. ~Fault("put") /\ ~Fault("lostReply") /\ ~Fault("backup")
  BY <1>i DEF Calm, Fault
<1>1. CASE Dequeue
  <2>1. watch = <<>> /\ cached = backup
    BY <1>1, <1>i DEF Dequeue, Caught
  <2>2. /\ Check(cached) \in {"idle", "setType", "backup"}
        /\ Check(cached) = "idle" <=> SingularAndComplete(cached)
        /\ ~Early(cached)
    BY <1>i, <2>1, CheckOnce DEF AtWork
  <2> QED BY <1>1, <1>i, <2>1, <2>2 DEF Dequeue, AtWork, Caught, object
<1>2. CASE SetType
  <2> DEFINE b == [job EXCEPT !.type = TypeOf(job)]
  <2>1. watch = <<>> /\ job = backup /\ ~queued /\ timer = 0 /\ cached = backup
    BY <1>2, <1>i DEF SetType, AtWork, Caught
  <2>2. Write(b) /\ Return
    BY <1>2, <1>n, <2>1 DEF SetType, UpdateCopy
  <2>3. b.next = 0
    BY <1>i, <2>1 DEF AtWork, TypeOK, Backup
  <2>4. backup'.next = 0 /\ watch' = <<backup'>>
    BY <2>1, <2>2, <2>3, WriteAlone
  <2> QED BY <1>2, <2>1, <2>2, <2>4 DEF SetType, Return, AtWork, Caught
<1>3. CASE Observe
  BY <1>3, <1>i DEF Observe, AtWork
<1>4. CASE Perform
  BY <1>4, <1>i, <1>n DEF Perform, AtWork, Caught, object
<1>5. CASE Finish
  <2>1. watch = <<>> /\ job = backup /\ ~queued /\ timer = 0 /\ cached = backup
    BY <1>5, <1>i DEF Finish, AtWork, Caught
  <2>2. Completed(backup).next = 0
    BY <1>i, <2>1 DEF Completed, AtWork, TypeOK, Backup
  <2>3. CASE Write(Completed(backup)) /\ Return
    <3>1. backup'.next = 0 /\ watch' = <<backup'>>
      BY <2>1, <2>2, <2>3, WriteAlone
    <3>2. timer' = 0 /\ pc' = "idle" /\ ~queued'
      BY <1>5, <1>i, <2>1, <2>3 DEF Finish, Return
    <3> QED BY <3>1, <3>2 DEF AtWork, Caught
  <2>4. CASE NoWrite /\ ReturnError /\ UNCHANGED timer
    BY <1>5, <1>i, <2>1, <2>4 DEF Finish, NoWrite, ReturnError, AtWork, Caught
  <2> QED BY <1>5, <1>n, <2>3, <2>4 DEF Finish
<1>6. CASE Report
  BY <1>6, <1>i DEF Report, AtWork
<1>7. CASE Edit
  <2>1. edits \in Nat /\ edits' = edits + 1
    BY <1>7 DEF Edit, TypeOK, BackupAssumption
  <2> QED BY <1>i, <2>1 DEF Calm
<1>8. CASE Deliver
  <2>1. watch = <<backup>> /\ pc = "idle"
    BY <1>8, <1>i DEF Deliver, Caught
  <2>2. Head(watch) = backup /\ Tail(watch) = <<>>
    BY <2>1
  <2> QED BY <1>8, <1>i, <2>1, <2>2 DEF Deliver, AtWork, Caught, handler
<1>9. CASE Ring
  BY <1>9, <1>i DEF Ring, AtWork
<1>10. CASE Tick
  BY <1>10, <1>i DEF Tick, AtWork, Caught, handler, object
<1>11. CASE Crash
  BY <1>11, <1>i DEF Crash, AtWork, Caught, handler
<1>12. CASE Restart
  BY <1>12, <1>i DEF Restart, AtWork, Caught, handler
<1>13. CASE UNCHANGED vars
  BY <1>13, <1>i DEF vars, AtWork, Caught, handler, object
<1> QED
  BY <1>1, <1>2, <1>3, <1>4, <1>5, <1>6, <1>7, <1>8, <1>9, <1>10, <1>11,
     <1>12, <1>13 DEF Next, Handler

\* A Backup that is taken for a one-time one has no schedule.
LEMMA OneTimeHasNone ==
  ASSUME WakeInv, ScheduleKept, edits = 0, SingularAndComplete(backup)
  PROVE  backup.schedule = NoSchedule
<1>1. unscheduled
  BY DEF WakeInv, Recurring, Scheduled, SingularAndComplete
<1> QED BY <1>1 DEF ScheduleKept

\* A one-time Backup that was processed is not processed again, for any delay of
\* the informer, however often the process crashes and the handler is retried.
THEOREM OneTimeIsOnce == Spec => NotRepeated
<1> DEFINE Inv == WakeInv /\ OnceInv
<1>1. Init => Inv
  BY WakeInit, OnceInit, BackupAssumption
<1>2. Inv /\ [Next]_vars => Inv'
  BY WakeStep, TypeStep, OnceStep, BackupAssumption DEF WakeInv
<1>3. ASSUME Inv, [Next]_vars, Calm, SingularAndComplete(backup), pc # "backup"
      PROVE  pc' # "backup"
  <2>1. backup.schedule = NoSchedule
    BY <1>3, OneTimeHasNone DEF OnceInv, Calm
  <2>2. TypeOK /\ AtWork /\ Caught
    BY <1>3, <2>1 DEF OnceInv, WakeInv
  <2>3. CASE Dequeue
    <3>1. cached = backup /\ backup.next = 0
      BY <2>2, <2>3 DEF Dequeue, Caught, AtWork
    <3>2. Check(cached) = "idle"
      BY <1>3, <2>1, <2>2, <3>1, CheckOnce, BackupAssumption
    <3> QED BY <2>3, <3>2 DEF Dequeue
  <2>4. CASE ~Dequeue
    BY <1>3, <2>4 DEF Next, Handler, SetType, Observe, Perform, Finish, Report, Edit,
       Deliver, Ring, Tick, Crash, Restart, UpdateCopy, Return, ReturnError, vars,
       handler
  <2> QED BY <2>3, <2>4
<1>4. Inv /\ [Next]_vars =>
        [/\ edits = 0 /\ happened \subseteq {"get", "crash"}
         /\ SingularAndComplete(backup)
         /\ pc # "backup"
         => pc' # "backup"]_vars
  BY <1>3 DEF Calm
<1> HIDE DEF Inv
<1> QED BY <1>1, <1>2, <1>4, PTL DEF Spec, NotRepeated
=============================================================================
