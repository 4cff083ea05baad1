--------------------------- MODULE BackupController ---------------------------
(***************************************************************************)
(* One Backup, one-time or recurring: when OnBackupChange takes a snapshot *)
(* of the cluster, and what it writes into the Backup's status about it.   *)
(*                                                                         *)
(* The handler is called with the informer's copy of the Backup, because it*)
(* was created or changed, because it returned an error, or at a time it   *)
(* asked for with EnqueueAfter.  It writes the status through the API      *)
(* server: with its copy, which is refused when the Backup has changed     *)
(* since, or with a fresh one.  Users edit the spec at any time.  (A Backup*)
(* that is deleted has no finalizers, and is not handled again.)           *)
(*                                                                         *)
(* Of the spec only the schedule matters here; metadata.generation stands  *)
(* for all of it.  Time is counted in ticks, 0 is an empty timestamp.  What*)
(* a snapshot leaves in the storage location is BackupStore's subject.     *)
(***************************************************************************)
EXTENDS Naturals, Sequences

CONSTANTS
  Schedules,    \* values of spec.schedule: none or a period
  Invalid,      \* those cron.ParseStandard refuses
  Faults,       \* what may go wrong, see FaultKinds
  MaxEdits,     \* bound on the edits of the spec
  MaxFaults,    \* bound on how often something goes wrong
  MaxLag,       \* bound on the changes the informer may be behind
  MaxTime       \* bound on the time

\* spec.schedule is empty.  A schedule p is due at every multiple of p.
NoSchedule == 0

FaultKinds ==
  {"backup",    \* gathering, writing, uploading or the retention fails
   "get",       \* a Get of the Backup fails
   "put",       \* an UpdateStatus fails and is not applied
   "lostReply", \* it is applied, and an error is returned all the same
   "crash"}     \* the operator's process ends

ASSUME BackupAssumption ==
  /\ Schedules \subseteq Nat
  /\ Invalid \subseteq Schedules \ {NoSchedule}
  /\ Faults \subseteq FaultKinds
  /\ MaxEdits \in Nat
  /\ MaxFaults \in Nat
  /\ MaxLag \in Nat \ {0}
  /\ MaxTime \in Nat \ {0}

VARIABLES
  pc,           \* where the process is
  job,          \* the copy of the Backup the handler was called with
  seen,         \* error on the Reconciling condition the handler looks at
  err,          \* error it is about to report
  backup,       \* the Backup in the API server
  cached,       \* the informer's copy of it
  watch,        \* changes of the Backup still to reach the informer
  queued,       \* the work queue holds the Backup
  timer,        \* when EnqueueAfter will queue it, 0: it will not
  now,          \* the time
  edits,        \* edits so far
  unscheduled,  \* history: the Backup once had no schedule
  faults,       \* faults so far
  happened      \* history: their kinds

handler == <<job, seen, err>>
object == <<backup, cached, watch>>
users == <<edits, unscheduled>>
counted == <<faults, happened>>
bounds == <<users, counted>>
vars == <<pc, handler, object, queued, timer, now, bounds>>

None == "none"
Errors == {"schedule", "backup", "finish"}

Backup ==
  [generation : Nat, schedule : Schedules,
   type : {"", "One-time", "Recurring"},   \* status.backupType
   observed : Nat,                         \* status.observedGeneration
   last : Nat, next : Nat,                 \* lastSnapshotTs, nextSnapshotAt
   error : Errors \cup {None}]             \* the Reconciling condition

TypeOK ==
  /\ pc \in {"down", "idle", "setType", "observe", "backup", "finish", "report"}
  /\ job \in Backup
  /\ seen \in Errors \cup {None}
  /\ err \in Errors \cup {None}
  /\ backup \in Backup
  /\ cached \in Backup
  /\ watch \in Seq(Backup)
  /\ queued \in BOOLEAN
  /\ timer \in Nat
  /\ now \in 1..MaxTime
  /\ edits \in 0..MaxEdits
  /\ unscheduled \in BOOLEAN
  /\ faults \in 0..MaxFaults
  /\ happened \subseteq Faults

Init ==
  /\ pc = "idle"
  /\ \E s \in Schedules :
       backup = [generation |-> 1, schedule |-> s, type |-> "", observed |-> 0,
                 last |-> 0, next |-> 0, error |-> None]
  /\ cached = backup
  /\ job = backup
  /\ seen = None
  /\ err = None
  /\ watch = <<>>
  /\ queued = TRUE
  /\ timer = 0
  /\ now = 1
  /\ edits = 0
  /\ unscheduled = (backup.schedule = NoSchedule)
  /\ faults = 0
  /\ happened = {}

-----------------------------------------------------------------------------
Fault(k) ==
  /\ k \in Faults
  /\ faults < MaxFaults
  /\ faults' = faults + 1
  /\ happened' = happened \cup {k}

NoFault == UNCHANGED counted

Write(b) ==
  /\ Len(watch) < MaxLag
  /\ backup' = b
  /\ watch' = Append(watch, b)

NoWrite == UNCHANGED <<backup, watch>>

\* The handler returns without an error, or with one: then it is called again.
Return == pc' = "idle" /\ UNCHANGED queued
ReturnError == pc' = "idle" /\ queued' = TRUE

\* A bug: a type that is none.
TypeOfUnknown(b) == IF b.schedule = NoSchedule THEN "One-time" ELSE "Scheduled"

\* setBackupType
TypeOf(b) == IF b.schedule = NoSchedule THEN "One-time" ELSE "Recurring"

\* backupIsSingularAndComplete
SingularAndComplete(b) == b.type = "One-time" /\ b.generation = b.observed

\* cronSchedule.Next
NextAt(s, t) == ((t \div s) + 1) * s

\* The delaying queue keeps the earlier of two times for one key.
EnqueueAt(t) == timer' = IF timer = 0 \/ t < timer THEN t ELSE timer

-----------------------------------------------------------------------------
(* OnBackupChange                                                          *)

\* Bugs: a Backup that is complete is not skipped; a snapshot that is due just
\* now is not taken.
CheckComplete(b) ==
  IF TypeOf(b) # b.type THEN "setType"
  ELSE IF b.schedule \in Invalid THEN "report"
  ELSE IF b.last # 0 /\ b.next > now
       THEN IF b.generation # b.observed THEN "observe" ELSE "idle"
       ELSE "backup"
CheckLate(b) ==
  IF SingularAndComplete(b) THEN "idle"
  ELSE IF TypeOf(b) # b.type THEN "setType"
  ELSE IF b.schedule \in Invalid THEN "report"
  ELSE IF b.last # 0 /\ b.next >= now
       THEN IF b.generation # b.observed THEN "observe" ELSE "idle"
       ELSE "backup"

\* The checks it makes before it does anything.
Check(b) ==
  IF SingularAndComplete(b) THEN "idle"
  ELSE IF TypeOf(b) # b.type THEN "setType"
  ELSE IF b.schedule \in Invalid THEN "report"
  ELSE IF b.last # 0 /\ b.next > now
       THEN IF b.generation # b.observed THEN "observe" ELSE "idle"
       ELSE "backup"

\* A bug: the handler asks to be called only once it has observed an edit.
EarlyObserving(b) == Check(b) = "observe"

\* Not yet time for the next snapshot: the handler asks to be called then.
Early(b) ==
  /\ Check(b) \in {"idle", "observe"}
  /\ ~SingularAndComplete(b)

Dequeue ==
  /\ pc = "idle"
  /\ queued
  /\ queued' = FALSE
  /\ pc' = Check(cached)
  /\ job' = cached
  /\ seen' = cached.error
  /\ err' = IF pc' = "report" THEN "schedule" ELSE None
  /\ IF Early(cached) THEN EnqueueAt(cached.next) ELSE UNCHANGED timer
  /\ UNCHANGED <<object, now, bounds>>

\* An UpdateStatus of the copy: refused when the Backup was changed since.
UpdateCopy(b) ==
  \/ job = backup /\ Write(b) /\ Return /\ NoFault
  \/ job = backup /\ Write(b) /\ ReturnError /\ Fault("lostReply")
  \/ job # backup /\ NoWrite /\ ReturnError /\ NoFault
  \/ NoWrite /\ ReturnError /\ Fault("put")

SetType ==
  /\ pc = "setType"
  /\ UpdateCopy([job EXCEPT !.type = TypeOf(job)])
  /\ UNCHANGED <<handler, cached, timer, now, users>>

Observed(b) == [b EXCEPT !.observed = b.generation]

\* This marks the informer's copy itself, which stays so if the UpdateStatus fails,
\* unless a later one has replaced it.
Observe ==
  /\ pc = "observe"
  /\ UpdateCopy(Observed(job))
  /\ cached' = IF cached = job THEN Observed(job) ELSE cached
  /\ UNCHANGED <<handler, timer, now, users>>

\* performBackup and, with a schedule, the retention.
Perform ==
  /\ pc = "backup"
  /\ \/ pc' = "finish" /\ NoFault /\ UNCHANGED err
     \/ pc' = "report" /\ Fault("backup") /\ err' = "backup"
  /\ UNCHANGED <<job, seen, object, queued, timer, now, users>>

\* The status of a fresh copy after a snapshot.
Completed(b) ==
  [b EXCEPT !.error = None, !.last = now, !.observed = b.generation,
            !.next = IF job.schedule = NoSchedule THEN @
                     ELSE NextAt(job.schedule, now)]

\* When the Get fails there is no name to report the error under; when the
\* UpdateStatus fails it is reported on the fresh copy.
Finish ==
  /\ pc = "finish"
  /\ \/ /\ IF job.schedule = NoSchedule THEN UNCHANGED timer
           ELSE EnqueueAt(NextAt(job.schedule, now))
        /\ \/ /\ Write(Completed(backup)) /\ Return /\ NoFault
              /\ UNCHANGED <<seen, err>>
           \/ /\ (Write(Completed(backup)) /\ Fault("lostReply"))
                   \/ (NoWrite /\ Fault("put"))
              /\ pc' = "report" /\ seen' = None /\ err' = "finish"
              /\ UNCHANGED queued
     \/ Fault("get") /\ NoWrite /\ ReturnError /\ UNCHANGED <<timer, seen, err>>
  /\ UNCHANGED <<job, cached, now, users>>

\* setReconcilingCondition; it always returns the error.
Report ==
  /\ pc = "report"
  /\ ReturnError
  /\ \/ seen = err /\ NoWrite /\ NoFault
     \/ /\ seen # err
        /\ \/ Write([backup EXCEPT !.error = err]) /\ (NoFault \/ Fault("lostReply"))
           \/ NoWrite /\ (Fault("get") \/ Fault("put"))
  /\ UNCHANGED <<handler, cached, timer, now, users>>

-----------------------------------------------------------------------------
(* The users, the informer, the clock and the process                      *)

Edit ==
  /\ edits < MaxEdits
  /\ edits' = edits + 1
  /\ \E s \in Schedules :
       /\ Write([backup EXCEPT !.generation = @ + 1, !.schedule = s])
       /\ unscheduled' = (unscheduled \/ s = NoSchedule)
  /\ UNCHANGED <<pc, handler, cached, queued, timer, now, counted>>

Deliver ==
  /\ pc # "down"
  /\ watch # <<>>
  /\ cached' = Head(watch)
  /\ watch' = Tail(watch)
  /\ queued' = TRUE
  /\ UNCHANGED <<pc, handler, backup, timer, now, bounds>>

Ring ==
  /\ timer # 0
  /\ timer <= now
  /\ timer' = 0
  /\ queued' = TRUE
  /\ UNCHANGED <<pc, handler, object, now, bounds>>

Tick ==
  /\ now < MaxTime
  /\ now' = now + 1
  /\ UNCHANGED <<pc, handler, object, queued, timer, bounds>>

Crash ==
  /\ pc # "down"
  /\ Fault("crash")
  /\ pc' = "down"
  /\ queued' = FALSE
  /\ timer' = 0
  /\ watch' = <<>>
  /\ UNCHANGED <<handler, backup, cached, now, users>>

\* The informer lists the Backups and queues them all.
Restart ==
  /\ pc = "down"
  /\ pc' = "idle"
  /\ cached' = backup
  /\ watch' = <<>>
  /\ queued' = TRUE
  /\ UNCHANGED <<handler, backup, timer, now, bounds>>

-----------------------------------------------------------------------------
Handler == Dequeue \/ SetType \/ Observe \/ Perform \/ Finish \/ Report

Next == Handler \/ Edit \/ Deliver \/ Ring \/ Tick \/ Crash \/ Restart

Spec == Init /\ [][Next]_vars

\* A worker takes what is queued and goes on with its handler; events and
\* timers arrive; the kubelet restarts the process.  Users and the clock do
\* as they please.
Fairness ==
  WF_vars(Handler) /\ WF_vars(Deliver) /\ WF_vars(Ring) /\ WF_vars(Restart)

FairSpec == Spec /\ Fairness

-----------------------------------------------------------------------------
(* Properties                                                              *)

\* The Backup has a schedule that can be followed.
Follows(b) == b.schedule \notin Invalid \cup {NoSchedule}

\* Nothing calls the handler, or will before the timer rings.
Quiescent == pc = "idle" /\ ~queued /\ watch = <<>>

\* A Backup that always had a schedule is never forgotten: when nothing else
\* calls the handler the timer will, no later than at status.nextSnapshotAt,
\* whatever was edited, failed or crashed.
WakesUpInTime ==
  ~unscheduled /\ Quiescent /\ Follows(backup) =>
    timer # 0 /\ timer <= backup.next

\* A snapshot of such a Backup that is due is taken, unless the schedule is
\* edited away: one of the next attempts succeeds as long as things go wrong
\* only so often.
DueIsTaken ==
  ~unscheduled /\ Follows(backup) /\ backup.next <= now
    ~> \/ backup.last # 0 /\ backup.next > now
       \/ unscheduled \/ ~Follows(backup)

\* A one-time Backup that was processed is not processed again, although the
\* handler decides that on a cached copy ("skips if the backup is singular and
\* already processed", controller.go:104).  Edits are what calls for another
\* snapshot; a report of an error, or of an UpdateStatus that was applied, may
\* bring back the copy from before.
NotRepeated ==
  [][/\ edits = 0 /\ happened \subseteq {"get", "crash"}
     /\ SingularAndComplete(backup)
     /\ pc # "backup"
     => pc' # "backup"]_vars
=============================================================================
