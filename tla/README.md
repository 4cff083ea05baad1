# A TLA+ model of the backup-restore-operator

The operator archives the Kubernetes objects of an application (Rancher) and
restores them. It runs two controllers in one process: one for `Backup`
resources, one for `Restore` resources. Most of what can go wrong lies between
its calls to the Kubernetes API: another worker or another pod acts, a call
fails or is applied although it reports an error, the process dies, an event
arrives late, a user edits the object at work. This directory models these
interleavings, checks them with TLC on small instances, and proves with TLAPS
what does not depend on the instance. `bro-tool`, which works without a
cluster, is modelled beside it. Paths below are relative to `src/`; the
two `controller.go` are told apart by `restore/` and `backup/`.

## 1. Inventory

| Component | State it keeps | Operations | Modelled by |
|---|---|---|---|
| Lease (`pkg/controllers/restore/controller.go:865-913`) | the `Lease` object `restore-controller` in the API server | `Register` deletes it, `Lock`, `Unlock` | `RestoreLease`, `RestoreLock` |
| Restore controller (`restore/controller.go:134-305`, `pause.go`, `download.go`) | the status of a `Restore`; replica counts of scaled-down controllers, in memory | `OnRestoreChange`, `setReconcilingCondition`, scaling down and up | `RestoreRun` |
| Dependency graph (`restore/controller.go:384-815`) | work list, owner counters and dependents lists, in memory, per attempt | `generateDependencyGraph`, `createFromDependencyGraph`, `updateOwnerRefs` | `DependencyGraph` |
| CRD restore (`restore/crd.go`, `restoreCRDs`, `waitCRD`) | CRDs in the cluster | merge of versions, writing, polling | `LiveCluster`, `ObjectRestore`, `RestoreWrites` |
| Writing one object (`restoreResource`, 628-735; `restore/download.go`) | objects in the cluster | `LoadFromTarGzip`; Get, Create or Update, UpdateStatus | `LiveCluster`, `ObjectRestore`, `RestoreWrites` |
| Pruning (`restore/prune.go`, `pkg/util/util.go`) | a channel of victims, in memory | gather again, delete in two passes with 25 workers | `Prune`, `RestoreWrites` |
| Backup controller (`pkg/controllers/backup/controller.go`) | the status of a `Backup` (type, observed generation, last and next snapshot, conditions), timers of the work queue | `OnBackupChange`, `performBackup`, `setBackupType`, `setReconcilingCondition` | `BackupController` |
| Storage and retention (`backup/upload.go`, `retention.go`) | archives in a volume or a bucket | write, upload, list, delete | `BackupStore` |
| Collector (`pkg/resourcesets/collector.go`) | the object map of one call | `GatherResources`, `WriteBackupObjects` | `ResourceGathering` |
| Encryption configuration (`pkg/util/encryptionconfig/config.go`) | one file at one path in the container | `GetEncryptionTransformersFromSecret` | `EncryptionConfig` |
| Process start (`pkg/operator/start.go`, `cmd/operator`) | default storage location, dev mode | validates options, chooses the default location, registers the controllers | `OperatorStart` |
| Utilities (`pkg/util/initializer.go`) | a value that is set once | `InitOnce`, `WaitForInit`, `WaitForInitContext` | `WriteOnce`, `Initializer` |
| Metrics (`pkg/monitoring`) | gauges, one row per CR | periodic collection | `Metrics` (the counters of finished Backups are left out) |
| Object store client (`pkg/objectstore`, `backup/upload.go`, `restore/download.go`) | TLS settings of the process's transport, archives in buckets, local files | make a client, upload, list, download | `ObjectStore`; as faults in `BackupStore`, `RestoreRun` |
| bro-tool (`cmd/tool`) | a cache of charts on disk | `resource-set view`, `resource-set check` | `ResourceSetCheck`, `BroTool` |
| API types, generated clients, code generation, charts, end-to-end tests | none | none at run time | not modelled |

**How they interact.** `start.All(ctx, 2, …)` (`operator/start.go:279`) starts
two workers per resource kind, so two Backups and two Restores can be handled at
a time. One key is never handled by two workers of one process. Both
controllers share the collector, the file of the encryption configuration, the
TLS settings of `http.DefaultTransport` and the storage location, which they
default to what `Run` found at the start; all share the API server. Nothing but the lease keeps two
restores apart, and nothing keeps a backup from running during a restore. A
handler is called with the informer's copy of an object: after an event, after
it returned an error, or when a timer it asked for (`EnqueueAfter`) expires. Its
own status writes come back as events.

**What is hard.** The hazards are listed, at their lines, in `PROJECT.json`. In
short:

- *interleaving*: workers racing for the lease or over the one configuration
  file, or replacing each other's TLS settings, overlapping pods in a rolling
  update, a cluster that changes between the pages of a list, workers that prune
  the same object, goroutines that wait for a value on a condition variable;
- *stale state*: decisions on the informer's copy, a fresh copy completed with
  what is known of an older one, CRD versions merged from a copy that is old when
  it is written;
- *partial failure and lost replies*: a dropped error of `Unlock`, controllers
  that could not be scaled, a truncated archive, a download that breaks off, an object
  whose status is the third of three calls, an `UpdateStatus` that was applied
  although it reported an error;
- *crashes* between scaling down and up, between an archive and its retention,
  with the lease held;
- *retries*: an error that is both written to the status, which is an event, and
  returned, which is a retry;
- *ordering and counting* in the dependency graph, *off-by-one* in the retention,
  *pages* of a list.

**What makes each part correct.** Restores exclude each other and the lease
tells which one is at work. Owners are restored before dependents, and nothing
is lost to a wrong count. Controllers are quiet while objects are written and
come back afterwards. A completed `Restore` was restored by one attempt, and is
not restored again. A recurring `Backup` is never forgotten, and a one-time one
is not taken twice. Retention keeps what it promises and does not take the last
good archive. An archive holds what the ResourceSet selects, all of it and
nothing else. Keys do not stay in the file system, and are the right ones. What
was restored without an error is whole, pruning leaves no victim, and both fail
for a cause only. An upload that succeeds is stored, and what is loaded is the
named archive from beginning to end. Whoever waits for the dev mode returns, and
Backups and Restores agree on the default location. bro-tool answers what the
operator does, and a broken download does not spoil its later answers.

## 2. Modules

Each component is one module with its CONSTANTS (and a named assumption on
them), `TypeOK`, `Init`, an action per call or handler step, `Next`, `Spec`, and
its properties at the end; `ObjectStore`, `EncryptionConfig` and `BroTool` have
`StoreInit`, `ConfigInit`, `ToolInit` and so on, since one proof module extends
several of them. Where faults matter a constant `Faults` says which may happen, and a history variable (`failed`, `happened`, `stuck`, `overlapped`,
`robbed`, `disturbed`, `excused`) records which did, so that a property can say exactly
which faults it does not survive; in the newer modules these are `touched`, `late`,
`doomed`, `raced`, `faulted`, `mixed`, `missed`, `kept`. Definitions whose comment begins with "A bug"
are not part of any specification: each is a plausible error in the definition
that follows it, and each property has one that breaks it.

### RestoreLock, RestoreLease

`RestoreLock` is the abstract promise: restores begin only when none is at work.
`RestoreLease` is the code, one step per API call, for several pods.

| Code | Action |
|---|---|
| `Register`, Get and Delete (`restore/controller.go:125-128`) | `RegisterGet`, `RegisterDelete` |
| `Lock`, Get, then Create, refusal or Update (865-888) | `LockGet`, `LockCreate`, `LockUpdate` |
| the handler between `Lock` and the deferred `Unlock` (146-305) | `Work` |
| `Unlock`, Get and Update (896-913) | `UnlockGet`, `UnlockUpdate` |
| the pod starts, dies | `StartPod`, `Crash` |

Resource versions are abstracted to `fresh[p][r]`: the lease was not written
since that handler read it. `Applies` is the API server's check. The lease has
no expiry in the code, and none in the model. The failing Get of `Lock` and its
refusal leave the handler where it is, since the queue calls it again.

### RestoreRun

One `Restore` from event to `restoreCompletionTs`, with the queue, the informer
and the process around it: `Dequeue` decides on `cached`, `Load`, one `ScaleDown`
or `ScaleUp` per controller, one `Phase` per call of `restoreCRDs`,
`restoreClusterScopedResources`, `restoreNamespacedResources` and `prune`,
`Finish` writes the status of a fresh copy, `Report` is
`setReconcilingCondition`. `saved` is `ControllerReferences[ind].Replicas`:
memory of the attempt, hence lost by `Crash`. `watch` holds the changes on their
way to the informer; `Deliver` makes them the cached copy and queues the key.
`Touch` is somebody else's edit, which is counted among the faults only to bound
it.

### DependencyGraph

What the cluster-scoped and namespaced phases write, and in which order. An
object is its config path. `Generate` is `generateDependencyGraph`; the order in
which Go iterates its maps is the nondeterministic `SetToSeqs`. `RestoreNext` is
one turn of `createFromDependencyGraph` with `restoreResource` inside:
`OwnerRefOutcomes` is `updateOwnerRefs` and `getOwnerNewUID` (keep with new UIDs,
drop all references, or fail). `numOwnerReferences` (`waiting`) is shared by both
phases, as in the code.

### BackupController

One `Backup`, its schedule, its status writes and its callers. Time is counted in
ticks, a schedule is a period, and `metadata.generation` stands for the spec.
`Check` is the chain of early decisions of `OnBackupChange`
(`backup/controller.go:97-148`): `SetType` and `Observe` write the cached copy and
are refused when it is stale, while `Finish` and `Report` get a fresh copy first.
`Finish` mixes that fresh copy with the schedule of the old one (`job`), as the
code does. `Observe` marks the generation in the informer's own copy first
(`backup/controller.go:139`), which stays marked if the `UpdateStatus` fails.

### BackupStore

The archives of several Backups in a volume and a bucket. In a volume the file
exists from `os.Create` on (`Begin` adds it truncated, `Complete` makes it good
or, when a deferred `Close` fails, leaves it truncated); in a bucket it appears
whole with the upload. Names have the time in seconds: an attempt may have the
name of the one before it, whose archive `Put` then replaces by its own, which in
a volume is truncated at first. `List` and `Delete` are the retention, one
deletion per step. A file of a volume that `os.Stat` fails on is passed over
(`skipped`); when too few are left, the process ends (`Panic`). `Matches` says
which Backups' archives a name pattern finds: exact for a volume, while the
pattern for a bucket is not anchored at its start, and in a folder with slashes
around it finds nothing. A Backup that is edited between encrypted and not is two
of them, since its pattern has one extension only.

### ResourceGathering

`GatherResources` against a cluster in which `Change` creates and deletes objects
between any two calls. A regular expression is the set of strings it matches.
Lists come in pages; the first page fixes what the later ones hold, which is the
API server's contract for continue tokens. Kinds without the verb `list` are got
by name (`GetFirst`, `GetNext`, `EndGet`), and there a later selector replaces
what an earlier one gathered.

### EncryptionConfig

Handlers that write, load and remove one file at one path, a step per system
call. `linked` distinguishes a write to the file at the path from a write to a
file whose name was removed meanwhile. Configurations in `Invalid` are written as
any other, and refused when they are loaded.

### LiveCluster, ObjectRestore, Prune, RestoreWrites

One restore from its archive to the end of the pruning, one step per call to the
API server, for the case that errors are not ignored and `prune` is true
(`RestoreRun` has both choices). `LiveCluster` is the API server and what others
do to it; `ObjectRestore` and `Prune` are the code; `RestoreWrites` puts them
together and has the properties.

| Code | Action |
|---|---|
| `LoadFromTarGzip` (`restore/download.go`) | `Load` |
| `restoreCRDs`, `mergeVersionsFromLiveCRD`, Get and Create or Update | `NextCRD`, `Merge`, `GetCRD`, `WriteCRD` |
| `waitCRD`, and its time-out | `WaitCRDs`, `WaitTimesOut` |
| `restoreResource`, call by call | `Get`, `Write`, `WriteStatus`, `ObjectsDone` |
| the second `GatherResources`, `resourcesToDelete` | `Gather` |
| both passes of `deleteResources`, call by call of each worker | `Take`, `GetVictim`, `UpdateVictim`, `DeleteVictim`, `SecondPass`, `Pruned` |
| other users and controllers | `OtherWrites`, `OtherDeletes`, `OtherUpgrades`, `Establish` |

`copy[h]` stands for resource versions: the object of which `h` has the newest
one. A content is `"own"`, `"spec"` or `"archived"`: what was there before, the
archived object without its status, and with it. A kind that has a status
subresource, of a CRD (`StatusCRDs`) or built in (`BuiltInStatus`), takes the status
of a Create or an Update from nobody, and `StatusFollows` is what the code knows of
it: the CRDs in the archive. A CRD keeps its versions, the
one to store under and `status.storedVersions`, and `Accepted` is what the API
server checks of them. The objects are taken in any order, since `DependencyGraph`
says in which.

### ObjectStore

Archives on their way to S3 and back: `uploadToS3` of the Backups,
`downloadFromS3` of the Restores, and the client each of them makes. `MakeClient`
is `SetS3Service` with `setTransport`: it replaces the TLS settings of the one
transport of the process (`tls`), and a request succeeds if those trust its server,
or may succeed on a connection that is still open. `FolderForm` counts the slashes
around a folder, since both transfers make a key of them, each in its way. `Again`
is a turn of a loop of `s3ServerRetries` retries. A failing disk is noticed by
`CreateTarAndGzip` or only by its deferred Closes, and then by nobody ("close").
`Delete` is retention, or somebody
else, at any time.

### WriteOnce, Initializer, Metrics, OperatorStart

`Initializer` is the package's condition variable, one step per operation of
`sync.Once`, the mutex and the condition variable; `WriteOnce` is what it promises.
The code has two of them, for the dev mode and for the chart's namespace; the
second one is set first thing in `Run`, and one instance stands for either.
`Metrics` is one of the two loops, which have the same steps. `OperatorStart` is
`main` and `Run`, a step per stage (the metrics server, which ends the process when
it cannot listen, is `ServerFails`), with the goroutines that use the Initializer and
the metrics loop beside it. `stage` "dev" is `main`, and a process that starts at
"validate" is one that embeds the operator and sets the dev mode otherwise, or never.

### ResourceSetCheck, BroTool

`ResourceSetCheck` has the six filters by which bro-tool decides whether a rule
covers a resource (`match.go`), and those by which the operator gathers it
(`collector.go`), as pure operators on the same rules and resources. A word for a
kind is its kind, its lower case, the name of its resources, or a naive plural.
Kinds in `GetOnly` have no verb `list`: the operator gets what a rule names exactly
(`GotBy`) and disregards its other filters, of which bro-tool knows nothing.
`BroTool` is a run from arguments to exit code, a step per system call, with the
cache of charts that runs share. A file that was removed while another run writes
it is kept apart from the one at the path (`handle`, `file`). The last part of a
download may be lost to an error of the deferred Close, which is dropped.

### What is external

The model assumes of wrangler, client-go and Kubernetes: an update with a stale
`resourceVersion` is refused; a status write that changes the object causes an
event (the comment at `restore/controller.go:838-840` relies on it); a handler
that returns an error is called again; a key is not handled twice at once in one
process; a delaying queue keeps the earlier time of a key; a starting informer
delivers every object; a list is consistent as of its first page; an object being
deleted goes with its last finalizer; a CRD must keep the versions in
`status.storedVersions` and have one to store under. Of S3: an object is there as a
whole or not at all, and a list has what begins with the prefix. Of Go: a mutex
starves nobody, `Cond.Wait` frees it and parks in one step.

## 3. Checks

Every run below is exhaustive for its instance.

| Run | Shows | Bounds |
|---|---|---|
| `lease` | `ImplementsLock`: the refinement of `RestoreLock` holds until a starting pod deletes the lease of a handler at work. `OnlyHolderReleases`: a late Update of `Unlock` never frees another's lease. `HeldIsGivenBack`: every exit gives it back while calls succeed. `SomeRestoreRuns`: no pending restore is locked out for ever | 2 pods, 2 restores, 2 crashes, unlimited API faults |
| `graph` | `OwnersFirst`, `LeftBehindHasCause`, `WellFormedRestoredWhole`, `Ends` | every assignment of owners among 2 cluster-scoped, 2 namespaced objects, a CRD and an absent one in `AllOwners`, cycles and self-references included; three shapes with every choice of specially treated objects; any object may fail |
| `run` | `Quiesced`, `ScaledBackWhenIdle`, `CompletedHonest`, `RestoredOnce`, `Completes` | 2 controllers with 1 and 2 replicas, any 3 faults of 13 kinds, every `prune` and `ignoreErrors` |
| `writes` | `RestoredWhole`: a restore without an error leaves each object as archived, its status included but for built-in kinds and for CRDs outside the archive. `PrunedUnlessRevived`: a pruning without an error leaves no victim. `NoVersionLost`: no version of a CRD is dropped. `FailsForCause`: it fails only when something went wrong. `Ends` | a CRD with 2 versions, 6 objects of every treatment, one of a built-in kind with a status subresource, 2 pruning workers, every state of the cluster to begin with, 1 change by others at any point, unlimited faults |
| `store` | `NoMoreThanKept`: retention leaves no more than `retentionCount` of what it finds and could examine. `SomeGoodKept`: a Backup with a good archive keeps one, unless an attempt of the same second writes over it. `PolicyFollowed`: retention deletes a good one for that many newer good ones only | 3 Backups (volume keeping 2, bucket keeping 1, one-time), 4 archives, unlimited faults |
| `s3` | `FailsForCause`: a transfer that no other client disturbs fails only for a cause of its own, whatever TLS settings were left. `UploadedIsStored`, `LoadsWhole` | 2 Backups and a Restore, 2 object stores, one with credentials of the node or malformed ones, one with static ones and a good or a bad CA, 1 retry, any number of failing calls in at most 2 transfers at a time (`MCFaulted`) |
| `backup` | `WakesUpInTime`, `DueIsTaken`, `NotRepeated` | no schedule, two periods and an invalid one; 1 edit, 2 faults, 2 changes on their way to the informer, 3 ticks |
| `gather` | `OnlySelected`, `NothingMissed` | 4 selectors, 7 objects of 5 kinds, pages of 1 object, 2 changes |
| `config` | `NoKeysLeft`, `UndisturbedIsRight` | 3 handlers, 3 configurations of which one is invalid, unlimited faults |
| `process` | `ImplementsRegister`: the Initializer is a register that is written once. `WaitersReturn`: whoever waits for it returns. `DefaultsAgree`: Backups and Restores have the same default location. `RowsOfListed`: one row for each CR that was listed | `main`, a goroutine that sets the dev mode, one that waits with a deadline; every combination of options but for some that nothing depends on; 2 CRs, 2 messages, 2 attempts to list |
| `tool` | `MirrorsOperator`: the rules that are printed are those by which the operator gathers the resource, caveats apart; of a kind that cannot be listed, if the rule gives exact names and nothing else. `UnreadableForCause`: half a chart is found only after a kill, an overlap or a Close that failed | 2 runs, 3 resources described in every way, one of a kind that can only be got, rules of some hundred shapes, 2 parts of a download |
| `graph_lost` | the disagreement of section 5 | the smallest that reaches it |

Type invariants are proved for all modules; `writes`, `s3` and `tool` check them as
well.

**Why the bounds are enough.** The lease is one object and a race is between two
handlers; a third restore or pod adds nobody who can do something new, and the
theorems cover any number. Three faults are enough for an attempt that fails, a report
of it that fails, and a failure of the retry. Two owners per object and both scopes
reach every branch of the counting, two objects of a scope a cycle; the theorems cover
every archive. Four archives let a Backup that keeps two go through its retention
twice, while another one interferes. One edit can fall into every gap of the backup
handler, before or after the fault or crash that makes it matter, and three ticks
hold a whole period and the beginning of the next. One object per page makes a list of
two take two calls, and two changes create and delete an object or swap two. Three
handlers are two that overlap and one that comes after them; so are two Backups and a
Restore, of which two share a store; the third is then one whose calls succeed, beside
one that fails or two. Two workers meet at an object that two selectors select, and
one change by others, against one object at work, falls into any gap between its
calls. Versions matter to the restore as archived or not, and stored under or not,
which two in all states of the cluster combine. A loop with one retry has a first, and
a last turn, which is what its end depends on. Three goroutines are one that sets the
value, one parked, and one that comes late or gives up; the metrics loop, which shares
no state with them, is explored in processes where only `main` calls the Initializer.
Two runs of bro-tool share its cache; rules of every shape are asked of a chart at a
path, since the answer does not depend on the cache. Deadlock checking is off where
the behaviour really ends: a completed restore, a finished loop, a bound on time or
archives, the exit of bro-tool, a process in which nobody sets the dev mode. It is on
for `config` and `s3`, whose handlers go on for ever.

**Fairness.** `RestoreLease`: a process that is down is restarted (kubelet) and a
handler goes on or is called again (work queue, with backoff); fairness never
makes a pod overlap another, crash, or call fail. `DependencyGraph`: one
goroutine that nothing blocks. `RestoreRun`, `BackupController`: a worker takes
what is queued and goes on, events and timers arrive, the process restarts;
users, clock and faults are under no obligation. `RestoreWrites`: the
handler and its workers run on, and the time-out of `waitCRD` comes; nobody owes a
successful call, nor that a CRD is ever served. `OperatorStart`: goroutines and
`main` run on, and a goroutine that wants a mutex gets it if it is free again and
again, as Go's mutexes hand over to waiters that starve: the one strong fairness.
No liveness is claimed for the others.

**What the properties do not survive** is written into them as a condition on the
history, instead of into the instance. For example `ScaledBackWhenIdle` excuses a
crash, and a controller that could not be got or scaled up, but not an `Update`
that failed on the way down, a failed phase, a lost reply or a retry; `RestoredOnce`
excuses lost replies and edits by others, but not crashes and failed status writes;
`PrunedUnlessRevived` excuses what others wrote during the second pass only, and
`FailsForCause` of `s3` the clients of other configurations made in between, not those
made before. `SomeGoodKept` and `PolicyFollowed` excuse an archive that an attempt of
the same second writes over, but neither a crash nor an error that somebody notices;
`NoMoreThanKept` excuses files that `os.Stat` failed on.

## 4. Proofs

The modules `*_proofs` prove, for every value of the constants that satisfies the
named assumption:

| Module | Theorems | Argument |
|---|---|---|
| `RestoreLease_proofs` | `TypeCorrect`, `LeaseNamesHolder`, `Exclusion`, `RobbersOverlap`, `NoTheft`, `EveryExitGivesBack`, `Refinement` | `IInv`: a handler about to Update, whose version is fresh, knows what the lease holds (`FreshIsCurrent`); unless robbed, a handler past `Lock` is named by the lease (`HolderIsNamed`) and is the only one (`OneHolder`). `HolderIsNamed` alone is not inductive: an Update of `Lock` could overwrite a holder, and one of two handlers of a restore in different pods could free the lease the other one needs. Exclusion follows, and the refinement step by step. `SoloInv`: a pod that deletes the lease has no handler yet (`NoneBegun`), and without overlap no other pod is up (`OnePodUp`). `GivenInv`: as long as every call succeeds, what a handler read to give the lease back is still fresh when it updates (`StillFresh`), so the Update is not refused |
| `DependencyGraph_proofs` | `TypeCorrect`, `OwnersComeFirst`, `NoneQueuedTwice`, `LeftBehindExplained`, `WellFormedWhole` | `IInv`: `GraphExact` says whose dependents list an object is on, `CountExact` that its counter is the number of those owners still to be restored, `QueueExact` that the work list holds exactly the untried objects that wait for none, without repetition, `Stages` which objects can have been tried in which phase, `PastPhases` what an ended phase leaves |
| `RestoreRun_proofs` | `TypeCorrect`, `QuietDuringPhases`, `ControllersComeBack`, `CompletionIsEarned`, `NotRunAgain`, `CompletionIsClean` | one strengthening each: `Stopping` (which controllers are down at which place), `Known` (each controller is at its original count or that count is saved), `Before` (the phases done by the place the handler has reached), `UpToDate` (a handler runs on the newest copy with no event on its way, and between two handlers at most the event of the last one is) |
| `BackupController_proofs` | `TypeCorrect`, `NeverForgotten`, `OneTimeIsOnce` | `WakeInv`: all copies of a Backup that always had a schedule have one and were never taken for one-time (`Recurring`), and the last event still to arrive, or else the cache, is the current Backup, marked as observed perhaps (`Following`). `OnceInv`: while nobody edits a one-time Backup, the informer has the current copy, or nothing calls the handler until it has (`Caught`) |
| `BackupStore_proofs` | `TypeCorrect`, `GoodArchiveStays`, `RetentionHolds`, `PolicyIsFollowed` | `KeepInv`: numbers identify archives (`Numbered`), victims match the pattern (`VictimsMatch`), and, as long as every truncation was noticed, an attempt that is to delete has written the newest archive of its Backup, which is good and no victim (`OursIsKept`); where archives disappear otherwise, they are written over. `NumberedOnce`: a number is given to one archive, so that the archives are finite and the newest `Keep` are at most that many; `FewRemain`: no more archives of the Backup than that are no victims. `FollowInv`: the good archives that are no victims are enough and newer than each victim (`EnoughNewer`) |
| `RestoreWrites_proofs` | `TypeCorrect`, `VersionsKept`, `WrittenWhole`, `PrunedIsGone`, `FailureHasCause` | `Places`: where the restore and its workers are, and what they may be at. `MergeInv`: as long as the restore's copy of a CRD is current, every version the CRD has is in what was merged. `WholeInv`: an object the restore owes is still on the list, or at work, or whole. `PruneInv`: in the second pass a victim is still queued, or gone, or with a worker that will delete it (`Covered`), whose finalizers are gone by the time it calls `Delete` (`WorksOn`). `CalmInv`: as long as no call failed and nobody interfered, the next request is one the API server accepts, of a CRD (`CalmCRDs`), an object (`CalmObjects`) or a victim, which one worker has (`CalmPrune`) |
| `Selection_proofs`, of `ResourceGathering` | `TypeCorrect`, `ArchiveIsSelected`, `ArchiveIsComplete` | `SoundInv`: everything listed or gathered existed and is selected; `CompleteInv`: everything that stayed and that a selector selects is gathered once the selector is through with its kind, and while the kind is at work it is listed or still to be read |
| ... and of `BroTool` | `ToolTypeCorrect`, `ToolMirrorsOperator`, `HalfAChartForCause` | `AnswerInv`: what is printed is what one reading of the description finds, which `MatchedAsGathered` compares with what the operator gathers; it rests on `Candidates`: of the words tried for a kind, the two that discovery has match whatever all three do. `CacheInv`: as long as no two runs overlap, none is killed in a download and no Close of one fails, the chart in the cache is whole or its run is still at it |
| `Process_proofs`, of `OperatorStart` | `StartTypeCorrect`, `DefaultsAreOne`, `RowsAreListed`, `RegisterImplemented` | `StartInv`: a goroutine in a critical section holds the lock of the one condition variable (`Holding`), so one at most is past the check of the flag (`Setting`), and the flag is set only over a value (`HasValue`); a CR that was listed is in one row or still an item, and the count is that of both (`MetricsInv`); the branches of `Run` leave one default (`OneDefault`), of which there is none before (`NotStarted`) |
| ... of `ObjectStore` | `StoreTypeCorrect`, `DoneIsStored`, `LoadedIsWhole`, `TransferFailsForCause` | `UploadInv`: an upload reaches its cleanup without a failure only with its archive stored. `DownloadInv`: what is on the disk at each place. `CauseInv`: between requests, a transfer whose TLS settings nobody replaced finds its own (`Undisturbed`), and in a plain folder it seeks its archive where it is (`PlainSought`, by `StoreKeys`) |
| ... and of `EncryptionConfig` | `ConfigTypeCorrect`, `KeysAreRemoved`, `UndisturbedLoadsItsOwn` | `SomebodyRemoves`: while there is a file, some handler is on its way to removing it; `Alone`: what an undisturbed handler has made of the file so far |

`Process_proofs` is about what all goroutines of the process share, and
`Selection_proofs` about what a ResourceSet selects. Each EXTENDS all the components
it is about, which is why the definitions of those have names of their own
(`StoreInit`, `ConfigSpec`, `tool`). A theorem about one of them uses the assumption
of that component only. TLC evaluates all the assumptions.

No theorem needs an assumption beyond that of its module. In particular the number
of pods, restores, controllers, objects, selectors, Backups, handlers, goroutines and
CRs, `retentionCount`, the page size and every bound on faults are arbitrary.

**Two assumptions the proofs asked for.** `ClusterAssumption` says that `Nothing` is
not the name of an object, a CRD or a holder, or "has no copy" could be a copy; and
`PruneAssumption` that what is selected was gathered at least once.

**Proved, and not in a run**: the type invariants of the other modules;
`MutualExclusion`, `HolderIsNamed` and `RobbedByOverlap` of `RestoreLease`, `QueuedOnce` of
`DependencyGraph`, `CompletedIsClean` of `RestoreRun`. Adding one to its `.cfg` checks it.

**Only model-checked.** Liveness (`SomeRestoreRuns`, `Ends`, `Completes`,
`DueIsTaken`, `WaitersReturn`), since the proof system does not handle fairness and
ENABLED. Every invariant and every other action property of a run that passes is
proved. No theorem speaks of what a recursive definition computes for every input.

## 5. Findings

One is a run that TLC ends with a counterexample:

- `graph_lost`: an object whose owner is not in the archive is never put on the
  work list, and no error is reported (`restore/controller.go:607-626`), although
  `restoreResource` is ready to restore it without the reference (666). It takes
  its own dependents with it. `docs/contributing-resourcesets.md:13`: "Restores are
  all-or-nothing. There is no partial restore."

These are properties that fail when they are added to a run's `.cfg`:

| Property | Add to | What the code does |
|---|---|---|
| `HeldMeansInProgress` | `lease` | the error of the deferred `Unlock` is dropped (`restore/controller.go:146`): the lease names a restore that has ended, and every other one is refused with "restore %v is in progress" until the operator restarts |
| `ScaledBack` | `run` | the replica counts are lost with the process (`pause.go:33`): the next attempt reads 0 and "restores" 0 |
| `OwnFilesOnly` | `store`, with `Matches <- SuffixMatches` and `InVolume = {}` | the pattern for a bucket is not anchored (`retention.go:116`): `daily` deletes archives of `my-daily` |
| `GoodOutlivesRetry` | `store` | file names have a resolution of a second (`backup/controller.go:351-357`), and `os.Create` truncates (`upload.go:46`): an attempt in the second of the last one destroys its archive, which may be the only good one, before it has another |
| `RetentionReaches` | `store`, with `Matches <- SlashMatches` (and as it is) | retention lists a bucket by the folder as it is written (`retention.go:95`), while uploads trim its slashes (`upload.go:28`): of "/folder" it finds nothing and ends well. In a volume it skips what `os.Stat` fails on (67) and also ends well |
| `PrintedIsGathered` | `tool` | of a kind that can be got and not listed the operator gathers exact names only (`collector.go:80-86`); bro-tool does not ask, and prints without a caveat rules by which nothing is gathered |
| `NoHalfChart` | `tool` | a kill, a second run, or an error of the deferred Close (`fetch.go:87`) leave half a chart, which every later run takes for the chart |
| `StatusRestored` | `writes` | status subresources are known of CRDs in the archive only (`restore/controller.go:601`): the API server drops the status of a built-in kind, and of a custom resource whose CRD is not in the archive, and nothing writes it |
| `OwnConfig` | `config` | two handlers that overlap in the shared file (`encryptionconfig/config.go:51`) encrypt with the key of the other's Secret |
| `ArchivedStays` | `writes`, with `NamedFilters = {app}` | an archived object whose path contains "filters" is passed over as if it were the ResourceSet (`restore/download.go:70`), and then pruned |
| `OwnMessage` | `process` | a CR without conditions has the message of the one before it (`metrics.go:128`), where the help text promises "Details on a specific Rancher Backup CR" (30) |

Further deviations met while modelling have no property of their own. The properties
exclude them by the conditions on their histories, or are stated so that they hold
with them:

- a Get that fails on scaling down leaves the saved count 0, and scaling up sets
  it (`pause.go:15`; excluded from `ScaledBackWhenIdle`);
- with `ignoreErrors` the first error scales the controllers up while the phases
  go on (`restore/controller.go:235`; excluded from `Quiesced`);
- a lost reply to the completing `UpdateStatus` puts a Reconciling condition on a
  completed `Restore` (`restore/controller.go:300`; excluded from
  `CompletedIsClean`);
- a truncated archive in a volume counts as one of those to keep (`upload.go:46`;
  excluded from `PolicyFollowed` by `NoneTruncated`);
- with fewer files than `retentionCount` that `os.Stat` can examine, the slice at
  `retention.go:79` panics, which ends the process (`Panic`);
- once a Backup is encrypted, or no longer, retention leaves its older archives alone,
  since each pattern ends with one extension (`retention.go:49-53, 113-117`);
- an `UpdateStatus` of the observed generation that fails leaves the informer's copy
  marked, and is not made again before the next snapshot (`backup/controller.go:139`);
- an error that is reported calls a one-time Backup twice, and the second call may
  see the copy from before its completion (`backup/controller.go:387`; excluded from
  `NotRepeated`);
- an edit during a snapshot is marked as observed (`backup/controller.go:217`): it
  is not processed, and a one-time Backup that is given a schedule in that moment
  is skipped for ever (excluded from `WakesUpInTime` and `DueIsTaken` by
  `unscheduled`);
- names in `resourceNames` are gathered in spite of `excludeResourceNameRegexp`
  (`collector.go:251` against `docs/contributing-resourcesets.md:194`; `NameSelected`
  says what the code does);
- of a kind that can only be got, a later selector replaces what an earlier one
  gathered (`collector.go:86`; `Stands` in `NothingMissed`);
- an object that two selectors match is in the object map twice (`collector.go:101`
  against `docs/contributing-resourcesets.md:277`); an archive holds it once, since
  both go to one file;
- a handler removes the configuration file another one is about to load
  (`encryptionconfig/config.go:37`): its load fails (excluded from
  `UndisturbedIsRight` by `disturbed`);
- an object that is being deleted when it is restored gets an Update with the
  archived finalizers; if there are none it is gone at once, and no error is
  reported (`restore/controller.go:728`; `doomed` in `RestoredWhole`);
- a version that is added to a CRD between the merge and the Update is dropped again
  (`crd.go:30`; `raced` in `NoVersionLost`);
- pruning takes an Update of an object that is gone or has changed for an error
  (`prune.go:102`), although it tolerates a Get and a Delete of one that is gone: two
  selectors with the same victim can fail a restore (`FailsForCause` names both);
- making a client replaces the TLS settings of the whole process
  (`s3minio.go:300`): transfers of other configurations, the retention's client
  included, fail or trust the wrong CA in the meantime (`mixed`);
- the endpoint of AWS is written into the configuration it was called with
  (`s3minio.go:75`), where it stays for later calls (`endpoint`);
- the loop around `GetObject` never makes a second turn for a failed request, as
  none is made before the object is read (`s3minio.go:255`; `ListObjects` and `Copy`);
- uploads and downloads make different keys of a folder with several slashes at
  its end or one at its beginning (`upload.go:27`, `download.go:31`; `PlainFolder`);
- an archive that was downloaded and cannot be loaded stays in the temporary
  directory (`LoadAndRemove`);
- `Run` of a program that does not set the dev mode waits for it for ever
  (`start.go`; deadlock checking is off in `process`);
- `DevModeContext` may answer false in dev mode, after 5 ms (`GiveUp`);
- metrics that cannot be listed are published as if there were no CR
  (`metrics.go:240`; `listed` is empty then);
- of bro-tool: `buildSourceIndex` never takes a file, against its comment
  (`render.go:81-89`); an `--api-version` that is omitted does not match any but is
  inferred, of several groups by the iteration over a map (`cmd.go:34`;
  `Comparable`); a kind that a rule both names and excludes is gathered but not
  printed (`Comparable`); plurals that are irregular, or are what the user gives, do
  not work "in either form" (`match.go:137`; `Comparable`); the exit code does not tell
  "not covered" from an error.

## 6. Not modelled

- *The contents of objects*: the comparison of an object with the live one, the
  merge of metadata, schemas of CRDs, encryption, and the archive's format. The order
  of objects and the outcome of writing one are modelled, its fields are not.
- *Counters of finished Backups* (`UpdateProcessedBackupMetrics`,
  `UpdateTimeSensitiveBackupMetrics`): nothing reads them back.
- *Details of the object store client*: regions, dual stack, bucket lookup style, and
  transfers in dev mode. The 5 ms for which `GetS3Client` waits for it
  (`s3minio.go:157-161`) make no difference outside dev mode.
- *Edits of `retentionCount`* and *the deletion of a Backup*: it has no finalizers, so it
  is gone without the handler, and its archives stay (`backup/controller.go:100`).
- *The Ready condition and `status.storageLocation`*, which the handler writes into
  the copies it has (`backup/controller.go:290, 304`): no step reads them.
- *Output formats of bro-tool*, and the names of the files rules come from.
- *API types, generated clients, code generation, charts, end-to-end tests*:
  declarations, code generated from them, and what runs at build time only.
- *Expiry of time*: `deleteTimeoutSeconds`, backoff, and the clock of `RestoreRun`.
- *A backup during a restore*: nothing in code or documents excludes it.
  `ResourceGathering` has the cluster change at any point, by whomever.

## 7. Plan

Every component with state of its own has its module. What could follow:

1. Compositions: `RestoreRun` with `RestoreLease`, several Restores, their queues and
   the lease, replacing `Work`; `BackupController` with `BackupStore`, so that an
   attempt is a scheduled one; `DependencyGraph` with `ObjectRestore`.
2. Theorems: that `RestoreRun` and `DependencyGraph` leave what their compositions
   with `RestoreLease` and `ObjectRestore` need of them.
