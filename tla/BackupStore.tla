----------------------------- MODULE BackupStore -----------------------------
(***************************************************************************)
(* The archives the Backups leave in their storage location, the persistent*)
(* volume or an S3 bucket, and how the retention policy deletes them again.*)
(* Two workers run the handlers of different Backups at the same time; one *)
(* attempt is                                                              *)
(*                                                                         *)
(*   write    CreateTarAndGzip makes the archive: in the volume itself,    *)
(*            where the file is visible, and stays, from its creation on,  *)
(*            or in a temporary directory from which it is uploaded        *)
(*   list     finds the archives the Backup's name pattern matches         *)
(*   delete   removes all but the newest spec.retentionCount of them, one  *)
(*            by one, the newest first                                     *)
(*                                                                         *)
(* Archives are numbered in the order of their modification times.  When an*)
(* attempt is made, by the schedule or as a retry, is BackupController's   *)
(* subject; here it is made at any time, also in the second of the one     *)
(* before, whose archive it then overwrites.                               *)
(***************************************************************************)
EXTENDS Naturals, FiniteSets

CONSTANTS
  Backups,      \* the Backups, as two if archives of one were encrypted and not
  Recurring,    \* those with a schedule: the others have no retention
  Keep,         \* spec.retentionCount of each
  Matches,      \* Matches[b]: Backups whose archives match b's name pattern
  InVolume,     \* those that store in the volume: the others use the bucket
  Faults,       \* what may go wrong, see FaultKinds
  MaxArchives   \* bound on the archives of a behaviour

FaultKinds ==
  {"tar",       \* CreateTarAndGzip returns an error
   "flush",     \* its deferred Close fails, which nobody notices
   "upload",    \* the upload fails, or it is done and its reply is lost
   "list",      \* listing the archives fails
   "stat",      \* os.Stat of an archive fails
   "panic",     \* os.Stat of so many fails that too few remain
   "delete",    \* deleting one fails
   "crash"}     \* the operator's process ends

\* The name pattern for a volume is anchored to its directory.  The one for a
\* bucket matches any name that ends with a name of b: archives of "daily"
\* and of "my-daily".  There the folder is the prefix of a list as it is written
\* (retention.go:95), while the key of an upload is without its leading and
\* trailing slashes (upload.go:28): of "/folder" or "folder//" nothing is found.
\* A pattern has the extension of encrypted archives or that of others.  A
\* Backup that is edited in that respect counts as another from then on.
ASSUME StoreAssumption ==
  /\ Recurring \subseteq Backups
  /\ InVolume \subseteq Backups
  /\ Keep \in [Backups -> Nat \ {0}]
  /\ Matches \in [Backups -> SUBSET Backups]
  /\ \A b \in InVolume : Matches[b] = {b}
  /\ \A b \in Backups \ InVolume : Matches[b] \subseteq Backups \ InVolume
  /\ Faults \subseteq FaultKinds
  /\ MaxArchives \in Nat

VARIABLES
  archives,     \* in the volume and in the bucket
  last,         \* number of the newest archive so far
  pc,           \* pc[b]: where the handler of b is
  own,          \* own[b]: number of the archive with the name this attempt of b
                \* writes to, 0 if there is none
  skipped,      \* skipped[b]: archives its retention could not examine
  victims,      \* victims[b]: archives it still has to delete
  happened      \* history: the kinds of faults so far

vars == <<archives, last, pc, own, skipped, victims, happened>>

Archive == [number : 1..MaxArchives, backup : Backups, good : BOOLEAN]

TypeOK ==
  /\ archives \subseteq Archive
  /\ last \in 0..MaxArchives
  /\ pc \in [Backups -> {"idle", "write", "list", "delete", "kept"}]
  /\ own \in [Backups -> 0..MaxArchives]
  /\ skipped \in [Backups -> SUBSET Archive]
  /\ victims \in [Backups -> SUBSET Archive]
  /\ happened \subseteq Faults

Init ==
  /\ archives = {}
  /\ last = 0
  /\ pc = [b \in Backups |-> "idle"]
  /\ own = [b \in Backups |-> 0]
  /\ skipped = [b \in Backups |-> {}]
  /\ victims = [b \in Backups |-> {}]
  /\ happened = {}

-----------------------------------------------------------------------------
Goto(b, p) == pc' = [pc EXCEPT ![b] = p]

Fault(k) == k \in Faults /\ happened' = happened \cup {k}

NoFault == UNCHANGED happened

\* The archive of b's attempt, truncated or not.
ArchiveOf(b, n, good) == [number |-> n, backup |-> b, good |-> good]

\* What is written appears in the location, newer than all others, in the place
\* of the archive that has its name.
Put(b, name, good) ==
  /\ last < MaxArchives
  /\ last' = last + 1
  /\ own' = [own EXCEPT ![b] = last']
  /\ archives' = {a \in archives : ~(a.backup = b /\ a.number = name)}
                   \cup {ArchiveOf(b, last', good)}

\* Where an attempt goes when its archive is written.
Kept(b) == IF b \in Recurring THEN "list" ELSE "kept"

\* generateBackupFilename, whose names have the time in seconds: the name may be
\* that of the last attempt.  performBackup has gathered the objects; os.Create
\* makes the file, or truncates it.
Begin(b) ==
  /\ pc[b] \in {"idle", "kept"}
  /\ last < MaxArchives
  /\ Goto(b, "write")
  /\ \E name \in {0, own[b]} :
       IF b \in InVolume
       THEN Put(b, name, FALSE)
       ELSE own' = [own EXCEPT ![b] = name] /\ UNCHANGED <<archives, last>>
  /\ skipped' = [skipped EXCEPT ![b] = {}]
  /\ UNCHANGED <<victims, happened>>

\* CreateTarAndGzip returns without an error.  What is buffered is written by
\* the Close that follows.
Complete(b) ==
  /\ pc[b] = "write"
  /\ Goto(b, Kept(b))
  /\ \E good \in BOOLEAN :
       /\ IF good THEN NoFault ELSE Fault("flush")
       /\ IF b \in InVolume
          THEN /\ archives' = (archives \ {ArchiveOf(b, own[b], FALSE)})
                                \cup {ArchiveOf(b, own[b], good)}
               /\ UNCHANGED <<last, own>>
          ELSE Put(b, own[b], good)
  /\ UNCHANGED <<skipped, victims>>

\* It, or the upload, returns an error.  What is in the location stays there.
Fail(b) ==
  /\ pc[b] = "write"
  /\ Goto(b, "idle")
  /\ \/ Fault("tar") /\ UNCHANGED <<archives, last, own>>
     \/ /\ b \notin InVolume
        /\ Fault("upload")
        /\ Put(b, own[b], TRUE) \/ UNCHANGED <<archives, last, own>>
  /\ UNCHANGED <<skipped, victims>>

-----------------------------------------------------------------------------
(* deleteBackupsFollowingRetentionPolicy                                   *)

\* The archives b's pattern finds.
Found(b) == {a \in archives : a.backup \in Matches[b]}

Newer(a, S) == {c \in S : c.number > a.number}

\* Bugs: one too many or too few are kept; the oldest ones are kept.
ExpiredTooFew(b, S) == {a \in S : Cardinality(Newer(a, S)) > Keep[b]}
ExpiredTooMany(b, S) == {a \in S : Cardinality(Newer(a, S)) >= Keep[b] - 1}
ExpiredNewest(b, S) ==
  {a \in S : Cardinality({c \in S : c.number < a.number}) >= Keep[b]}

\* What is beyond the newest Keep[b] of them.
Expired(b, S) == {a \in S : Cardinality(Newer(a, S)) >= Keep[b]}

TooMany(b) == Cardinality(Found(b)) > Keep[b]

\* In a volume, a file that os.Stat fails on is logged and passed over.
List(b) ==
  /\ pc[b] = "list"
  /\ \/ /\ NoFault
        /\ Goto(b, "delete")
        /\ victims' = [victims EXCEPT ![b] = Expired(b, Found(b))]
        /\ UNCHANGED skipped
     \/ /\ b \in InVolume /\ TooMany(b)
        /\ Fault("stat")
        /\ Goto(b, "delete")
        /\ \E S \in SUBSET Found(b) :
             /\ Cardinality(S) >= Keep[b]
             /\ victims' = [victims EXCEPT ![b] = Expired(b, S)]
             /\ skipped' = [skipped EXCEPT ![b] = Found(b) \ S]
     \/ Fault("list") /\ Goto(b, "idle") /\ UNCHANGED <<skipped, victims>>
  /\ UNCHANGED <<archives, last, own>>

\* The next archive to delete.  A bucket does not mind when somebody else has
\* deleted it; nobody else deletes in a volume.
Delete(b) ==
  /\ pc[b] = "delete"
  /\ \E a \in victims[b] :
       /\ Newer(a, victims[b]) = {}
       /\ \/ /\ NoFault
             /\ archives' = archives \ {a}
             /\ victims' = [victims EXCEPT ![b] = @ \ {a}]
             /\ UNCHANGED pc
          \/ /\ Fault("delete")
             /\ Goto(b, "idle")
             /\ victims' = [victims EXCEPT ![b] = {}]
             /\ UNCHANGED archives
  /\ UNCHANGED <<last, own, skipped>>

EndDelete(b) ==
  /\ pc[b] = "delete"
  /\ victims[b] = {}
  /\ Goto(b, "kept")
  /\ UNCHANGED <<archives, last, own, skipped, victims, happened>>

\* The process ends.  A file in the volume is left as it is.
End ==
  /\ pc' = [b \in Backups |-> "idle"]
  /\ victims' = [b \in Backups |-> {}]
  /\ UNCHANGED <<archives, last, own, skipped>>

\* Of what was examined the first Keep[b] are sliced off, whether there are as
\* many or not (retention.go:79).
Panic(b) ==
  /\ pc[b] = "list"
  /\ b \in InVolume /\ TooMany(b)
  /\ Fault("panic")
  /\ End

Crash ==
  /\ Fault("crash")
  /\ \E b \in Backups : pc[b] \notin {"idle", "kept"}
  /\ End

-----------------------------------------------------------------------------
Attempt(b) ==
  \/ Begin(b) \/ Complete(b) \/ Fail(b)
  \/ List(b) \/ Panic(b) \/ Delete(b) \/ EndDelete(b)

Next == Crash \/ \E b \in Backups : Attempt(b)

Spec == Init /\ [][Next]_vars

-----------------------------------------------------------------------------
(* Properties                                                              *)

\* No pattern matches archives of b and of another Backup.
Alone(b) ==
  \A c \in Backups : c \in Matches[b] \/ b \in Matches[c] => c = b

Good(b) == {a \in archives : a.backup = b /\ a.good}

\* Every error that truncates an archive has been noticed.
Noticed == "flush" \notin happened

\* An attempt of b writes to the name of its last archive, which is gone by that.
Overwrites(b) ==
  \E a \in archives :
    /\ a.backup = b /\ a.number = own[b]
    /\ a \notin archives' /\ own'[b] # own[b]

\* A Backup of which a good archive exists is never left without one: not by a
\* crash between writing and deleting, not by archives that failed, not by
\* retention; but for one case: an attempt in a volume that begins in the
\* second of the last one truncates its archive (upload.go:46).
SomeGoodKept ==
  [][Noticed' => \A b \in Backups :
       Alone(b) /\ Good(b) # {} =>
         Good(b)' # {} \/ (b \in InVolume /\ Overwrites(b))]_vars

\* When retention is through, a Backup whose pattern finds its own archives has
\* no more of them than its retentionCount, those of failed attempts and of
\* retries included, but for those that could not be examined.
NoMoreThanKept ==
  \A b \in Recurring :
    b \in Matches[b] /\ pc[b] = "kept" =>
      Cardinality({a \in archives : a.backup = b} \ skipped[b]) <= Keep[b]

\* No truncated archive of b can have been left behind.
NoneTruncated(b) ==
  Noticed /\ (b \in InVolume => {"tar", "panic", "crash"} \cap happened = {})

\* What the log says a deletion is for, "to follow backup's policy of retaining
\* %v backups" (retention.go:80): a good archive is deleted, and not written
\* again, only when the Backup has that many good archives that are newer.
PolicyFollowed ==
  [][\A b \in Backups : \A a \in Good(b) :
       Alone(b) /\ NoneTruncated(b) /\ a \notin archives' =>
         Overwrites(b) \/ Cardinality(Newer(a, Good(b))) >= Keep[b]]_vars

\* What retention.go:124 says, "only parse backup file names that matches
\* backup format": the retention of one Backup leaves the archives of the
\* others alone.
OwnFilesOnly ==
  \A b \in Backups : \A a \in victims[b] : a.backup = b

\* A good archive is not lost to a retry.
GoodOutlivesRetry ==
  [][Noticed' => \A b \in Backups :
       Alone(b) /\ Good(b) # {} => Good(b)' # {}]_vars

\* When retention is through, no Backup has more archives than retentionCount.
RetentionReaches ==
  \A b \in Recurring :
    pc[b] = "kept" => Cardinality({a \in archives : a.backup = b}) <= Keep[b]
=============================================================================
