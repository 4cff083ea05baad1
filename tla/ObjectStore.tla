---------------------------- MODULE ObjectStore ----------------------------
(***************************************************************************)
(* Archives on their way to S3 and back: uploadToS3 of the Backups,        *)
(* downloadFromS3 of the Restores, and the client that package objectstore *)
(* makes for each of them.  All clients share http.DefaultTransport, whose *)
(* TLS configuration each one replaces with its own.  They speak TLS, as   *)
(* the operator does outside the dev mode, whether it is known within the  *)
(* 5 ms that GetS3Client waits for it or not.                              *)
(*                                                                         *)
(* One step is one request, or what is done between two.  Retention and    *)
(* other users of the bucket may delete what is stored at any time.        *)
(***************************************************************************)
EXTENDS FiniteSets, Naturals

CONSTANTS
  Uploaders,    \* handlers of Backups
  Downloaders,  \* handlers of Restores
  Stores,       \* S3 configurations
  Names,        \* file names of archives
  Extensions,   \* Extensions[n]: names that begin with n, n among them
  StoreOf,      \* StoreOf[h]: storageLocation.s3 of its resource
  NameOf,       \* NameOf[h]: the archive h makes, or spec.backupFilename
  Server,       \* Server[s]: the server behind the endpoint of s, and bucket
  Folder,       \* Folder[s]: see FolderForm
  Settings,     \* Settings[s]: what its Secret and its CA may amount to
  Trusts,       \* Trusts[s]: the servers the TLS settings of s accept
  NoEndpoint,   \* configurations without an endpoint
  Present,      \* objects that may be there from earlier
  Retries,      \* s3ServerRetries
  StoreFaults   \* which calls may fail, see StoreFaultKinds

Handlers == Uploaders \cup Downloaders

StoreFaultKinds ==
  {"disk",      \* writing to the local file system fails
   "close",     \* the same, noticed only by a deferred Close, whose error
                \* nobody looks at
   "request",   \* a request fails and is not applied
   "lost"}      \* a request is applied and its answer is lost

\* Slashes before and after a folder, which may have no name.
FolderForm == [lead : Nat, dir : BOOLEAN, trail : Nat]

\* What Secret and endpointCA amount to: a key; no key, or no Secret is named;
\* a Secret GetS3Client refuses; a CA that is no certificate.
SettingKinds == {"static", "iam", "malformed", "bad ca"}

Default == "default"    \* the TLS settings before any client was made

\* The keys as they are written, and the name at their end.
Objects == [server : {Server[s] : s \in Stores}, key : FolderForm, name : Names]

ASSUME StoreAssumption ==
  /\ Uploaders \cap Downloaders = {}
  /\ Default \notin Stores
  /\ Extensions \in [Names -> SUBSET Names] /\ \A n \in Names : n \in Extensions[n]
  /\ StoreOf \in [Handlers -> Stores]
  /\ NameOf \in [Handlers -> Names]
  /\ DOMAIN Server = Stores
  /\ \A s \in Stores : Folder[s] \in FolderForm
  /\ Settings \in [Stores -> SUBSET SettingKinds]
  /\ \A s \in Stores : Server[s] \in Trusts[s]
  /\ NoEndpoint \subseteq Stores
  /\ Present \subseteq Objects
  /\ Retries \in Nat
  /\ StoreFaults \subseteq StoreFaultKinds

VARIABLES
  tls,          \* whose settings http.DefaultTransport has
  endpoint,     \* configurations of which bc.Endpoint is set
  stored,       \* objects in the buckets: their server, key and name
  pc,           \* pc[h]: what h does next
  tries,        \* tries[h]: retries, in each of its loops
  setting,      \* setting[h]: what its Secret and its CA amounted to
  disk,         \* disk[h]: the local file or directory of its transfer
  result,       \* result[h]: how its last transfer ended
  mixed,        \* history: others have replaced the TLS settings of h
  faulted,      \* history: a call of h has failed
  kept,         \* history: this transfer has stored its archive
  missed        \* history: it was absent, or was deleted, in this transfer

transfers == <<tls, endpoint, stored, pc, tries, setting, disk, result, mixed,
               faulted, kept, missed>>

StoreTypeOK ==
  /\ tls \in Stores \cup {Default}
  /\ endpoint \subseteq Stores
  /\ stored \subseteq Objects
  /\ pc \in [Handlers -> {"idle", "archive", "secret", "client", "bucket", "put",
                          "list", "copy", "cleanup", "load"}]
  /\ tries \in [Handlers -> 0..Retries]
  /\ setting \in [Handlers -> SettingKinds]
  /\ disk \in [Handlers -> {"nothing", "partial", "whole", "other"}]
  /\ result \in [Handlers -> {"none", "failed", "left", "done"}]
  /\ \A set \in {mixed, faulted, kept, missed} : set \subseteq Handlers

StoreInit ==
  /\ tls = Default
  /\ endpoint = Stores \ NoEndpoint
  /\ stored \in SUBSET Present
  /\ pc = [h \in Handlers |-> "idle"]
  /\ tries = [h \in Handlers |-> 0]
  /\ setting = [h \in Handlers |-> "iam"]
  /\ disk = [h \in Handlers |-> "nothing"]
  /\ result = [h \in Handlers |-> "none"]
  /\ mixed = {} /\ faulted = {} /\ kept = {} /\ missed = {}

-----------------------------------------------------------------------------
(* Keys                                                                    *)

\* What uploadToS3 makes of the folder: one slash after its name, none before.
KeyPut(f) == [lead |-> 0, dir |-> f.dir, trail |-> IF f.dir THEN 1 ELSE 0]

Less(n) == IF n = 0 THEN 0 ELSE n - 1

\* A bug: a slash is added to a folder that ends in one.
KeySoughtUntrimmed(f) == [f EXCEPT !.trail = @ + 1]

\* What downloadFromS3 makes of it: one slash at its end, if there is any, is
\* removed before one is added.
KeySought(f) ==
  IF f.dir THEN [f EXCEPT !.trail = Less(@) + 1] ELSE f

\* Both make the same of it.
PlainFolder(f) == (f.dir /\ f.lead = 0 /\ f.trail < 2) \/ (~f.dir /\ f.lead = 0 /\ f.trail = 0)

At(h, key) == [server |-> Server[StoreOf[h]], key |-> key, name |-> NameOf[h]]

\* The archive of h, and the object it looks for.
Archive(h) == At(h, KeyPut(Folder[StoreOf[h]]))
Sought(h) == At(h, KeySought(Folder[StoreOf[h]]))

-----------------------------------------------------------------------------
(* Steps of both transfers                                                 *)

Proceed(h, p) == pc' = [pc EXCEPT ![h] = p]

\* A transfer that fails: only that of an upload has its directory removed.
AfterFailure(h) == IF h \in Uploaders THEN "cleanup" ELSE "idle"

Ends(h, r) == result' = [result EXCEPT ![h] = r]

Fail(h) == Proceed(h, AfterFailure(h)) /\ Ends(h, "failed")

\* A call that fails though all is well.
TransferFault(h, kind) == kind \in StoreFaults /\ faulted' = faulted \cup {h}

\* The transport may have a connection to the server of h from earlier, or
\* makes one, which the TLS settings it has now decide on.
Accepted(h) == tls \in Stores /\ Server[StoreOf[h]] \in Trusts[tls]

Begin(h) ==
  /\ pc[h] = "idle"
  /\ Proceed(h, IF h \in Uploaders THEN "archive" ELSE "secret")
  /\ tries' = [tries EXCEPT ![h] = 0]
  /\ Ends(h, "none")
  /\ mixed' = mixed \ {h}
  /\ faulted' = faulted \ {h}
  /\ kept' = kept \ {h}
  /\ missed' = IF h \in Uploaders \/ Archive(h) \in stored THEN missed \ {h}
               ELSE missed \cup {h}
  /\ setting' = [setting EXCEPT ![h] = "iam"]
  /\ UNCHANGED <<tls, endpoint, stored, disk>>

\* The Secret is read and decoded, unless no name of one is given.
GetSecret(h) ==
  /\ pc[h] = "secret"
  /\ \/ \E c \in Settings[StoreOf[h]] :
          /\ setting' = [setting EXCEPT ![h] = c]
          /\ IF c = "malformed" THEN Fail(h) ELSE Proceed(h, "client") /\ UNCHANGED result
          /\ UNCHANGED faulted
     \/ TransferFault(h, "request") /\ Fail(h) /\ UNCHANGED setting
  /\ UNCHANGED <<tls, endpoint, stored, tries, disk, mixed, kept, missed>>

\* A bug: the TLS settings are made once for the process.
TLSOnce(s) == IF tls = Default THEN s ELSE tls

\* setTransport: every client makes its own.
TLS(s) == s

\* A bug: one turn too many.
AgainOnceMore(h, after) ==
  IF tries[h] <= Retries
  THEN tries' = [tries EXCEPT ![h] = @ + 1] /\ UNCHANGED <<pc, result>>
  ELSE after /\ UNCHANGED tries

\* Another turn of a loop, or what comes after the last one.
Again(h, after) ==
  IF tries[h] < Retries
  THEN tries' = [tries EXCEPT ![h] = @ + 1] /\ UNCHANGED <<pc, result>>
  ELSE after /\ UNCHANGED tries

Requesting == {"bucket", "put", "list", "copy"}

\* SetS3Service up to minio.New, which wants an endpoint and makes no request.
\* Without credentials the endpoint of AWS is put into the configuration, where
\* it stays.
MakeClient(h) ==
  LET s == StoreOf[h] IN
  /\ pc[h] = "client"
  /\ endpoint' = IF setting[h] = "iam" THEN endpoint \cup {s} ELSE endpoint
  /\ IF setting[h] = "bad ca"
     THEN Fail(h) /\ UNCHANGED <<tls, tries, mixed>>
     ELSE /\ tls' = TLS(s)
          /\ mixed' = {g \in Handlers \ {h} :
               g \in mixed \/ (pc[g] \in Requesting /\ StoreOf[g] # s)}
          /\ IF s \in endpoint'
             THEN /\ Proceed(h, "bucket")
                  /\ tries' = [tries EXCEPT ![h] = 0]
                  /\ UNCHANGED result
             ELSE Again(h, Fail(h))
  /\ UNCHANGED <<stored, setting, disk, faulted, kept, missed>>

\* BucketExists.
FindBucket(h) ==
  /\ pc[h] = "bucket"
  /\ \/ /\ Proceed(h, IF h \in Uploaders THEN "put" ELSE "list")
        /\ UNCHANGED <<result, faulted>>
     \/ ~Accepted(h) /\ Fail(h) /\ UNCHANGED faulted
     \/ TransferFault(h, "request") /\ Fail(h)
  /\ UNCHANGED <<tls, endpoint, stored, tries, setting, disk, mixed, kept, missed>>

-----------------------------------------------------------------------------
(* Upload                                                                  *)

\* CreateTarAndGzip, in a directory of its own.  (What comes of an archive that
\* is cut short unnoticed is in BackupStore.)
MakeArchive(h) ==
  /\ pc[h] = "archive"
  /\ \/ /\ disk' = [disk EXCEPT ![h] = "whole"]
        /\ Proceed(h, "secret")
        /\ UNCHANGED <<result, faulted>>
     \/ /\ TransferFault(h, "disk")
        /\ disk' = [disk EXCEPT ![h] = "partial"]
        /\ Fail(h)
     \/ /\ TransferFault(h, "close")
        /\ disk' = [disk EXCEPT ![h] = "partial"]
        /\ Proceed(h, "secret")
        /\ UNCHANGED result
  /\ UNCHANGED <<tls, endpoint, stored, tries, setting, mixed, kept, missed>>

\* A bug: the loop ends after the last failure as if there was none.
ExhaustedUnnoticed(h) == Proceed(h, "cleanup") /\ UNCHANGED result

Exhausted(h) == Fail(h)

PutFails(h) == Again(h, Exhausted(h))

Stored(h) == stored' = stored \cup {Archive(h)} /\ kept' = kept \cup {h}

\* UploadBackupFile: an object is there as a whole or not at all.
Put(h) ==
  /\ pc[h] = "put"
  /\ \/ Stored(h) /\ Proceed(h, "cleanup") /\ UNCHANGED <<tries, result, faulted>>
     \/ Stored(h) /\ TransferFault(h, "lost") /\ PutFails(h)
     \/ ~Accepted(h) /\ PutFails(h) /\ UNCHANGED <<stored, faulted, kept>>
     \/ TransferFault(h, "request") /\ PutFails(h) /\ UNCHANGED <<stored, kept>>
  /\ UNCHANGED <<tls, endpoint, setting, disk, mixed, missed>>

\* os.RemoveAll, or removeTempUploadDir after an error.
Cleanup(h) ==
  /\ pc[h] = "cleanup"
  /\ Proceed(h, "idle")
  /\ \/ /\ disk' = [disk EXCEPT ![h] = "nothing"]
        /\ Ends(h, IF result[h] = "failed" THEN "failed" ELSE "done")
        /\ UNCHANGED faulted
     \/ TransferFault(h, "disk") /\ Ends(h, "left") /\ UNCHANGED disk
  /\ UNCHANGED <<tls, endpoint, stored, tries, setting, mixed, kept, missed>>

-----------------------------------------------------------------------------
(* Download                                                                *)

\* What ListObjects answers: everything whose key begins with the prefix.
Listed(h) == {o \in stored : /\ o.server = Sought(h).server /\ o.key = Sought(h).key
                             /\ o.name \in Extensions[NameOf[h]]}

\* A bug: the first object that begins with the name is taken.
ChosenFirst(h) == Listed(h)

Chosen(h) == Listed(h) \cap {Sought(h)}

\* ListObjects and GetObject, which makes no request before it is read from.
ListObjects(h) ==
  /\ pc[h] = "list"
  /\ \/ /\ Chosen(h) # {}
        /\ \E o \in Chosen(h) :
             disk' = [disk EXCEPT ![h] = IF o = Sought(h) THEN "partial" ELSE "other"]
        /\ Proceed(h, "copy")
        /\ UNCHANGED <<result, faulted>>
     \/ Chosen(h) = {} /\ Fail(h) /\ UNCHANGED <<disk, faulted>>
     \/ ~Accepted(h) /\ Fail(h) /\ UNCHANGED <<disk, faulted>>
     \/ TransferFault(h, "request") /\ Fail(h) /\ UNCHANGED disk
     \/ TransferFault(h, "disk") /\ Fail(h) /\ UNCHANGED disk
  /\ UNCHANGED <<tls, endpoint, stored, tries, setting, mixed, kept, missed>>

\* A bug: an error of io.Copy is taken for the end of the object.
CutShortIsEnd(h) == Proceed(h, "load") /\ UNCHANGED result

\* An error of io.Copy, which is not tried again.  What was copied stays.
CutShort(h) == Fail(h)

\* io.Copy into the file that os.Create has truncated.
Copy(h) ==
  /\ pc[h] = "copy"
  /\ \/ /\ \/ Sought(h) \in stored
           \/ disk[h] = "other"
        /\ disk' = [disk EXCEPT ![h] = IF @ = "partial" THEN "whole" ELSE @]
        /\ Proceed(h, "load")
        /\ UNCHANGED <<result, faulted>>
     \/ /\ Sought(h) \notin stored \/ ~Accepted(h)
        /\ CutShort(h) /\ UNCHANGED <<disk, faulted>>
     \/ TransferFault(h, "request") /\ CutShort(h) /\ UNCHANGED disk
     \/ TransferFault(h, "disk") /\ CutShort(h) /\ UNCHANGED disk
  /\ UNCHANGED <<tls, endpoint, stored, tries, setting, mixed, kept, missed>>

\* OnRestoreChange loads the file and removes it; if it cannot load it, the file
\* stays.
LoadAndRemove(h) ==
  /\ pc[h] = "load"
  /\ Proceed(h, "idle")
  /\ \/ /\ disk' = [disk EXCEPT ![h] = "nothing"]
        /\ Ends(h, "done")
        /\ UNCHANGED faulted
     \/ TransferFault(h, "disk") /\ Ends(h, "failed") /\ UNCHANGED disk
  /\ UNCHANGED <<tls, endpoint, stored, tries, setting, mixed, kept, missed>>

-----------------------------------------------------------------------------
\* Retention or another user of the bucket.
Delete(o) ==
  /\ stored' = stored \ {o}
  /\ missed' = missed \cup {h \in Downloaders : pc[h] # "idle" /\ Archive(h) = o}
  /\ UNCHANGED <<tls, endpoint, pc, tries, setting, disk, result, mixed, faulted, kept>>

Transfer(h) ==
  \/ Begin(h) \/ GetSecret(h) \/ MakeClient(h) \/ FindBucket(h)
  \/ h \in Uploaders /\ (MakeArchive(h) \/ Put(h) \/ Cleanup(h))
  \/ h \in Downloaders /\ (ListObjects(h) \/ Copy(h) \/ LoadAndRemove(h))

StoreNext ==
  \/ \E h \in Handlers : Transfer(h)
  \/ \E o \in stored : Delete(o)

StoreSpec == StoreInit /\ [][StoreNext]_transfers

-----------------------------------------------------------------------------
(* Properties                                                              *)

\* The configuration itself is at fault: its endpointCA, its credentials or its
\* endpoint.
Misconfigured(h) ==
  \/ setting[h] \in {"malformed", "bad ca"}
  \/ setting[h] = "static" /\ StoreOf[h] \in NoEndpoint

\* Clients replace each other's TLS settings (s3minio.go:300).  A transfer
\* during which no client of another configuration was made fails only if a
\* call of it failed, its configuration is wrong, or the archive was not there
\* all the time, whatever settings earlier transfers left.  In particular a
\* restore finds what the backup of the same configuration has stored
\* (upload.go:27, download.go:31), if the folder is written the plain way.
FailsForCause ==
  \A h \in Handlers :
    result[h] = "failed" /\ h \notin mixed /\ h \notin faulted /\ ~Misconfigured(h)
      => h \in Downloaders /\ (h \in missed \/ ~PlainFolder(Folder[StoreOf[h]]))

\* A loop of four tries must not end as if the last one had not failed: an
\* upload that ends well has stored its archive.
UploadedIsStored ==
  \A h \in Uploaders : result[h] = "done" => h \in kept

\* What a restore loads is the whole of the archive it names, neither the
\* beginning of it nor an archive of which the name only begins the same
\* (x.tar.gz and x.tar.gz.enc).
LoadsWhole == \A h \in Downloaders : pc[h] = "load" => disk[h] = "whole"
=============================================================================
