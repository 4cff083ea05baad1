-------------------------- MODULE EncryptionConfig --------------------------
(***************************************************************************)
(* The file through which the handlers of Backups and Restores turn the    *)
(* encryption configuration of a Secret into transformers, with which they *)
(* encrypt and decrypt archives.  LoadEncryptionConfig wants a file:       *)
(* GetEncryptionTransformersFromSecret writes the Secret's data to it,     *)
(* loads it and removes it.  All handlers use the same path, and the       *)
(* workers of both controllers run them at the same time.                  *)
(*                                                                         *)
(* One step is one system call; a file that is written after its name was  *)
(* removed is nobody's.  The file does not survive the process.            *)
(***************************************************************************)
CONSTANTS
  Encrypters,   \* the Backups and Restores with encryptionConfigSecretName
  Configs,      \* what a Secret may hold under EncryptionProviderConfigKey
  Invalid,      \* those LoadEncryptionConfig refuses
  Secret,       \* Secret[h]: what the Secret of h may hold
  ConfigFaults  \* what may go wrong, see ConfigFaultKinds

NoKey == "no key"           \* the Secret lacks EncryptionProviderConfigKey
NoFile == "no file"
Empty == "empty"            \* content of a file that is created or truncated
Garbled == "garbled"        \* content that is part of one or of two Configs
Refused == "refused"        \* prepareEncryptionConfigSecretTempConfig failed
Unreadable == "unreadable"  \* LoadEncryptionConfig failed
NotLoaded == "none"

ConfigFaultKinds ==
  {"open",      \* the file cannot be created
   "write",     \* it can be written in part only
   "remove"}    \* it cannot be removed, which nobody notices

ASSUME EncryptionAssumption ==
  /\ Configs \cap {NoKey, NoFile, Empty, Garbled, Refused, Unreadable, NotLoaded}
       = {}
  /\ Invalid \subseteq Configs
  /\ Secret \in [Encrypters -> SUBSET (Configs \cup {NoKey})]
  /\ ConfigFaults \subseteq ConfigFaultKinds

VARIABLES
  calling,      \* calling[h]: the next system call of h
  config,       \* config[h]: what its Secret held
  file,         \* content of the file at the path
  linked,       \* linked[h]: the file h has open is the one at the path
  loaded,       \* loaded[h]: the transformers it has, by their configuration
  disturbed,    \* history: another handler was at work meanwhile
  stuck         \* history: the file could not be removed

encryption == <<calling, config, file, linked, loaded, disturbed, stuck>>

ConfigTypeOK ==
  /\ calling \in [Encrypters -> {"idle", "open", "write", "load", "remove"}]
  /\ config \in [Encrypters -> Configs \cup {NoKey}]
  /\ file \in Configs \cup {NoFile, Empty, Garbled}
  /\ linked \in [Encrypters -> BOOLEAN]
  /\ loaded \in [Encrypters -> Configs \cup {NotLoaded, Refused, Unreadable, Garbled}]
  /\ disturbed \in [Encrypters -> BOOLEAN]
  /\ stuck \in BOOLEAN

ConfigInit ==
  /\ calling = [h \in Encrypters |-> "idle"]
  /\ config = [h \in Encrypters |-> NoKey]
  /\ file = NoFile
  /\ linked = [h \in Encrypters |-> FALSE]
  /\ loaded = [h \in Encrypters |-> NotLoaded]
  /\ disturbed = [h \in Encrypters |-> FALSE]
  /\ stuck = FALSE

-----------------------------------------------------------------------------
Calling(h, p) == calling' = [calling EXCEPT ![h] = p]

Result(h, c) == loaded' = [loaded EXCEPT ![h] = c]

Busy(h) == calling[h] # "idle"

\* A bug: the file is removed only after it was written without an error.
AfterRefusalNothing == "idle"

\* Where a handler goes when it could not write its file.
AfterRefusal == "remove"

\* A bug: nobody looks whether the Secret has the key.
LacksKeyNever(c) == FALSE

\* What a Secret held has no EncryptionProviderConfigKey.
LacksKey(c) == c = NoKey

\* A handler has got its Secret.
GotSecret(h, c) ==
  /\ ~Busy(h)
  /\ config' = [config EXCEPT ![h] = c]
  /\ IF LacksKey(c)
     THEN Calling(h, AfterRefusal) /\ Result(h, Refused)
     ELSE Calling(h, "open") /\ Result(h, NotLoaded)
  /\ disturbed' = [g \in Encrypters |->
       IF g = h THEN \E other \in Encrypters \ {h} : Busy(other)
                ELSE disturbed[g] \/ Busy(g)]
  /\ UNCHANGED <<file, linked, stuck>>

\* A bug: the file is not truncated.
OpenedAsItIs == IF file = NoFile THEN Empty ELSE file

\* os.WriteFile creates the file or truncates the one that is there.
Opened == Empty

Open(h) ==
  /\ calling[h] = "open"
  /\ \/ /\ file' = Opened
        /\ linked' = [linked EXCEPT ![h] = TRUE]
        /\ Calling(h, "write")
        /\ UNCHANGED loaded
     \/ /\ "open" \in ConfigFaults
        /\ Calling(h, AfterRefusal)
        /\ Result(h, Refused)
        /\ UNCHANGED <<file, linked>>
  /\ UNCHANGED <<config, disturbed, stuck>>

\* What the file holds when h has written its configuration over it: of a
\* longer one that was there something is left.
Written(h) ==
  IF file \in {Empty, config[h]} THEN {config[h]} ELSE {config[h], Garbled}

Write(h) ==
  /\ calling[h] = "write"
  /\ \/ /\ IF linked[h] THEN file' \in Written(h) ELSE UNCHANGED file
        /\ Calling(h, "load")
        /\ UNCHANGED loaded
     \/ /\ "write" \in ConfigFaults
        /\ IF linked[h] THEN file' = Garbled ELSE UNCHANGED file
        /\ Calling(h, AfterRefusal)
        /\ Result(h, Refused)
  /\ UNCHANGED <<config, linked, disturbed, stuck>>

\* What LoadEncryptionConfig makes of a content: a part of a configuration may
\* be one.
Loads(content) ==
  IF content \in {NoFile, Empty} \cup Invalid THEN {Unreadable}
  ELSE IF content = Garbled THEN {Unreadable, Garbled}
  ELSE {content}

Load(h) ==
  /\ calling[h] = "load"
  /\ Calling(h, "remove")
  /\ \E result \in Loads(file) : Result(h, result)
  /\ UNCHANGED <<config, file, linked, disturbed, stuck>>

\* The deferred os.Remove, after which the handler goes on with what it has
\* loaded, or returns an error.
Remove(h) ==
  /\ calling[h] = "remove"
  /\ Calling(h, "idle")
  /\ \/ file' = NoFile /\ linked' = [g \in Encrypters |-> FALSE] /\ UNCHANGED stuck
     \/ "remove" \in ConfigFaults /\ stuck' = TRUE /\ UNCHANGED <<file, linked>>
  /\ UNCHANGED <<config, loaded, disturbed>>

Handler(h) ==
  \/ \E c \in Secret[h] : GotSecret(h, c)
  \/ Open(h) \/ Write(h) \/ Load(h) \/ Remove(h)

ConfigNext == \E h \in Encrypters : Handler(h)

ConfigSpec == ConfigInit /\ [][ConfigNext]_encryption

-----------------------------------------------------------------------------
(* Properties                                                              *)

\* However the handlers overlap and fail, when none is at work the file is
\* gone: the keys of the Secret do not stay in the file system, as long as it
\* can be removed.
NoKeysLeft == ~stuck /\ (\A h \in Encrypters : ~Busy(h)) => file = NoFile

\* A handler no other one disturbed has loaded the configuration of its own
\* Secret, unless it could not write it, and whatever an earlier one left: not
\* even a configuration that is refused is mended by what it was written over.
UndisturbedIsRight ==
  \A h \in Encrypters :
    calling[h] = "remove" /\ ~disturbed[h]
      => loaded[h] \in {Refused, IF config[h] \in Invalid THEN Unreadable ELSE config[h]}

\* What backup.go:56 says of encryptionConfigSecretName, "Name of the Secret
\* containing the encryption config": it is the configuration in this Secret
\* that an archive is encrypted with, not the one of another Backup.
OwnConfig ==
  \A h \in Encrypters : loaded[h] \in Configs => loaded[h] = config[h]
=============================================================================
