---------------------------- MODULE MCBackupStore ----------------------------
(* Instances of BackupStore for TLC: a Backup that keeps two archives and  *)
(* others that keep one, with name patterns that match exactly or too much.*)
EXTENDS BackupStore

CONSTANTS daily, myDaily, once

MCKeep == [b \in Backups |-> IF b = daily THEN 2 ELSE 1]

ExactMatches == [b \in Backups |-> {b}]

\* The pattern of "daily" matches the names of "my-daily" as well.
SuffixMatches == [b \in Backups |-> IF b = daily THEN Backups ELSE {b}]

\* The folder of "my-daily" begins with a slash.
SlashMatches == [b \in Backups |-> IF b = myDaily THEN {} ELSE {b}]

AllFaults == FaultKinds
=============================================================================
