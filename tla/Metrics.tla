------------------------------ MODULE Metrics ------------------------------
(***************************************************************************)
(* The loops that publish what Backups and Restores there are: at every    *)
(* tick the CRs of one kind are listed, and a gauge is set for each.  Both *)
(* loops have the same steps; this is one of them.                         *)
(***************************************************************************)
EXTENDS FiniteSets, Naturals

CONSTANTS
  CRs,          \* names of Backups, or of Restores
  Messages,     \* messages of their first condition
  Attempts      \* attempts of retry.DefaultRetry

Gone == "gone"
NoCondition == "no condition"

ASSUME MetricsAssumption ==
  /\ IsFiniteSet(CRs)
  /\ Messages \cap {Gone, NoCondition} = {}
  /\ Attempts \in Nat \ {0}

VARIABLES
  crs,          \* crs[c]: the message of c, if there is c and a condition
  step,         \* where the loop is
  attempt,      \* failed attempts to list
  items,        \* what is still to be published, as it was listed
  carried,      \* backupMessage, or restoreMessage
  count,        \* rancher_backup_count
  rows,         \* rancher_backup_info
  listed        \* history: what the last collection has listed

metrics == <<crs, step, attempt, items, carried, count, rows, listed>>

States == Messages \cup {Gone, NoCondition}

Row == [cr : CRs, message : Messages \cup {NoCondition}]

MetricsTypeOK ==
  /\ crs \in [CRs -> States]
  /\ step \in {"off", "idle", "list", "publish"}
  /\ attempt \in 0..Attempts
  /\ items \subseteq CRs
  /\ carried \in Messages \cup {NoCondition}
  /\ count \in 0..Cardinality(CRs)
  /\ rows \subseteq Row
  /\ listed \in [CRs -> States]

MetricsInit ==
  /\ crs = [c \in CRs |-> Gone]
  /\ step = "off"
  /\ attempt = 0
  /\ items = {}
  /\ carried = NoCondition
  /\ count = 0
  /\ rows = {}
  /\ listed = crs

-----------------------------------------------------------------------------
There(s) == {c \in CRs : s[c] # Gone}

\* Users and the handlers create, change and delete CRs.
Changes(c, s) ==
  /\ crs' = [crs EXCEPT ![c] = s]
  /\ UNCHANGED <<step, attempt, items, carried, count, rows, listed>>

StartLoop == step' = "idle" /\ UNCHANGED <<crs, attempt, items, carried, count, rows, listed>>

Tick ==
  /\ step = "idle"
  /\ step' = "list"
  /\ attempt' = 0
  /\ UNCHANGED <<crs, items, carried, count, rows, listed>>

\* A bug: the gauges of the last collection stay.
ResetNot == rows

Reset == {}

\* updateBackupMetrics up to its loop.
Update(s) ==
  /\ listed' = s
  /\ items' = There(s)
  /\ count' = Cardinality(There(s))
  /\ rows' = Reset
  /\ carried' = NoCondition
  /\ step' = "publish"

\* When every attempt has failed the error is logged and the empty list that
\* came with it is published.
List ==
  /\ step = "list"
  /\ \/ Update(crs) /\ UNCHANGED attempt
     \/ /\ attempt + 1 < Attempts
        /\ attempt' = attempt + 1
        /\ UNCHANGED <<step, items, carried, count, rows, listed>>
     \/ /\ attempt + 1 = Attempts
        /\ attempt' = Attempts
        /\ Update([c \in CRs |-> Gone])
  /\ UNCHANGED crs

\* A bug: the message is found once for all rows.
MessageOfFirst(c) == IF carried = NoCondition THEN listed[c] ELSE carried

\* The message of a CR without conditions is that of the one before it.
Message(c) == IF listed[c] = NoCondition THEN carried ELSE listed[c]

\* One turn of the loop.
Publish(c) ==
  /\ step = "publish"
  /\ c \in items
  /\ items' = items \ {c}
  /\ carried' = Message(c)
  /\ rows' = rows \cup {[cr |-> c, message |-> carried']}
  /\ UNCHANGED <<crs, step, attempt, count, listed>>

Published ==
  /\ step = "publish"
  /\ items = {}
  /\ step' = "idle"
  /\ UNCHANGED <<crs, attempt, items, carried, count, rows, listed>>

Collect == Tick \/ List \/ Published \/ \E c \in CRs : Publish(c)

-----------------------------------------------------------------------------
(* Properties                                                              *)

\* CRs come, go and change while a collection runs and between two: after one,
\* there is one row for each CR that was listed and none for those deleted
\* since the last one, the count agrees with the rows, and the message of a CR
\* that has a condition is its own.
RowsOfListed ==
  step = "idle" =>
    /\ count = Cardinality(rows)
    /\ {r.cr : r \in rows} = There(listed)
    /\ \A r \in rows : listed[r.cr] # NoCondition => r.message = listed[r.cr]

\* metrics.go:30 calls a row "Details on a specific Rancher Backup CR"; but one
\* without conditions has the message of another.
OwnMessage ==
  \A r \in rows : r.message \in {NoCondition, listed[r.cr]}
=============================================================================
