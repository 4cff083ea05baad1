--------------------------- MODULE MCObjectStore ---------------------------
(* An instance of ObjectStore for TLC: a Backup and a Restore with a MinIO *)
(* server, and a Backup with AWS, whose credentials may be the node's.     *)
EXTENDS ObjectStore

CONSTANTS daily, weekly, back, aws, minio, plain, enc

MCStoreOf == [h \in Handlers |-> IF h = weekly THEN aws ELSE minio]
MCNameOf == [h \in Handlers |-> IF h = weekly THEN enc ELSE plain]
MCExtensions == [n \in Names |-> {n, enc}]
MCServer == [s \in Stores |-> s]
MCTrusts == [s \in Stores |-> {s}]
MCFolder == [s \in Stores |->
  IF s = minio THEN [lead |-> 0, dir |-> TRUE, trail |-> 1]
               ELSE [lead |-> 0, dir |-> FALSE, trail |-> 0]]
MCSettings == [s \in Stores |-> IF s = aws THEN {"iam", "malformed"}
                                ELSE {"static", "bad ca"}]
MCPresent == {[server |-> minio, name |-> n,
               key |-> [lead |-> 0, dir |-> TRUE, trail |-> 1]] : n \in {enc}}

\* Transfers in which a call has failed, at a time.
MCFaulted == 2

MCSpec == StoreInit /\ [][StoreNext /\ Cardinality(faulted') <= MCFaulted]_transfers
=============================================================================
