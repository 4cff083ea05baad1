------------------------- MODULE MCEncryptionConfig -------------------------
(* An instance of EncryptionConfig for TLC: two Backups, the Secret of one *)
(* of them lacking its key at times and holding an invalid configuration   *)
(* at others, and a Restore of an archive that was made with another one.  *)
EXTENDS EncryptionConfig

CONSTANTS daily, weekly, old, k1, k2, broken

MCSecret == [h \in Encrypters |-> IF h = old THEN {k2}
                                ELSE IF h = weekly THEN {k1, NoKey, broken} ELSE {k1}]
=============================================================================
