-------------------------- MODULE BackupStore_proofs --------------------------
(***************************************************************************)
(* Theorems about BackupStore, for any Backups, retention counts and number*)
(* of archives.                                                            *)
(***************************************************************************)
EXTENDS BackupStore, FiniteSetTheorems, TLAPS

\* An attempt that writes to the volume knows its archive.
TypeInv ==
  /\ TypeOK
  /\ \A b \in Backups : b \in InVolume /\ pc[b] = "write" => own[b] # 0

LEMMA PutType ==
  ASSUME TypeOK, NEW b \in Backups, NEW name, NEW good \in BOOLEAN,
         Put(b, name, good)
  PROVE  /\ archives' \subseteq Archive
         /\ last' \in 0..MaxArchives
         /\ own' \in [Backups -> 0..MaxArchives]
         /\ \A c \in Backups : own'[c] # 0 \/ (c # b /\ own'[c] = own[c])
  BY StoreAssumption DEF Put, ArchiveOf, Archive, TypeOK

\* The history only grows.
LEMMA History ==
  ASSUME TypeOK, [Next]_vars
  PROVE  happened \subseteq happened' /\ happened' \subseteq Faults
<1>1. \A k : Fault(k) => happened \subseteq happened' /\ happened' \subseteq Faults
  BY DEF Fault, TypeOK
<1>2. UNCHANGED happened => happened \subseteq happened' /\ happened' \subseteq Faults
  BY DEF TypeOK
<1>3. ASSUME NEW b \in Backups, Attempt(b)
      PROVE  (\E k : Fault(k)) \/ UNCHANGED happened
  BY <1>3 DEF Attempt, Begin, Complete, Fail, List, Panic, Delete, EndDelete, NoFault
<1>4. Next \/ UNCHANGED vars => (\E k : Fault(k)) \/ UNCHANGED happened
  BY <1>3 DEF Next, Crash, vars
<1>5. QED  BY <1>1, <1>2, <1>4

LEMMA TypeInvStep == TypeInv /\ [Next]_vars => TypeInv'
<1> SUFFICES ASSUME TypeInv, [Next]_vars PROVE TypeInv'
  OBVIOUS
<1>t. TypeOK
  BY DEF TypeInv
<1>h. happened' \subseteq Faults
  BY <1>t, History
<1>1. ASSUME NEW b \in Backups, Begin(b) PROVE TypeInv'
  <2>1. PICK name \in {0, own[b]} :
          IF b \in InVolume
          THEN Put(b, name, FALSE)
          ELSE own' = [own EXCEPT ![b] = name] /\ UNCHANGED <<archives, last>>
    BY <1>1 DEF Begin
  <2>0. /\ pc' = [pc EXCEPT ![b] = "write"] /\ victims' = victims
        /\ skipped' = [skipped EXCEPT ![b] = {}]
    BY <1>1 DEF Begin, Goto
  <2>2. CASE b \in InVolume
    <3>1. Put(b, name, FALSE)
      BY <2>1, <2>2
    <3>2. TypeOK'
      BY <1>h, <1>t, <2>0, <3>1, PutType DEF TypeOK
    <3>3. ASSUME NEW c \in Backups, c \in InVolume, pc'[c] = "write" PROVE own'[c] # 0
      <4>1. CASE c = b
        BY <1>h, <1>t, <3>1, <4>1, PutType
      <4>2. CASE c # b
        BY <1>h, <1>t, <2>0, <3>1, <3>3, <4>2 DEF Put, TypeInv, TypeOK
      <4>3. QED  BY <4>1, <4>2
    <3>4. QED  BY <3>2, <3>3 DEF TypeInv
  <2>3. CASE b \notin InVolume
    <3>1. own' = [own EXCEPT ![b] = name] /\ UNCHANGED <<archives, last>>
      BY <2>1, <2>3
    <3>2. name \in 0..MaxArchives
      BY <1>t, StoreAssumption DEF TypeOK
    <3>3. QED  BY <1>h, <1>t, <2>0, <2>3, <3>1, <3>2 DEF TypeInv, TypeOK
  <2>4. QED  BY <2>2, <2>3
<1>2. ASSUME NEW b \in Backups, Complete(b) PROVE TypeInv'
  <2>0. pc[b] = "write" /\ pc' = [pc EXCEPT ![b] = Kept(b)] /\ victims' = victims
        /\ skipped' = skipped /\ Kept(b) \in {"list", "kept"}
    BY <1>2 DEF Complete, Goto, Kept
  <2>1. PICK good \in BOOLEAN :
          IF b \in InVolume
          THEN /\ archives' = (archives \ {ArchiveOf(b, own[b], FALSE)})
                                \cup {ArchiveOf(b, own[b], good)}
               /\ UNCHANGED <<last, own>>
          ELSE Put(b, own[b], good)
    BY <1>2 DEF Complete
  <2>2. CASE b \notin InVolume
    BY <1>h, <1>t, <2>0, <2>1, <2>2, PutType DEF TypeInv, TypeOK
  <2>3. CASE b \in InVolume
    <3>1. ArchiveOf(b, own[b], good) \in Archive
      BY <1>h, <1>t, <2>0, <2>3, StoreAssumption DEF TypeInv, TypeOK, ArchiveOf, Archive
    <3>2. TypeOK'
      BY <1>h, <1>t, <2>0, <2>1, <2>3, <3>1 DEF TypeOK
    <3>3. QED
      BY <1>h, <1>t, <2>0, <2>1, <2>3, <3>2 DEF TypeInv, TypeOK
  <2>4. QED  BY <2>2, <2>3
<1>3. ASSUME NEW b \in Backups, Fail(b) PROVE TypeInv'
  <2>1. CASE b \in InVolume
    BY <1>3, <1>h, <1>t, <2>1 DEF Fail, Goto, TypeInv, TypeOK
  <2>2. CASE b \notin InVolume
    BY <1>3, <1>h, <1>t, <2>2, PutType DEF Fail, Goto, TypeInv, TypeOK
  <2>3. QED  BY <2>1, <2>2
<1>4. ASSUME NEW b \in Backups, List(b) PROVE TypeInv'
  BY <1>4, <1>h, <1>t DEF List, Goto, Expired, Found, TypeInv, TypeOK
<1>5. ASSUME NEW b \in Backups, Delete(b) PROVE TypeInv'
  BY <1>5, <1>h, <1>t DEF Delete, Goto, TypeInv, TypeOK
<1>6. ASSUME NEW b \in Backups, EndDelete(b) PROVE TypeInv'
  BY <1>6, <1>h, <1>t DEF EndDelete, Goto, TypeInv, TypeOK
<1>7. CASE End
  BY <1>7, <1>h, <1>t DEF End, TypeInv, TypeOK
<1>8. CASE UNCHANGED vars
  BY <1>8, <1>h, <1>t DEF vars, TypeInv, TypeOK
<1>9. QED
  BY <1>1, <1>2, <1>3, <1>4, <1>5, <1>6, <1>7, <1>8
  DEF Next, Attempt, Panic, Crash

LEMMA TypeInit == Init => TypeInv
  BY StoreAssumption DEF Init, TypeInv, TypeOK

\* Every variable keeps its type.
THEOREM TypeCorrect == Spec => []TypeOK
<1>1. TypeInv => TypeOK
  BY DEF TypeInv
<1>2. QED  BY <1>1, TypeInit, TypeInvStep, PTL DEF Spec

-----------------------------------------------------------------------------
(* SomeGoodKept                                                            *)

\* The archive with number n is the newest of b.
NewestIs(b, n) == \A a \in archives : a.backup = b => a.number <= n

\* The archive an attempt has written and is to keep.
Ours(b) == ArchiveOf(b, own[b], TRUE)

\* Retention keeps the archive that was written before it: it is complete and
\* newer than all others of b, and so not among the victims.
OursIsKept(b) ==
  /\ b \in InVolume /\ pc[b] = "write" => NewestIs(b, own[b])
  /\ pc[b] \in {"list", "delete"} => Ours(b) \in archives /\ NewestIs(b, own[b])
  /\ pc[b] # "delete" => victims[b] = {}
  /\ \A v \in victims[b] : v # Ours(b)

\* Archives are numbered in the order in which they appear.
Numbered ==
  /\ \A a \in archives : a.number <= last
  /\ \A b \in Backups : own[b] <= last

\* Retention deletes what the pattern matches.
VictimsMatch == \A b \in Backups : \A v \in victims[b] : v.backup \in Matches[b]

KeepInv ==
  /\ TypeInv
  /\ Numbered
  /\ VictimsMatch
  /\ Noticed => \A b \in Backups : Alone(b) => OursIsKept(b)

LEMMA ArchiveFields ==
  ASSUME NEW b, NEW n, NEW good
  PROVE  /\ ArchiveOf(b, n, good).backup = b
         /\ ArchiveOf(b, n, good).number = n
         /\ ArchiveOf(b, n, good).good = good
  BY DEF ArchiveOf

\* The newest archive is never expired.
LEMMA NewestNotExpired ==
  ASSUME TypeOK, NEW b \in Backups, Alone(b), Ours(b) \in archives,
         NewestIs(b, own[b]), NEW S, S \subseteq Found(b)
  PROVE  Ours(b) \notin Expired(b, S)
<1>1. Newer(Ours(b), S) = {}
  <2>1. Ours(b).number = own[b]
    BY DEF Ours, ArchiveOf
  <2>2. \A c \in Found(b) : c \in archives /\ c.backup = b
    BY DEF Found, Alone, TypeOK, Archive
  <2>3. \A c \in Found(b) : ~(c.number > own[b])
    BY <2>2 DEF NewestIs, TypeOK, Archive
  <2>4. QED  BY <2>1, <2>3 DEF Newer
<1>2. Cardinality({}) = 0 /\ Keep[b] \in Nat \ {0}
  BY FS_EmptySet, StoreAssumption
<1>3. ~(Cardinality(Newer(Ours(b), S)) >= Keep[b])
  BY <1>1, <1>2
<1>4. QED  BY <1>3 DEF Expired

\* The archive whose name is written again is the only one that goes.
LEMMA PutKeeps ==
  ASSUME TypeOK, Numbered, NEW b \in Backups, NEW name, NEW good \in BOOLEAN,
         Put(b, name, good)
  PROVE  /\ Numbered'
         /\ NewestIs(b, own[b])'
         /\ ArchiveOf(b, own'[b], good) \in archives'
         /\ \A c \in Backups \ {b} :
              /\ own'[c] = own[c]
              /\ \A a : a.backup = c => (a \in archives' <=> a \in archives)
         /\ own'[b] # own[b]
         /\ \A a \in archives \ archives' : a.backup = b /\ a.number = name
<1>1. own'[b] = last + 1 /\ last' = last + 1 /\ last \in Nat
      /\ archives' = {a \in archives : ~(a.backup = b /\ a.number = name)}
                       \cup {ArchiveOf(b, last + 1, good)}
  BY DEF Put, TypeOK
<1>2. \A a \in archives : a.number \in Nat /\ a.number <= last
  BY DEF Numbered, TypeOK, Archive
<1>3. \A c \in Backups : own'[c] <= last'
  <2>1. \A c \in Backups : own[c] \in Nat /\ own[c] <= last
    BY DEF Numbered, TypeOK
  <2>2. own' = [own EXCEPT ![b] = last + 1]
    BY <1>1 DEF Put
  <2>3. QED  BY <1>1, <2>1, <2>2 DEF TypeOK
<1>4. \A a \in archives' : a.number <= last'
  BY <1>1, <1>2, ArchiveFields
<1>5. NewestIs(b, own[b])'
  BY <1>1, <1>4 DEF NewestIs
<1>6. own'[b] # own[b]
  BY <1>1 DEF Numbered, TypeOK
<1>7. \A c \in Backups \ {b} : \A a : a.backup = c => (a \in archives' <=> a \in archives)
  BY <1>1, ArchiveFields
<1>8. QED
  BY <1>1, <1>3, <1>4, <1>5, <1>6, <1>7, ArchiveFields DEF Put, TypeOK, Numbered

\* A step that leaves b's part of the state alone keeps the archive of b, when
\* it adds no archive of b and does not delete that one.
LEMMA OthersKeep ==
  ASSUME NEW b, OursIsKept(b),
         pc'[b] = pc[b], own'[b] = own[b], victims'[b] = victims[b],
         \A a \in archives' : a.backup = b => a \in archives,
         Ours(b) \in archives => Ours(b) \in archives'
  PROVE  OursIsKept(b)'
<1>1. Ours(b)' = Ours(b)
  BY DEF Ours, ArchiveOf
<1>2. \A n : NewestIs(b, n) => NewestIs(b, n)'
  BY DEF NewestIs
<1>3. NewestIs(b, own[b]) => NewestIs(b, own[b])'
  BY DEF NewestIs
<1>4. QED  BY <1>1, <1>3 DEF OursIsKept

\* The parts of KeepInv that do not depend on what happened.
LEMMA NumberedStep ==
  ASSUME TypeInv, TypeInv', Numbered, VictimsMatch, [Next]_vars
  PROVE  Numbered' /\ VictimsMatch'
<1>t. TypeOK /\ TypeOK'
  BY DEF TypeInv
<1>a. ASSUME NEW b \in Backups, NEW name, NEW good \in BOOLEAN, Put(b, name, good)
      PROVE  Numbered'
  BY <1>a, <1>t, PutKeeps
<1>0. ASSUME NEW b \in Backups, Begin(b) PROVE Numbered' /\ VictimsMatch'
  <2>1. PICK name \in {0, own[b]} :
          IF b \in InVolume
          THEN Put(b, name, FALSE)
          ELSE own' = [own EXCEPT ![b] = name] /\ UNCHANGED <<archives, last>>
    BY <1>0 DEF Begin
  <2>2. Numbered'
    <3>1. CASE b \in InVolume
      BY <1>a, <2>1, <3>1
    <3>2. CASE b \notin InVolume
      <4>1. name \in Nat /\ name <= last
        BY <1>t DEF Numbered, TypeOK
      <4>2. QED  BY <1>t, <2>1, <3>2, <4>1 DEF Numbered, TypeOK
    <3>3. QED  BY <3>1, <3>2
  <2>3. QED  BY <1>0, <2>2 DEF Begin, VictimsMatch
<1>1. ASSUME NEW b \in Backups, Fail(b) PROVE Numbered' /\ VictimsMatch'
  BY <1>1, <1>a DEF Fail, Numbered, VictimsMatch
<1>2. ASSUME NEW b \in Backups, Complete(b) PROVE Numbered' /\ VictimsMatch'
  <2>1. PICK good \in BOOLEAN :
          IF b \in InVolume
          THEN /\ archives' = (archives \ {ArchiveOf(b, own[b], FALSE)})
                                \cup {ArchiveOf(b, own[b], good)}
               /\ UNCHANGED <<last, own>>
          ELSE Put(b, own[b], good)
    BY <1>2 DEF Complete
  <2>2. Numbered'
    <3>1. CASE b \in InVolume
      <4>1. own[b] \in Nat /\ own[b] <= last /\ UNCHANGED <<last, own>>
        BY <1>t, <2>1, <3>1 DEF TypeOK, Numbered
      <4>2. \A a \in archives' : a \in archives \/ a.number = own[b]
        <5>1. \A a \in archives' : a \in archives \/ a = ArchiveOf(b, own[b], good)
          BY <2>1, <3>1
        <5>2. ArchiveOf(b, own[b], good).number = own[b]
          BY DEF ArchiveOf
        <5>3. QED  BY <5>1, <5>2
      <4>3. QED  BY <4>1, <4>2 DEF Numbered
    <3>2. QED  BY <1>a, <2>1, <3>1
  <2>3. QED  BY <1>2, <2>2 DEF Complete, VictimsMatch
<1>3. ASSUME NEW b \in Backups, List(b) PROVE Numbered' /\ VictimsMatch'
  BY <1>3, <1>t DEF List, Expired, Found, Numbered, VictimsMatch, TypeOK
<1>4. ASSUME NEW b \in Backups, Delete(b) PROVE Numbered' /\ VictimsMatch'
  BY <1>4, <1>t DEF Delete, Numbered, VictimsMatch, TypeOK
<1>5. ASSUME NEW b \in Backups, EndDelete(b) PROVE Numbered' /\ VictimsMatch'
  BY <1>5 DEF EndDelete, Numbered, VictimsMatch
<1>6. CASE End \/ UNCHANGED vars
  BY <1>6 DEF End, vars, Numbered, VictimsMatch
<1>7. QED
  BY <1>0, <1>1, <1>2, <1>3, <1>4, <1>5, <1>6 DEF Next, Attempt, Panic, Crash

LEMMA KeepStep ==
  ASSUME KeepInv, [Next]_vars
  PROVE  KeepInv'
<1>i. TypeInv /\ TypeInv' /\ TypeOK /\ Numbered /\ VictimsMatch
  BY TypeInvStep DEF KeepInv, TypeInv
<1>t. TypeOK
  BY <1>i
<1>g. SUFFICES ASSUME Noticed', NEW d \in Backups, Alone(d)
               PROVE  OursIsKept(d)'
  BY <1>i, NumberedStep DEF KeepInv, Alone
<1>f. Noticed /\ OursIsKept(d)
  <2>1. Noticed
    BY <1>g, <1>t, History DEF Noticed
  <2>2. QED  BY <1>g, <2>1 DEF KeepInv
<1>p. ASSUME NEW b \in Backups, d # b, NEW name, NEW good \in BOOLEAN,
             Put(b, name, good), NEW p, pc' = [pc EXCEPT ![b] = p], victims' = victims
      PROVE  OursIsKept(d)'
  <2>1. Ours(d).backup = d
    BY DEF Ours, ArchiveOf
  <2>2. /\ pc'[d] = pc[d] /\ own'[d] = own[d]
        /\ \A a \in archives' : a.backup = d => a \in archives
        /\ Ours(d) \in archives => Ours(d) \in archives'
    BY <1>i, <1>p, <2>1, PutKeeps DEF TypeOK
  <2>3. QED  BY <1>f, <1>p, <2>2, OthersKeep
<1>1. ASSUME NEW b \in Backups, Begin(b) PROVE OursIsKept(d)'
  <2>0. pc' = [pc EXCEPT ![b] = "write"] /\ victims' = victims /\ pc[b] # "delete"
    BY <1>1 DEF Begin, Goto
  <2>p. PICK name \in {0, own[b]} :
          IF b \in InVolume
          THEN Put(b, name, FALSE)
          ELSE own' = [own EXCEPT ![b] = name] /\ UNCHANGED <<archives, last>>
    BY <1>1 DEF Begin
  <2>1. CASE b \in InVolume
    <3>1. Put(b, name, FALSE)
      BY <2>p, <2>1
    <3>2. CASE d = b
      <4>1. NewestIs(b, own[b])'
        BY <1>i, <3>1, PutKeeps
      <4>2. pc'[b] = "write" /\ victims'[b] = {}
        BY <1>f, <1>t, <2>0, <3>2 DEF OursIsKept, TypeOK
      <4>3. QED  BY <3>2, <4>1, <4>2 DEF OursIsKept
    <3>3. CASE d # b
      BY <1>p, <2>0, <3>1, <3>3
    <3>4. QED  BY <3>2, <3>3
  <2>2. CASE b \notin InVolume
    <3>1. own' = [own EXCEPT ![b] = name] /\ UNCHANGED <<archives, last>>
      BY <2>p, <2>2
    <3>2. CASE d = b
      BY <1>f, <1>t, <2>0, <2>2, <3>1, <3>2 DEF OursIsKept, TypeOK
    <3>3. CASE d # b
      BY <1>f, <1>t, <2>0, <3>1, <3>3, OthersKeep DEF TypeOK
    <3>4. QED  BY <3>2, <3>3
  <2>3. QED  BY <2>1, <2>2
<1>2. ASSUME NEW b \in Backups, Complete(b) PROVE OursIsKept(d)'
  <2>0. /\ pc[b] = "write" /\ pc' = [pc EXCEPT ![b] = Kept(b)]
        /\ victims' = victims /\ Kept(b) \in {"list", "kept"}
    BY <1>2 DEF Complete, Goto, Kept
  <2>1. IF b \in InVolume
        THEN /\ archives' = (archives \ {ArchiveOf(b, own[b], FALSE)})
                              \cup {ArchiveOf(b, own[b], TRUE)}
             /\ UNCHANGED <<last, own>>
        ELSE Put(b, own[b], TRUE)
    BY <1>2, <1>g DEF Complete, Fault, Noticed
  <2>2. CASE b \notin InVolume
    <3>1. Put(b, own[b], TRUE)
      BY <2>1, <2>2
    <3>2. CASE d = b
      <4>1. NewestIs(b, own[b])'
        BY <1>i, <3>1, PutKeeps
      <4>2. pc'[b] # "write" /\ pc'[b] # "delete" /\ victims'[b] = {}
        BY <1>f, <1>t, <2>0, <3>2 DEF TypeOK, OursIsKept
      <4>3. Ours(b)' \in archives'
        BY <1>i, <3>1, PutKeeps DEF Ours
      <4>4. QED  BY <3>2, <4>1, <4>2, <4>3 DEF OursIsKept
    <3>3. CASE d # b
      BY <1>p, <2>0, <3>1, <3>3
    <3>4. QED  BY <3>2, <3>3
  <2>3. CASE b \in InVolume
    <3>1. /\ archives' = (archives \ {ArchiveOf(b, own[b], FALSE)})
                            \cup {ArchiveOf(b, own[b], TRUE)}
          /\ UNCHANGED <<last, own>>
      BY <2>1, <2>3
    <3>o. /\ Ours(b)' = Ours(b) /\ Ours(b) = ArchiveOf(b, own[b], TRUE)
          /\ Ours(b).number = own[b] /\ Ours(b).backup = b
          /\ ArchiveOf(b, own[b], FALSE).good = FALSE
          /\ ArchiveOf(b, own[b], FALSE).backup = b
      BY <3>1 DEF Ours, ArchiveOf
    <3>2. CASE d = b
      <4>1. pc'[b] # "write" /\ pc'[b] # "delete" /\ victims'[b] = {}
        BY <1>f, <1>t, <2>0, <3>2 DEF TypeOK, OursIsKept
      <4>2. Ours(b)' \in archives'
        BY <3>1, <3>o
      <4>3. NewestIs(b, own[b])'
        <5>1. own[b] \in Nat
          BY <1>t DEF TypeOK
        <5>2. \A a \in archives : a.backup = b => a.number <= own[b]
          BY <1>f, <2>0, <2>3, <3>2 DEF OursIsKept, NewestIs
        <5>3. \A a \in archives' : a \in archives \/ a = Ours(b)
          BY <3>1, <3>o
        <5>4. \A a \in archives' : a.backup = b => a.number <= own[b]
          <6> SUFFICES ASSUME NEW a \in archives', a.backup = b
                       PROVE  a.number <= own[b]
            OBVIOUS
          <6>1. CASE a = Ours(b)
            <7>1. a.number = own[b]
              BY <3>o, <6>1
            <7>2. QED  BY <5>1, <7>1
          <6>2. CASE a \in archives
            BY <5>2, <6>2
          <6>3. QED  BY <5>3, <6>1, <6>2
        <5>5. QED  BY <3>1, <5>4 DEF NewestIs
      <4>4. QED  BY <3>2, <4>1, <4>2, <4>3 DEF OursIsKept
    <3>3. CASE d # b
      <4>1. \A a \in archives' : a.backup = d => a \in archives
        BY <3>1, <3>3, <3>o
      <4>2. Ours(d) \in archives => Ours(d) \in archives'
        <5>1. Ours(d).backup = d
          BY DEF Ours, ArchiveOf
        <5>2. QED  BY <3>1, <3>3, <3>o, <5>1
      <4>3. QED
        BY <1>f, <1>t, <2>0, <3>1, <3>3, <4>1, <4>2, OthersKeep DEF TypeOK
    <3>4. QED  BY <3>2, <3>3
  <2>4. QED  BY <2>2, <2>3
<1>3. ASSUME NEW b \in Backups, Fail(b) PROVE OursIsKept(d)'
  <2>0. /\ pc[b] = "write" /\ pc' = [pc EXCEPT ![b] = "idle"]
        /\ victims' = victims
    BY <1>3 DEF Fail, Goto
  <2>1. CASE d = b
    BY <1>f, <1>t, <2>0, <2>1 DEF OursIsKept, TypeOK
  <2>2. CASE d # b
    <3>1. CASE Put(b, own[b], TRUE)
      BY <1>p, <2>0, <2>2, <3>1
    <3>2. CASE UNCHANGED <<archives, last, own>>
      BY <1>f, <1>t, <2>0, <2>2, <3>2, OthersKeep DEF TypeOK
    <3>3. QED  BY <1>3, <3>1, <3>2 DEF Fail
  <2>3. QED  BY <2>1, <2>2
<1>4. ASSUME NEW b \in Backups, List(b) PROVE OursIsKept(d)'
  <2>0. UNCHANGED <<archives, last, own>> /\ pc[b] = "list"
    BY <1>4 DEF List
  <2>1. CASE d # b
    <3>1. pc'[d] = pc[d] /\ victims'[d] = victims[d]
      BY <1>4, <1>t, <2>1 DEF List, Goto, TypeOK
    <3>2. QED  BY <1>f, <2>0, <3>1, OthersKeep
  <2>2. CASE d = b
    <3>1. Ours(b) \in archives /\ NewestIs(b, own[b]) /\ victims[b] = {}
      BY <1>f, <2>0, <2>2 DEF OursIsKept
    <3>2. Ours(b)' = Ours(b) /\ NewestIs(b, own[b])'
      BY <2>0, <3>1 DEF Ours, ArchiveOf, NewestIs
    <3>3. ASSUME NEW S, S \subseteq Found(b), Goto(b, "delete"),
                 victims' = [victims EXCEPT ![b] = Expired(b, S)]
          PROVE  OursIsKept(b)'
      <4>1. pc'[b] = "delete" /\ victims'[b] = Expired(b, S)
        BY <1>t, <3>3 DEF Goto, TypeOK
      <4>2. Ours(b) \notin Expired(b, S)
        BY <1>g, <1>t, <2>2, <3>1, <3>3, NewestNotExpired
      <4>3. QED  BY <2>0, <2>2, <3>1, <3>2, <4>1, <4>2 DEF OursIsKept
    <3>4. CASE Goto(b, "idle") /\ UNCHANGED victims
      BY <1>t, <2>2, <3>1, <3>4 DEF Goto, OursIsKept, TypeOK
    <3>5. QED  BY <1>4, <2>2, <3>3, <3>4 DEF List
  <2>3. QED  BY <2>1, <2>2
<1>5. ASSUME NEW b \in Backups, Delete(b) PROVE OursIsKept(d)'
  <2>1. PICK a \in victims[b] :
          \/ /\ archives' = archives \ {a}
             /\ victims' = [victims EXCEPT ![b] = @ \ {a}]
             /\ UNCHANGED pc
          \/ /\ Goto(b, "idle")
             /\ victims' = [victims EXCEPT ![b] = {}]
             /\ UNCHANGED archives
    BY <1>5 DEF Delete
  <2>2. pc[b] = "delete" /\ UNCHANGED <<last, own>>
    BY <1>5 DEF Delete
  <2>3. archives' \subseteq archives
    BY <2>1
  <2>4. CASE d # b
    <3>1. pc'[d] = pc[d] /\ victims'[d] = victims[d]
      BY <1>t, <2>1, <2>4 DEF Goto, TypeOK
    <3>2. a.backup # d
      BY <1>g, <1>i, <2>4 DEF VictimsMatch, Alone
    <3>3. Ours(d) \in archives => Ours(d) \in archives'
      BY <2>1, <3>2 DEF Ours, ArchiveOf
    <3>4. QED  BY <1>f, <2>2, <2>3, <3>1, <3>3, OthersKeep
  <2>5. CASE d = b
    <3>0. a # Ours(b) /\ Ours(b) \in archives /\ NewestIs(b, own[b])
      BY <1>f, <2>2, <2>5 DEF OursIsKept
    <3>1. /\ Ours(b)' = Ours(b) /\ NewestIs(b, own[b])'
          /\ Ours(b) \in archives'
      BY <2>1, <2>2, <2>3, <3>0 DEF Ours, ArchiveOf, NewestIs
    <3>2. CASE UNCHANGED pc /\ victims' = [victims EXCEPT ![b] = @ \ {a}]
      <4>1. victims'[b] = victims[b] \ {a}
        BY <1>t, <3>2 DEF TypeOK
      <4>2. QED
        BY <1>f, <2>2, <2>5, <3>1, <3>2, <4>1 DEF OursIsKept
    <3>3. CASE Goto(b, "idle") /\ victims' = [victims EXCEPT ![b] = {}]
      BY <1>t, <2>5, <3>3 DEF Goto, OursIsKept, TypeOK
    <3>4. QED  BY <2>1, <3>2, <3>3
  <2>6. QED  BY <2>4, <2>5
<1>6. ASSUME NEW b \in Backups, EndDelete(b) PROVE OursIsKept(d)'
  <2>1. /\ UNCHANGED <<archives, last, own, victims>> /\ victims[b] = {}
        /\ pc' = [pc EXCEPT ![b] = "kept"]
    BY <1>6 DEF EndDelete, Goto
  <2>2. CASE d = b
    BY <1>t, <2>1, <2>2 DEF OursIsKept, TypeOK
  <2>3. CASE d # b
    BY <1>f, <1>t, <2>1, <2>3, OthersKeep DEF TypeOK
  <2>4. QED  BY <2>2, <2>3
<1>7. CASE End
  BY <1>7 DEF End, OursIsKept
<1>8. CASE UNCHANGED vars
  BY <1>8, <1>f, OthersKeep DEF vars
<1>9. QED
  BY <1>1, <1>2, <1>3, <1>4, <1>5, <1>6, <1>7, <1>8
  DEF Next, Attempt, Panic, Crash

\* However attempts of several Backups are interleaved, fail or crash, a Backup
\* that has a good archive keeps one, because retention runs only after an
\* archive that is newer than all others, and always keeps the newest; but for
\* an archive in a volume that an attempt within the same second truncates.
THEOREM GoodArchiveStays == Spec => SomeGoodKept
<1>2. Init => KeepInv
  BY TypeInit DEF Init, KeepInv, Numbered, VictimsMatch, OursIsKept
<1>4. KeepInv /\ [Next]_vars =>
        [Noticed' => \A b \in Backups :
           Alone(b) /\ Good(b) # {} =>
             Good(b)' # {} \/ (b \in InVolume /\ Overwrites(b))]_vars
  <2> SUFFICES ASSUME KeepInv, Next, Noticed',
                      NEW b \in Backups, Alone(b), Good(b) # {}
               PROVE  Good(b)' # {} \/ (b \in InVolume /\ Overwrites(b))
    BY DEF vars
  <2>n. Noticed /\ TypeOK /\ Numbered
    BY History DEF KeepInv, TypeInv, Noticed
  <2>g. PICK g \in archives : g.backup = b /\ g.good
    BY DEF Good
  <2>1. CASE g \in archives'
    BY <2>1, <2>g DEF Good
  <2>2. CASE g \notin archives'
    <3>1. PICK c \in Backups : Begin(c) \/ Complete(c) \/ Fail(c) \/ Delete(c)
      BY <2>2, <2>g DEF Next, Attempt, List, Panic, EndDelete, Crash, End
    <3>p. ASSUME NEW name, Put(c, name, TRUE) PROVE Good(b)' # {}
      <4>1. c = b
        BY <2>g, <2>n, <2>2, <3>p, PutKeeps
      <4>2. ArchiveOf(b, own'[b], TRUE) \in archives'
        BY <2>n, <3>p, <4>1, PutKeeps
      <4>3. QED  BY <4>2 DEF Good, ArchiveOf
    <3>2. CASE Begin(c)
      <4>1. PICK name \in {0, own[c]} :
              IF c \in InVolume THEN Put(c, name, FALSE) ELSE UNCHANGED archives
        BY <3>2 DEF Begin
      <4>2. c \in InVolume /\ Put(c, name, FALSE)
        BY <2>2, <2>g, <4>1
      <4>3. c = b /\ g.number = name /\ own'[b] # own[b]
        BY <2>g, <2>n, <2>2, <4>2, PutKeeps
      <4>4. g.number \in 1..MaxArchives
        BY <2>g, <2>n DEF TypeOK, Archive
      <4>5. g.number = own[b]
        BY <4>1, <4>3, <4>4, StoreAssumption
      <4>6. QED  BY <2>2, <2>g, <4>2, <4>3, <4>5 DEF Overwrites
    <3>3. CASE Complete(c)
      <4>1. CASE c \in InVolume
        <5>1. g = ArchiveOf(c, own[c], FALSE)
          BY <2>2, <2>g, <3>3, <4>1 DEF Complete
        <5>2. g.good = FALSE
          BY <5>1 DEF ArchiveOf
        <5>3. QED  BY <2>g, <5>2
      <4>2. CASE c \notin InVolume
        <5>1. Put(c, own[c], TRUE)
          BY <3>3, <4>2 DEF Complete, Fault, Noticed
        <5>2. QED  BY <3>p, <5>1
      <4>3. QED  BY <4>1, <4>2
    <3>4. CASE Fail(c)
      BY <2>2, <2>g, <3>p, <3>4 DEF Fail
    <3>5. CASE Delete(c)
      <4>1. g \in victims[c] /\ pc[c] = "delete"
        BY <2>2, <2>g, <3>5 DEF Delete
      <4>2. c = b
        BY <2>g, <4>1 DEF KeepInv, VictimsMatch, Alone
      <4>3. Ours(b) \in archives /\ \A v \in victims[b] : v # Ours(b)
        BY <2>n, <4>1, <4>2 DEF KeepInv, OursIsKept
      <4>4. Ours(b) \in archives'
        BY <3>5, <4>2, <4>3 DEF Delete
      <4>5. Ours(b).backup = b /\ Ours(b).good = TRUE
        BY DEF Ours, ArchiveOf
      <4>6. QED  BY <4>4, <4>5 DEF Good
    <3>6. QED  BY <3>1, <3>2, <3>3, <3>4, <3>5
  <2>3. QED  BY <2>1, <2>2
<1>5. QED  BY <1>2, <1>4, KeepStep, PTL DEF Spec, SomeGoodKept

-----------------------------------------------------------------------------
(* NoMoreThanKept                                                          *)

LEMMA SmallestNumber ==
  ASSUME NEW S, S \subseteq Nat, S # {}
  PROVE  \E n \in S : \A m \in S : n <= m
<1> DEFINE R == OpToRel(<, Nat)
<1>1. \A n, m \in Nat : n < m => <<n, m>> \in R
  BY DEF OpToRel
<1>2. IsWellFoundedOn(R, Nat)
  BY NatLessThanWellFounded
<1> HIDE DEF R
<1>3. PICK n \in S : \A m \in S : ~(<<m, n>> \in R)
  BY <1>2, WFMin
<1>4. \A m \in S : m \in Nat /\ n \in Nat /\ ~(m < n)
  BY <1>1, <1>3
<1>5. \A m \in S : n <= m
  BY <1>4
<1>6. QED  BY <1>5

\* Numbers tell the archives of S apart.
Distinct(S) == \A a, c \in S : a.number = c.number => a = c

LEMMA DistinctFinite ==
  ASSUME NEW S, S \subseteq Archive, Distinct(S)
  PROVE  IsFiniteSet(S)
<1> DEFINE f == [a \in S |-> a.number]
<1>1. f \in Injection(S, 1..MaxArchives)
  <2>1. f \in [S -> 1..MaxArchives]
    BY DEF Archive
  <2>2. \A a, c \in S : f[a] = f[c] => a = c
    BY DEF Distinct
  <2> HIDE DEF f
  <2>3. QED  BY <2>1, <2>2 DEF Injection, IsInjective
<1>2. IsFiniteSet(1..MaxArchives)
  BY FS_Interval, StoreAssumption
<1>3. QED  BY <1>1, <1>2, FS_Injection

\* Of the archives that are not expired, all but the oldest are newer than that
\* one, and so fewer than are kept.
LEMMA NewestAreFew ==
  ASSUME NEW S, S \subseteq Archive, Distinct(S), NEW n \in Nat \ {0}
  PROVE  Cardinality({a \in S : ~(Cardinality(Newer(a, S)) >= n)}) <= n
<1> DEFINE K == {a \in S : ~(Cardinality(Newer(a, S)) >= n)}
<1>0. K \subseteq S /\ IsFiniteSet(S)
  BY DistinctFinite
<1>1. CASE K = {}
  BY <1>1, FS_EmptySet
<1>2. CASE K # {}
  <2> DEFINE numbers == {a.number : a \in K}
  <2>1. numbers \subseteq Nat /\ numbers # {}
    BY <1>0, <1>2 DEF Archive
  <2>2. PICK k \in numbers : \A m \in numbers : k <= m
    BY <2>1, SmallestNumber
  <2>3. PICK a \in K : \A c \in K : a.number <= c.number
    BY <2>2
  <2>4. K \ {a} \subseteq Newer(a, S)
    <3> SUFFICES ASSUME NEW c \in K, c # a PROVE c \in Newer(a, S)
      OBVIOUS
    <3>1. c.number # a.number /\ a.number <= c.number
      BY <2>3 DEF Distinct
    <3>2. c.number \in Nat /\ a.number \in Nat
      BY DEF Archive
    <3>3. QED  BY <3>1, <3>2 DEF Newer
  <2>5. IsFiniteSet(Newer(a, S)) /\ IsFiniteSet(K)
    BY <1>0, FS_Subset DEF Newer
  <2>6. Cardinality(Newer(a, S)) \in Nat /\ Cardinality(Newer(a, S)) < n
    BY <2>5, FS_CardinalityType
  <2>7. Cardinality(K \ {a}) \in Nat /\ Cardinality(K \ {a}) <= Cardinality(Newer(a, S))
    BY <2>4, <2>5, FS_Subset, FS_CardinalityType
  <2>8. Cardinality(K \ {a}) = Cardinality(K) - 1
    BY <2>5, FS_RemoveElement
  <2>9. Cardinality(K) \in Nat
    BY <2>5, FS_CardinalityType
  <2>10. QED  BY <2>6, <2>7, <2>8, <2>9
<1>3. QED  BY <1>1, <1>2

\* A number is given once: no two archives have it, nor two attempts, and the
\* file an attempt writes is the archive with its number.
NumberedOnce ==
  /\ Distinct(archives)
  /\ \A b, c \in Backups : own[b] = own[c] /\ own[b] # 0 => b = c
  /\ \A b \in Backups : b \in InVolume /\ pc[b] = "write" =>
       \A a \in archives : a.number = own[b] => a = ArchiveOf(b, own[b], FALSE)

LEMMA PutOnce ==
  ASSUME TypeOK, Numbered, NumberedOnce,
         NEW b \in Backups, NEW name, NEW good \in BOOLEAN, Put(b, name, good)
  PROVE  /\ Distinct(archives')
         /\ \A c, d \in Backups : own'[c] = own'[d] /\ own'[c] # 0 => c = d
         /\ \A c \in Backups \ {b} : \A a \in archives' :
              a.number = own'[c] => a \in archives /\ own'[c] = own[c]
         /\ \A a \in archives' : a.number = own'[b] => a = ArchiveOf(b, own'[b], good)
<1> DEFINE new == ArchiveOf(b, last + 1, good)
<1>1. own' = [own EXCEPT ![b] = last + 1] /\ last \in Nat
      /\ archives' \subseteq archives \cup {new} /\ new.number = last + 1
  BY DEF Put, ArchiveOf, TypeOK
<1> HIDE DEF new
<1>2. \A a \in archives : a.number \in Nat /\ a.number <= last
  BY DEF Numbered, TypeOK, Archive
<1>3. \A c \in Backups : own[c] \in Nat /\ own[c] <= last
  BY DEF Numbered, TypeOK
<1>4. own'[b] = last + 1 /\ \A c \in Backups \ {b} : own'[c] = own[c]
  BY <1>1 DEF TypeOK
<1>5. Distinct(archives')
  BY <1>1, <1>2 DEF NumberedOnce, Distinct
<1>6. \A c, d \in Backups : own'[c] = own'[d] /\ own'[c] # 0 => c = d
  BY <1>1, <1>3, <1>4 DEF NumberedOnce
<1>7. \A c \in Backups \ {b} : \A a \in archives' :
        a.number = own'[c] => a \in archives /\ own'[c] = own[c]
  BY <1>1, <1>3, <1>4
<1>8. \A a \in archives' : a.number = own'[b] => a = new
  BY <1>1, <1>2, <1>4
<1>9. QED  BY <1>4, <1>5, <1>6, <1>7, <1>8 DEF new

LEMMA NumberedOnceStep ==
  ASSUME TypeInv, Numbered, NumberedOnce, [Next]_vars
  PROVE  NumberedOnce'
<1>t. TypeOK
  BY DEF TypeInv
<1>1. ASSUME NEW b \in Backups, NEW name, NEW good \in BOOLEAN, Put(b, name, good),
             \A c \in Backups \ {b} : pc'[c] = pc[c],
             pc'[b] = "write" => ~good \/ b \notin InVolume
      PROVE  NumberedOnce'
  <2>1. ASSUME NEW c \in Backups, c \in InVolume, pc'[c] = "write",
               NEW a \in archives', a.number = own'[c]
        PROVE  a = ArchiveOf(c, own'[c], FALSE)
    <3>1. CASE c = b
      BY <1>1, <1>t, <2>1, <3>1, PutOnce
    <3>2. CASE c # b
      BY <1>1, <1>t, <2>1, <3>2, PutOnce DEF NumberedOnce
    <3>3. QED  BY <3>1, <3>2
  <2>2. QED  BY <1>1, <1>t, <2>1, PutOnce DEF NumberedOnce
<1>2. ASSUME archives' \subseteq archives, UNCHANGED own,
             \A c \in Backups : c \in InVolume /\ pc'[c] = "write" => pc[c] = "write"
      PROVE  NumberedOnce'
  BY <1>2 DEF NumberedOnce, Distinct
<1>3. ASSUME NEW b \in Backups, Begin(b) PROVE NumberedOnce'
  <2>p. PICK name \in {0, own[b]} :
          IF b \in InVolume
          THEN Put(b, name, FALSE)
          ELSE own' = [own EXCEPT ![b] = name] /\ UNCHANGED <<archives, last>>
    BY <1>3 DEF Begin
  <2>0. pc' = [pc EXCEPT ![b] = "write"]
    BY <1>3 DEF Begin, Goto
  <2>1. CASE b \in InVolume
    BY <1>1, <1>t, <2>0, <2>1, <2>p DEF TypeOK
  <2>2. CASE b \notin InVolume
    <3>1. /\ own'[b] \in {0, own[b]} /\ \A c \in Backups \ {b} : own'[c] = own[c]
          /\ UNCHANGED archives /\ \A c \in Backups \ {b} : pc'[c] = pc[c]
      BY <1>t, <2>0, <2>2, <2>p DEF TypeOK
    <3>2. QED  BY <2>2, <3>1 DEF NumberedOnce
  <2>3. QED  BY <2>1, <2>2
<1>4. ASSUME NEW b \in Backups, Complete(b) PROVE NumberedOnce'
  <2>0. /\ pc[b] = "write" /\ pc' = [pc EXCEPT ![b] = Kept(b)]
        /\ Kept(b) # "write"
    BY <1>4 DEF Complete, Goto, Kept
  <2>1. PICK good \in BOOLEAN :
          IF b \in InVolume
          THEN /\ archives' = (archives \ {ArchiveOf(b, own[b], FALSE)})
                                \cup {ArchiveOf(b, own[b], good)}
               /\ UNCHANGED <<last, own>>
          ELSE Put(b, own[b], good)
    BY <1>4 DEF Complete
  <2>2. CASE b \notin InVolume
    BY <1>1, <1>t, <2>0, <2>1, <2>2 DEF TypeOK
  <2>3. CASE b \in InVolume
    <3> DEFINE file == ArchiveOf(b, own[b], FALSE)
               whole == ArchiveOf(b, own[b], good)
    <3>1. /\ archives' = (archives \ {file}) \cup {whole}
          /\ UNCHANGED own /\ whole.number = own[b]
      BY <2>1, <2>3 DEF ArchiveOf
    <3>2. \A a \in archives : a.number = own[b] => a = file
      BY <2>0, <2>3 DEF NumberedOnce
    <3>3. own[b] # 0
      BY <2>0, <2>3 DEF TypeInv
    <3> HIDE DEF file, whole
    <3>4. Distinct(archives')
      BY <3>1, <3>2 DEF NumberedOnce, Distinct
    <3>5. ASSUME NEW c \in Backups, c \in InVolume, pc'[c] = "write",
                 NEW a \in archives', a.number = own[c]
          PROVE  a = ArchiveOf(c, own[c], FALSE)
      <4>1. c # b /\ pc[c] = "write"
        BY <1>t, <2>0, <3>5 DEF TypeOK
      <4>2. own[c] # own[b]
        BY <3>3, <4>1 DEF NumberedOnce
      <4>3. a \in archives
        BY <3>1, <3>5, <4>2
      <4>4. QED  BY <3>5, <4>1, <4>3 DEF NumberedOnce
    <3>6. QED  BY <3>1, <3>4, <3>5 DEF NumberedOnce
  <2>4. QED  BY <2>2, <2>3
<1>5. ASSUME NEW b \in Backups, Fail(b) PROVE NumberedOnce'
  <2>0. pc' = [pc EXCEPT ![b] = "idle"]
    BY <1>5 DEF Fail, Goto
  <2>1. CASE Put(b, own[b], TRUE)
    BY <1>1, <1>t, <2>0, <2>1 DEF TypeOK
  <2>2. CASE UNCHANGED <<archives, last, own>>
    BY <1>2, <1>t, <2>0, <2>2 DEF TypeOK
  <2>3. QED  BY <1>5, <2>1, <2>2 DEF Fail
<1>6. ASSUME NEW b \in Backups, List(b) \/ Delete(b) \/ EndDelete(b)
      PROVE  NumberedOnce'
  BY <1>2, <1>6, <1>t DEF List, Delete, EndDelete, Goto, TypeOK
<1>7. CASE End \/ UNCHANGED vars
  BY <1>2, <1>7 DEF End, vars
<1>8. QED
  BY <1>3, <1>4, <1>5, <1>6, <1>7 DEF Next, Attempt, Panic, Crash

Mine(b) == {a \in archives : a.backup = b}

Examined(b) == Mine(b) \ skipped[b]

\* What retention has still to delete is all that is too much.
FewRemain ==
  \A b \in Recurring : b \in Matches[b] =>
    /\ pc[b] = "delete" => Cardinality(Examined(b) \ victims[b]) <= Keep[b]
    /\ pc[b] = "kept" => Cardinality(Examined(b)) <= Keep[b]

LEMMA FewerRemain ==
  ASSUME TypeOK, NumberedOnce, NEW b \in Recurring, NEW S, NEW T,
         S \subseteq T, T \subseteq Mine(b), Cardinality(T) <= Keep[b]
  PROVE  Cardinality(S) <= Keep[b]
<1>1. IsFiniteSet(archives)
  BY DistinctFinite DEF TypeOK, NumberedOnce
<1>2. IsFiniteSet(T)
  BY <1>1, FS_Subset DEF Mine
<1>3. IsFiniteSet(S) /\ Cardinality(S) <= Cardinality(T)
  BY <1>2, FS_Subset
<1>4. Cardinality(S) \in Nat /\ Cardinality(T) \in Nat /\ Keep[b] \in Nat
  BY <1>2, <1>3, FS_CardinalityType, StoreAssumption
<1>5. QED  BY <1>3, <1>4

LEMMA FewRemainStep ==
  ASSUME TypeInv, NumberedOnce, FewRemain, [Next]_vars
  PROVE  FewRemain'
<1>t. TypeOK
  BY DEF TypeInv
<1> SUFFICES ASSUME NEW d \in Recurring, d \in Matches[d]
             PROVE  /\ pc'[d] = "delete" =>
                         Cardinality(Examined(d)' \ victims'[d]) <= Keep[d]
                    /\ pc'[d] = "kept" => Cardinality(Examined(d)') <= Keep[d]
  BY DEF FewRemain
<1> DEFINE Few ==
             /\ pc'[d] = "delete" => Cardinality(Examined(d)' \ victims'[d]) <= Keep[d]
             /\ pc'[d] = "kept" => Cardinality(Examined(d)') <= Keep[d]
<1>d. d \in Backups
  BY StoreAssumption
<1>1. ASSUME Mine(d)' \subseteq Mine(d), pc'[d] = pc[d], victims'[d] = victims[d],
             skipped'[d] = skipped[d]
      PROVE  Few
  <2>0. Examined(d)' \subseteq Examined(d) /\ Examined(d) \subseteq Mine(d)
    BY <1>1 DEF Examined
  <2>1. CASE pc[d] = "delete"
    <3>1. Cardinality(Examined(d) \ victims[d]) <= Keep[d]
      BY <2>1 DEF FewRemain
    <3>2. Examined(d)' \ victims'[d] \subseteq Examined(d) \ victims[d]
      BY <1>1, <2>0
    <3>3. Cardinality(Examined(d)' \ victims'[d]) <= Keep[d]
      BY <1>t, <2>0, <3>1, <3>2, FewerRemain
    <3>4. QED  BY <1>1, <2>1, <3>3
  <2>2. CASE pc[d] = "kept"
    <3>1. Cardinality(Examined(d)') <= Keep[d]
      BY <1>1, <1>t, <2>0, <2>2, FewerRemain DEF FewRemain
    <3>2. QED  BY <1>1, <2>2, <3>1
  <2>3. QED  BY <1>1, <2>1, <2>2
<1>2. ASSUME pc'[d] \notin {"delete", "kept"} PROVE Few
  BY <1>2
<1>a. ASSUME NEW b \in Backups, b # d, NEW name, NEW good \in BOOLEAN,
             Put(b, name, good)
      PROVE  Mine(d)' \subseteq Mine(d)
  BY <1>a DEF Put, ArchiveOf, Mine
<1>3. ASSUME NEW b \in Backups, Begin(b) PROVE Few
  <2>1. CASE b = d
    BY <1>2, <1>3, <1>t, <2>1 DEF Begin, Goto, TypeOK
  <2>2. CASE b # d
    <3>1. Mine(d)' \subseteq Mine(d)
      BY <1>3, <1>a, <2>2 DEF Begin, Mine
    <3>2. pc'[d] = pc[d] /\ victims'[d] = victims[d] /\ skipped'[d] = skipped[d]
      BY <1>3, <1>d, <1>t, <2>2 DEF Begin, Goto, TypeOK
    <3>3. QED  BY <1>1, <3>1, <3>2
  <2>3. QED  BY <2>1, <2>2
<1>4. ASSUME NEW b \in Backups, Complete(b) \/ Fail(b) PROVE Few
  <2>1. CASE b = d
    BY <1>2, <1>4, <1>t, <2>1 DEF Complete, Fail, Goto, Kept, TypeOK
  <2>2. CASE b # d
    <3>1. \/ \E good \in BOOLEAN : Put(b, own[b], good)
          \/ UNCHANGED archives
          \/ \E good \in BOOLEAN : archives' \subseteq archives \cup {ArchiveOf(b, own[b], good)}
      BY <1>4 DEF Complete, Fail
    <3>2. Mine(d)' \subseteq Mine(d)
      BY <1>a, <2>2, <3>1, ArchiveFields DEF Mine
    <3>3. pc'[d] = pc[d] /\ victims'[d] = victims[d] /\ skipped'[d] = skipped[d]
      BY <1>4, <1>d, <1>t, <2>2 DEF Complete, Fail, Goto, TypeOK
    <3>4. QED  BY <1>1, <3>2, <3>3
  <2>3. QED  BY <2>1, <2>2
<1>5. ASSUME NEW b \in Backups, List(b) PROVE Few
  <2>0. UNCHANGED archives /\ Mine(d)' = Mine(d)
    BY <1>5 DEF List, Mine
  <2>1. CASE b # d
    <3>1. pc'[d] = pc[d] /\ victims'[d] = victims[d] /\ skipped'[d] = skipped[d]
      BY <1>5, <1>d, <1>t, <2>1 DEF List, Goto, TypeOK
    <3>2. QED  BY <1>1, <2>0, <3>1
  <2>2. CASE b = d /\ Goto(d, "idle")
    BY <1>2, <1>d, <1>t, <2>2 DEF Goto, TypeOK
  <2>3. ASSUME b = d, Goto(d, "delete"), NEW S, S \subseteq Found(d),
               victims' = [victims EXCEPT ![d] = Expired(d, S)],
               Found(d) \ S \subseteq skipped'[d]
        PROVE  Few
    <3>1. pc'[d] = "delete" /\ victims'[d] = Expired(d, S)
      BY <1>d, <1>t, <2>3 DEF Goto, TypeOK
    <3> DEFINE newest == {a \in S : ~(Cardinality(Newer(a, S)) >= Keep[d])}
               rest == Examined(d)' \ Expired(d, S)
    <3>2. S \subseteq Archive /\ Distinct(S) /\ Keep[d] \in Nat \ {0}
      BY <1>d, <1>t, <2>3, StoreAssumption DEF Found, TypeOK, NumberedOnce, Distinct
    <3>3. Cardinality(newest) <= Keep[d]
      BY <3>2, NewestAreFew
    <3>4. rest \subseteq newest
      <4>1. Mine(d) \subseteq Found(d)
        BY DEF Mine, Found
      <4>2. Examined(d)' \subseteq S
        BY <2>0, <2>3, <4>1 DEF Examined
      <4>3. QED  BY <4>2 DEF Expired
    <3>5. IsFiniteSet(newest)
      BY <3>2, DistinctFinite, FS_Subset
    <3>6. rest = Examined(d)' \ victims'[d]
      BY <3>1
    <3> HIDE DEF newest, rest
    <3>7. IsFiniteSet(rest) /\ Cardinality(rest) <= Cardinality(newest)
      BY <3>4, <3>5, FS_Subset
    <3>8. Cardinality(rest) \in Nat /\ Cardinality(newest) \in Nat
      BY <3>5, <3>7, FS_CardinalityType
    <3>9. Cardinality(rest) <= Keep[d]
      BY <3>2, <3>3, <3>7, <3>8
    <3>10. QED  BY <3>1, <3>6, <3>9
  <2>4. CASE b = d /\ Goto(d, "delete")
    <3>1. CASE victims' = [victims EXCEPT ![d] = Expired(d, Found(d))]
      BY <2>3, <2>4, <3>1
    <3>2. CASE \E S \in SUBSET Found(d) :
                 /\ victims' = [victims EXCEPT ![d] = Expired(d, S)]
                 /\ skipped' = [skipped EXCEPT ![d] = Found(d) \ S]
      <4>1. PICK S \in SUBSET Found(d) :
              /\ victims' = [victims EXCEPT ![d] = Expired(d, S)]
              /\ skipped' = [skipped EXCEPT ![d] = Found(d) \ S]
        BY <3>2
      <4>2. skipped'[d] = Found(d) \ S
        BY <1>d, <1>t, <4>1 DEF TypeOK
      <4>3. QED  BY <2>3, <2>4, <4>1, <4>2
    <3>3. ~Goto(d, "idle")
      BY <1>d, <1>t, <2>4 DEF Goto, TypeOK
    <3>4. QED  BY <1>5, <2>4, <3>1, <3>2, <3>3 DEF List
  <2>5. QED  BY <1>5, <2>1, <2>2, <2>4 DEF List
<1>6. ASSUME NEW b \in Backups, Delete(b) PROVE Few
  <2>1. PICK a \in victims[b] :
          \/ /\ archives' = archives \ {a}
             /\ victims' = [victims EXCEPT ![b] = @ \ {a}]
             /\ UNCHANGED pc
          \/ /\ Goto(b, "idle")
             /\ victims' = [victims EXCEPT ![b] = {}]
             /\ UNCHANGED archives
    BY <1>6 DEF Delete
  <2>2. Mine(d)' \subseteq Mine(d)
    BY <2>1 DEF Mine
  <2>3. CASE b # d
    <3>0. UNCHANGED skipped
      BY <1>6 DEF Delete
    <3>1. pc'[d] = pc[d] /\ victims'[d] = victims[d] /\ skipped'[d] = skipped[d]
      BY <1>d, <1>t, <2>1, <2>3, <3>0 DEF Goto, TypeOK
    <3>2. QED  BY <1>1, <2>2, <3>1
  <2>4. CASE b = d /\ Goto(d, "idle")
    BY <1>2, <1>d, <1>t, <2>4 DEF Goto, TypeOK
  <2>5. CASE b = d /\ archives' = archives \ {a} /\ UNCHANGED pc
             /\ victims' = [victims EXCEPT ![d] = @ \ {a}]
    <3>1. pc'[d] = "delete" /\ pc[d] = "delete" /\ victims'[d] = victims[d] \ {a}
      BY <1>6, <1>d, <1>t, <2>5 DEF Delete, TypeOK
    <3>2. /\ Examined(d)' \ victims'[d] \subseteq Examined(d) \ victims[d]
          /\ Examined(d) \ victims[d] \subseteq Mine(d)
      BY <1>6, <2>5, <3>1 DEF Delete, Examined, Mine
    <3>3. Cardinality(Examined(d)' \ victims'[d]) <= Keep[d]
      BY <1>t, <3>1, <3>2, FewerRemain DEF FewRemain
    <3>4. QED  BY <3>1, <3>3
  <2>6. QED  BY <2>1, <2>3, <2>4, <2>5
<1>7. ASSUME NEW b \in Backups, EndDelete(b) PROVE Few
  <2>1. CASE b # d
    <3>1. /\ Mine(d)' \subseteq Mine(d)
          /\ pc'[d] = pc[d] /\ victims'[d] = victims[d] /\ skipped'[d] = skipped[d]
      BY <1>7, <1>d, <1>t, <2>1 DEF EndDelete, Goto, Mine, TypeOK
    <3>2. QED  BY <1>1, <3>1
  <2>2. CASE b = d
    <3>1. /\ pc[d] = "delete" /\ pc'[d] = "kept" /\ Examined(d)' = Examined(d)
          /\ victims[d] = {}
      BY <1>7, <1>d, <1>t, <2>2 DEF EndDelete, Goto, Mine, Examined, TypeOK
    <3>2. Examined(d) \ victims[d] = Examined(d)
      BY <3>1
    <3>3. QED  BY <3>1, <3>2 DEF FewRemain
  <2>3. QED  BY <2>1, <2>2
<1>8. CASE End
  BY <1>2, <1>8, <1>d DEF End
<1>9. CASE UNCHANGED vars
  BY <1>1, <1>9 DEF vars, Mine
<1>10. QED
  BY <1>3, <1>4, <1>5, <1>6, <1>7, <1>8, <1>9 DEF Next, Attempt, Panic, Crash

\* When retention is through, a Backup whose pattern finds its own archives has
\* no more than it is to keep of those that could be examined, although failed
\* attempts and retries have left some, other Backups write, delete and crash
\* in between, and a pattern may match archives of others.
THEOREM RetentionHolds == Spec => []NoMoreThanKept
<1> DEFINE RetainInv == TypeInv /\ Numbered /\ VictimsMatch /\ NumberedOnce /\ FewRemain
<1>1. Init => RetainInv
  BY TypeInit, StoreAssumption
  DEF Init, Numbered, VictimsMatch, NumberedOnce, Distinct, FewRemain
<1>2. RetainInv /\ [Next]_vars => RetainInv'
  BY TypeInvStep, NumberedStep, NumberedOnceStep, FewRemainStep
<1>3. RetainInv => NoMoreThanKept
  BY DEF FewRemain, Examined, Mine, NoMoreThanKept
<1> HIDE DEF RetainInv
<1>4. QED  BY <1>1, <1>2, <1>3, PTL DEF Spec

-----------------------------------------------------------------------------
(* PolicyFollowed                                                          *)

\* The expired archive with the largest number shows that all that are not
\* expired are newer than it, and that there are enough of them.
LEMMA NewerThanExpired ==
  ASSUME NEW S, S \subseteq Archive, Distinct(S), NEW n \in Nat \ {0},
         NEW E, E = {a \in S : Cardinality(Newer(a, S)) >= n}, NEW v \in E
  PROVE  Cardinality(Newer(v, S \ E)) >= n
<1> DEFINE below == {MaxArchives - a.number : a \in E}
<1>0. \A a \in S : a.number \in Nat /\ MaxArchives - a.number \in Nat
  BY StoreAssumption DEF Archive
<1>1. below \subseteq Nat /\ below # {}
  BY <1>0
<1>2. PICK k \in below : \A m \in below : k <= m
  BY <1>1, SmallestNumber
<1>3. PICK e \in E : \A a \in E : MaxArchives - e.number <= MaxArchives - a.number
  BY <1>2
<1>4. \A a \in E : a.number <= e.number
  BY <1>0, <1>3, StoreAssumption
<1>5. Newer(e, S) \subseteq Newer(v, S \ E)
  BY <1>0, <1>4 DEF Newer
<1>6. IsFiniteSet(Newer(v, S \ E))
  BY DistinctFinite, FS_Subset DEF Newer
<1>7. /\ Cardinality(Newer(e, S)) <= Cardinality(Newer(v, S \ E))
      /\ IsFiniteSet(Newer(e, S))
  BY <1>5, <1>6, FS_Subset
<1>8. Cardinality(Newer(e, S)) \in Nat /\ Cardinality(Newer(v, S \ E)) \in Nat
  BY <1>6, <1>7, FS_CardinalityType
<1>9. Cardinality(Newer(e, S)) >= n
  OBVIOUS
<1>10. QED  BY <1>7, <1>8, <1>9

\* All archives of b are good but for the file that is being written, ...
OthersGood(b) ==
  \A a \in Mine(b) :
    \/ a.good
    \/ b \in InVolume /\ pc[b] = "write" /\ a = ArchiveOf(b, own[b], FALSE)

\* ... and the good ones that are not to be deleted are enough, and newer.
EnoughNewer(b) ==
  \A v \in victims[b] : Cardinality(Newer(v, Good(b) \ victims[b])) >= Keep[b]

FollowInv ==
  \A b \in Backups : Alone(b) /\ NoneTruncated(b) =>
    /\ OthersGood(b)
    /\ EnoughNewer(b)
    /\ pc[b] # "delete" => victims[b] = {}

\* A step of others leaves the archives of b as they are.
LEMMA OthersFollow ==
  ASSUME NEW b, Mine(b)' = Mine(b), pc'[b] = pc[b], victims'[b] = victims[b],
         own'[b] = own[b]
  PROVE  /\ OthersGood(b) => OthersGood(b)'
         /\ EnoughNewer(b) => EnoughNewer(b)'
<1>1. Good(b)' = Good(b)
  BY DEF Good, Mine
<1>2. QED  BY <1>1 DEF OthersGood, EnoughNewer, Newer, ArchiveOf

LEMMA FollowStep ==
  ASSUME KeepInv, NumberedOnce, FollowInv, [Next]_vars
  PROVE  FollowInv'
<1>t. TypeOK /\ VictimsMatch
  BY DEF KeepInv, TypeInv
<1>g. SUFFICES ASSUME NEW d \in Backups, Alone(d), NoneTruncated(d)'
               PROVE  /\ OthersGood(d)' /\ EnoughNewer(d)'
                      /\ pc'[d] # "delete" => victims'[d] = {}
  BY DEF FollowInv, Alone
<1> DEFINE Follows == /\ OthersGood(d)' /\ EnoughNewer(d)'
                      /\ pc'[d] # "delete" => victims'[d] = {}
<1>f. /\ Noticed' /\ OthersGood(d) /\ EnoughNewer(d)
      /\ pc[d] # "delete" => victims[d] = {}
  <2>1. NoneTruncated(d)
    BY <1>g, <1>t, History DEF NoneTruncated, Noticed
  <2>2. QED  BY <1>g, <2>1 DEF FollowInv, NoneTruncated
<1>1. ASSUME Mine(d)' = Mine(d), pc'[d] = pc[d], victims'[d] = victims[d],
             own'[d] = own[d]
      PROVE  Follows
  BY <1>1, <1>f, OthersFollow
<1>2. ASSUME OthersGood(d)', victims'[d] = {} PROVE Follows
  BY <1>2 DEF EnoughNewer
<1>a. ASSUME NEW b \in Backups, b # d, NEW name, NEW good \in BOOLEAN,
             Put(b, name, good)
      PROVE  Mine(d)' = Mine(d) /\ own'[d] = own[d]
  BY <1>a, <1>t DEF Put, ArchiveOf, Mine, TypeOK
<1>b. ASSUME NEW name, NEW good \in BOOLEAN, Put(d, name, good)
      PROVE  /\ own'[d] = last + 1
             /\ Mine(d)' \subseteq Mine(d) \cup {ArchiveOf(d, last + 1, good)}
             /\ ArchiveOf(d, last + 1, good).good = good
  BY <1>b, <1>t DEF Put, ArchiveOf, Mine, TypeOK
<1>3. ASSUME NEW b \in Backups, Begin(b) PROVE Follows
  <2>0. /\ pc' = [pc EXCEPT ![b] = "write"] /\ victims' = victims
        /\ pc[b] \in {"idle", "kept"}
    BY <1>3 DEF Begin, Goto
  <2>1. CASE b # d
    <3>0. PICK name \in {0, own[b]} :
            IF b \in InVolume
            THEN Put(b, name, FALSE)
            ELSE own' = [own EXCEPT ![b] = name] /\ UNCHANGED <<archives, last>>
      BY <1>3 DEF Begin
    <3>1. Mine(d)' = Mine(d) /\ own'[d] = own[d]
      <4>1. CASE b \in InVolume
        BY <1>a, <2>1, <3>0, <4>1
      <4>2. CASE b \notin InVolume
        BY <1>t, <2>1, <3>0, <4>2 DEF Mine, TypeOK
      <4>3. QED  BY <4>1, <4>2
    <3>2. QED  BY <1>1, <1>t, <2>0, <2>1, <3>1 DEF TypeOK
  <2>2. CASE b = d
    <3>1. victims'[d] = {} /\ pc'[d] = "write" /\ \A a \in Mine(d) : a.good
      BY <1>f, <1>t, <2>0, <2>2 DEF OthersGood, TypeOK
    <3>2. CASE d \in InVolume
      BY <1>2, <1>3, <1>b, <2>2, <3>1, <3>2 DEF Begin, OthersGood, ArchiveOf
    <3>3. CASE d \notin InVolume
      <4>1. Mine(d)' = Mine(d)
        BY <1>3, <2>2, <3>3 DEF Begin, Mine
      <4>2. QED  BY <1>2, <3>1, <4>1 DEF OthersGood
    <3>4. QED  BY <3>2, <3>3
  <2>3. QED  BY <2>1, <2>2
<1>4. ASSUME NEW b \in Backups, Complete(b) PROVE Follows
  <2>0. /\ pc' = [pc EXCEPT ![b] = Kept(b)] /\ victims' = victims
        /\ pc[b] = "write" /\ Kept(b) # "delete"
    BY <1>4 DEF Complete, Goto, Kept
  <2>1. PICK good \in BOOLEAN :
          /\ IF good THEN NoFault ELSE Fault("flush")
          /\ IF b \in InVolume
             THEN /\ archives' = (archives \ {ArchiveOf(b, own[b], FALSE)})
                                   \cup {ArchiveOf(b, own[b], good)}
                  /\ UNCHANGED <<last, own>>
             ELSE Put(b, own[b], good)
    BY <1>4 DEF Complete
  <2>2. CASE b # d
    <3>1. Mine(d)' = Mine(d) /\ own'[d] = own[d]
      BY <1>a, <2>1, <2>2 DEF Mine, ArchiveOf
    <3>2. QED  BY <1>1, <1>t, <2>0, <2>2, <3>1 DEF TypeOK
  <2>3. CASE b = d
    <3>1. good = TRUE
      BY <1>f, <2>1 DEF Noticed, Fault
    <3>2. victims'[d] = {}
      BY <1>f, <2>0, <2>3
    <3>3. ASSUME NEW a \in Mine(d)' PROVE a.good
      <4>1. CASE d \in InVolume
        <5>1. archives' = (archives \ {ArchiveOf(d, own[d], FALSE)})
                            \cup {ArchiveOf(d, own[d], TRUE)}
          BY <2>1, <2>3, <3>1, <4>1
        <5>2. CASE a = ArchiveOf(d, own[d], TRUE)
          BY <5>2 DEF ArchiveOf
        <5>3. CASE a # ArchiveOf(d, own[d], TRUE)
          <6>1. a \in Mine(d) /\ a # ArchiveOf(d, own[d], FALSE)
            BY <5>1, <5>3 DEF Mine
          <6>2. QED  BY <1>f, <6>1 DEF OthersGood
        <5>4. QED  BY <5>2, <5>3
      <4>2. CASE d \notin InVolume
        <5>1. Put(d, own[d], TRUE)
          BY <2>1, <2>3, <3>1, <4>2
        <5>2. a \in Mine(d) \/ a = ArchiveOf(d, last + 1, TRUE)
          BY <1>b, <5>1
        <5>3. CASE a \in Mine(d)
          BY <1>f, <4>2, <5>3 DEF OthersGood
        <5>4. CASE a = ArchiveOf(d, last + 1, TRUE)
          BY <5>4 DEF ArchiveOf
        <5>5. QED  BY <5>2, <5>3, <5>4
      <4>3. QED  BY <4>1, <4>2
    <3>4. QED  BY <1>2, <3>2, <3>3 DEF OthersGood
  <2>4. QED  BY <2>2, <2>3
<1>5. ASSUME NEW b \in Backups, Fail(b) PROVE Follows
  <2>0. /\ pc' = [pc EXCEPT ![b] = "idle"] /\ victims' = victims
        /\ pc[b] = "write"
    BY <1>5 DEF Fail, Goto
  <2>1. CASE b # d
    <3>1. Mine(d)' = Mine(d) /\ own'[d] = own[d]
      BY <1>5, <1>a, <2>1 DEF Fail, Mine
    <3>2. QED  BY <1>1, <1>t, <2>0, <2>1, <3>1 DEF TypeOK
  <2>2. CASE b = d
    <3>1. d \notin InVolume
      BY <1>5, <1>g, <2>2 DEF Fail, Fault, NoneTruncated
    <3>2. \A a \in Mine(d)' : a.good
      BY <1>5, <1>b, <1>f, <2>2, <3>1 DEF Fail, Mine, OthersGood
    <3>3. QED  BY <1>2, <1>f, <2>0, <2>2, <3>2 DEF OthersGood
  <2>3. QED  BY <2>1, <2>2
<1>6. ASSUME NEW b \in Backups, List(b) PROVE Follows
  <2>0. UNCHANGED <<archives, own>> /\ pc[b] = "list" /\ Mine(d)' = Mine(d)
    BY <1>6 DEF List, Mine
  <2>1. CASE b # d
    BY <1>1, <1>6, <1>t, <2>0, <2>1 DEF List, Goto, TypeOK
  <2>2. CASE b = d
    <3>1. (\A a \in Mine(d) : a.good) /\ victims[d] = {}
      BY <1>f, <2>0, <2>2 DEF OthersGood
    <3>2. OthersGood(d)' /\ Good(d)' = Mine(d) /\ Found(d) \subseteq Mine(d)
      BY <1>g, <1>t, <2>0, <3>1, StoreAssumption
      DEF OthersGood, Good, Found, Mine, Alone, TypeOK, Archive
    <3>3. CASE victims'[d] = {}
      BY <1>2, <3>2, <3>3
    <3>4. ASSUME NEW S, S \subseteq Found(d), pc'[d] = "delete",
                 victims'[d] = Expired(d, S)
          PROVE  Follows
      <4>1. S \subseteq Archive /\ Distinct(S) /\ Keep[d] \in Nat \ {0}
        BY <1>t, <3>4, StoreAssumption DEF Found, TypeOK, NumberedOnce, Distinct
      <4>2. ASSUME NEW v \in Expired(d, S)
            PROVE  Cardinality(Newer(v, Good(d)' \ victims'[d])) >= Keep[d]
        <5>1. Cardinality(Newer(v, S \ Expired(d, S))) >= Keep[d]
          BY <4>1, NewerThanExpired DEF Expired
        <5>2. Newer(v, S \ Expired(d, S)) \subseteq Newer(v, Good(d)' \ victims'[d])
          BY <3>2, <3>4 DEF Newer
        <5>3. IsFiniteSet(Newer(v, Good(d)' \ victims'[d]))
          <6>1. archives \subseteq Archive /\ Distinct(archives)
            BY <1>t DEF TypeOK, NumberedOnce
          <6>2. Newer(v, Good(d)' \ victims'[d]) \subseteq archives
            BY <2>0 DEF Newer, Good
          <6>3. QED  BY <6>1, <6>2, DistinctFinite, FS_Subset
        <5>4. /\ IsFiniteSet(Newer(v, S \ Expired(d, S)))
              /\ Cardinality(Newer(v, S \ Expired(d, S)))
                   <= Cardinality(Newer(v, Good(d)' \ victims'[d]))
          BY <5>2, <5>3, FS_Subset
        <5>5. /\ Cardinality(Newer(v, S \ Expired(d, S))) \in Nat
              /\ Cardinality(Newer(v, Good(d)' \ victims'[d])) \in Nat
          BY <5>3, <5>4, FS_CardinalityType
        <5>6. QED  BY <4>1, <5>1, <5>4, <5>5
      <4>3. EnoughNewer(d)'
        BY <3>4, <4>2 DEF EnoughNewer, Newer
      <4>4. QED  BY <3>2, <3>4, <4>3
    <3>5. CASE Goto(d, "idle") /\ UNCHANGED victims
      BY <3>1, <3>3, <3>5
    <3>6. CASE Goto(d, "delete")
               /\ \E S \in SUBSET Found(d) : victims' = [victims EXCEPT ![d] = Expired(d, S)]
      <4>1. PICK S \in SUBSET Found(d) : victims' = [victims EXCEPT ![d] = Expired(d, S)]
        BY <3>6
      <4>2. pc'[d] = "delete" /\ victims'[d] = Expired(d, S)
        BY <1>t, <3>6, <4>1 DEF Goto, TypeOK
      <4>3. QED  BY <3>4, <4>2
    <3>7. QED  BY <1>6, <2>2, <3>5, <3>6 DEF List
  <2>3. QED  BY <2>1, <2>2
<1>7. ASSUME NEW b \in Backups, Delete(b) PROVE Follows
  <2>1. PICK a \in victims[b] :
          \/ /\ archives' = archives \ {a}
             /\ victims' = [victims EXCEPT ![b] = @ \ {a}]
             /\ UNCHANGED pc
          \/ /\ Goto(b, "idle")
             /\ victims' = [victims EXCEPT ![b] = {}]
             /\ UNCHANGED archives
    BY <1>7 DEF Delete
  <2>2. pc[b] = "delete" /\ UNCHANGED <<last, own>>
    BY <1>7 DEF Delete
  <2>3. CASE b # d
    <3>1. a.backup # d
      BY <1>g, <1>t, <2>3 DEF VictimsMatch, Alone
    <3>2. Mine(d)' = Mine(d)
      BY <2>1, <3>1 DEF Mine
    <3>3. pc'[d] = pc[d] /\ victims'[d] = victims[d]
      BY <1>t, <2>1, <2>3 DEF Goto, TypeOK
    <3>4. QED  BY <1>1, <2>2, <3>2, <3>3
  <2>4. CASE b = d
    <3>1. OthersGood(d)'
      BY <1>f, <2>1, <2>2, <2>4 DEF OthersGood, Mine
    <3>2. CASE Goto(d, "idle") /\ victims' = [victims EXCEPT ![d] = {}]
      BY <1>2, <1>t, <3>1, <3>2 DEF TypeOK
    <3>3. CASE archives' = archives \ {a} /\ victims' = [victims EXCEPT ![d] = @ \ {a}]
               /\ UNCHANGED pc
      <4>1. victims'[d] = victims[d] \ {a} /\ pc'[d] = "delete"
        BY <1>t, <2>2, <2>4, <3>3 DEF TypeOK
      <4>2. Good(d)' \ victims'[d] = Good(d) \ victims[d]
        BY <2>4, <3>3, <4>1 DEF Good
      <4>3. EnoughNewer(d)'
        BY <1>f, <4>1, <4>2 DEF EnoughNewer, Newer
      <4>4. QED  BY <3>1, <4>1, <4>3
    <3>4. QED  BY <2>1, <2>4, <3>2, <3>3
  <2>5. QED  BY <2>3, <2>4
<1>8. ASSUME NEW b \in Backups, EndDelete(b) PROVE Follows
  <2>1. /\ UNCHANGED <<archives, own, victims>> /\ Mine(d)' = Mine(d)
        /\ victims[b] = {} /\ pc[b] = "delete" /\ pc' = [pc EXCEPT ![b] = "kept"]
    BY <1>8 DEF EndDelete, Goto, Mine
  <2>2. CASE b # d
    BY <1>1, <1>t, <2>1, <2>2 DEF TypeOK
  <2>3. CASE b = d
    BY <1>2, <1>f, <2>1, <2>3 DEF OthersGood
  <2>4. QED  BY <2>2, <2>3
<1>9. CASE Crash \/ \E b \in Backups : Panic(b)
  <2>1. Mine(d)' = Mine(d) /\ victims'[d] = {} /\ d \notin InVolume
    BY <1>9, <1>g DEF Crash, Panic, End, Mine, Fault, NoneTruncated
  <2>2. OthersGood(d)'
    BY <1>f, <2>1 DEF OthersGood
  <2>3. QED  BY <1>2, <2>1, <2>2
<1>10. CASE UNCHANGED vars
  BY <1>1, <1>10 DEF vars, Mine
<1>11. QED
  BY <1>3, <1>4, <1>5, <1>6, <1>7, <1>8, <1>9, <1>10 DEF Next, Attempt

\* A good archive that is not written again is deleted only for as many newer
\* good ones as the Backup is to keep, at whatever point of a row of deletions the step is, as the newest
\* victim is deleted first and those that remain are newer than every victim.
THEOREM PolicyIsFollowed == Spec => PolicyFollowed
<1> DEFINE PolicyInv == KeepInv /\ NumberedOnce /\ FollowInv
<1>1. Init => PolicyInv
  BY TypeInit
  DEF Init, KeepInv, Numbered, VictimsMatch, OursIsKept, NumberedOnce, Distinct,
      FollowInv, OthersGood, EnoughNewer, Mine
<1>2. PolicyInv /\ [Next]_vars => PolicyInv'
  BY KeepStep, NumberedOnceStep, FollowStep DEF KeepInv
<1>3. PolicyInv /\ [Next]_vars =>
        [\A b \in Backups : \A a \in Good(b) :
           Alone(b) /\ NoneTruncated(b) /\ a \notin archives' =>
             Overwrites(b) \/ Cardinality(Newer(a, Good(b))) >= Keep[b]]_vars
  <2> SUFFICES ASSUME PolicyInv, Next, NEW b \in Backups, NEW a \in Good(b),
                      Alone(b), NoneTruncated(b), a \notin archives',
                      ~Overwrites(b)
               PROVE  Cardinality(Newer(a, Good(b))) >= Keep[b]
    BY DEF vars
  <2>0. a \in archives /\ a.backup = b /\ a.good
    BY DEF Good
  <2>t. TypeOK /\ Numbered
    BY DEF KeepInv, TypeInv
  <2>p. ASSUME NEW c \in Backups, NEW name \in {0, own[c]}, NEW good \in BOOLEAN,
               Put(c, name, good)
        PROVE  FALSE
    <3>1. c = b /\ a.number = name /\ own'[b] # own[b]
      BY <2>0, <2>t, <2>p, PutKeeps
    <3>2. a.number \in 1..MaxArchives
      BY <2>0, <2>t DEF TypeOK, Archive
    <3>3. a.number = own[b]
      BY <2>p, <3>1, <3>2, StoreAssumption
    <3>4. QED  BY <2>0, <3>1, <3>3 DEF Overwrites
  <2>1. PICK c \in Backups : Begin(c) \/ Complete(c) \/ Fail(c) \/ Delete(c)
    BY <2>0 DEF Next, Attempt, List, Panic, EndDelete, Crash, End
  <2>2. CASE Begin(c) \/ Complete(c) \/ Fail(c)
    <3>1. a = ArchiveOf(c, own[c], FALSE)
      BY <2>0, <2>2, <2>p DEF Begin, Complete, Fail
    <3>2. QED  BY <2>0, <3>1 DEF ArchiveOf
  <2>3. CASE Delete(c)
    <3>1. a \in victims[c]
      BY <2>0, <2>3 DEF Delete
    <3>2. c = b
      BY <2>0, <3>1 DEF KeepInv, VictimsMatch, Alone
    <3>3. Cardinality(Newer(a, Good(b) \ victims[b])) >= Keep[b]
      BY <3>1, <3>2 DEF FollowInv, EnoughNewer
    <3>4. Newer(a, Good(b) \ victims[b]) \subseteq Newer(a, Good(b))
      BY DEF Newer
    <3>5. IsFiniteSet(Newer(a, Good(b)))
      <4>1. archives \subseteq Archive /\ Distinct(archives)
        BY DEF KeepInv, TypeInv, TypeOK, NumberedOnce
      <4>2. IsFiniteSet(archives) /\ Newer(a, Good(b)) \subseteq archives
        BY <4>1, DistinctFinite DEF Newer, Good
      <4>3. QED  BY <4>2, FS_Subset
    <3>6. /\ Cardinality(Newer(a, Good(b) \ victims[b])) <= Cardinality(Newer(a, Good(b)))
          /\ IsFiniteSet(Newer(a, Good(b) \ victims[b]))
      BY <3>4, <3>5, FS_Subset
    <3>7. /\ Cardinality(Newer(a, Good(b) \ victims[b])) \in Nat
          /\ Cardinality(Newer(a, Good(b))) \in Nat /\ Keep[b] \in Nat
      BY <3>5, <3>6, FS_CardinalityType, StoreAssumption
    <3>8. QED  BY <3>3, <3>6, <3>7
  <2>4. QED  BY <2>1, <2>2, <2>3
<1> HIDE DEF PolicyInv
<1>4. QED  BY <1>1, <1>2, <1>3, PTL DEF Spec, PolicyFollowed
=============================================================================
