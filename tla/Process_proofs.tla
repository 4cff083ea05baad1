--------------------------- MODULE Process_proofs ---------------------------
(* Proofs about what all goroutines of the process share: the dev mode and *)
(* the metrics of OperatorStart and of the Initializer and Metrics it is   *)
(* made of, http.DefaultTransport in ObjectStore, and the file of the      *)
(* encryption configurations in EncryptionConfig.  They hold for any       *)
(* number of goroutines, resources and attempts.                           *)
EXTENDS OperatorStart, ObjectStore, EncryptionConfig, FiniteSetTheorems, TLAPS

(***************************************************************************)
(* The Initializer.  Between Lock and Unlock a goroutine owns the one      *)
(* condition variable there is, so that no two are about to set the value; *)
(* and a call that waits is past its loop only once the value is set.      *)
(***************************************************************************)
Critical == {"check", "flag", "broadcast", "loop", "unlock"}

Owns(p) == cond # None /\ mine[p] = cond /\ lock[cond] = p

Holding ==
  \A p \in Procs :
    /\ at[p] \in {"out", "setup", "done"} => mine[p] = None
    /\ at[p] = "lock" => cond # None /\ mine[p] \in {None, cond}
    /\ at[p] = "parked" => cond # None /\ mine[p] = cond
    /\ at[p] \in Critical => Owns(p)

Setting ==
  \A p \in Procs :
    /\ at[p] \in {"check", "flag", "broadcast"} => arg[p] \in Values
    /\ at[p] = "flag" => ~initialized /\ value \in Values
    /\ at[p] \in {"unlock", "done"} /\ arg[p] = Unset => initialized
    /\ at[p] = "done" => arg[p] = Unset

HasValue == initialized => value \in Values

InitializerInv == TypeOK /\ Holding /\ Setting /\ HasValue

\* The initial state of the Initializer satisfies the invariant.
LEMMA InitializerInit == Init => InitializerInv
  BY InitializerAssumption
  DEF Init, InitializerInv, TypeOK, Holding, Setting, HasValue, Critical

\* Two goroutines do not own the condition variable at a time.
LEMMA OneOwner ==
  ASSUME Holding, NEW p \in Procs, NEW q \in Procs, at[p] \in Critical, at[q] \in Critical
  PROVE  p = q
  BY DEF Holding, Owns

\* Every step of the Initializer keeps the invariant.
LEMMA InitializerNext == InitializerInv /\ [Next]_initializer => InitializerInv'
<1> SUFFICES ASSUME InitializerInv, [Next]_initializer PROVE InitializerInv'
  OBVIOUS
<1> USE InitializerAssumption
<1> USE DEF InitializerInv, TypeOK, Goto
<1>1. CASE UNCHANGED initializer
  BY <1>1 DEF initializer, Holding, Setting, HasValue, Owns, Critical
<1>2. ASSUME NEW p \in Procs, NEW v \in Values \cup {Unset}, Call(p, v)
      PROVE InitializerInv'
  BY <1>2 DEF Call, Holding, Setting, HasValue, Owns, Critical
<1>3. ASSUME NEW p \in Procs, Setup(p) PROVE InitializerInv'
  <2>1. cond' \in Procs /\ (cond # None => cond' = cond)
    BY <1>3 DEF Setup, Made
  <2>2. QED
    BY <1>3, <2>1 DEF Setup, Holding, Setting, HasValue, Owns, Critical
<1>4. ASSUME NEW p \in Procs, Lock(p) PROVE InitializerInv'
  <2>1. /\ cond \in Procs
        /\ lock[cond] = None
        /\ lock' = [lock EXCEPT ![cond] = p]
        /\ mine' = [mine EXCEPT ![p] = cond]
    BY <1>4 DEF Lock, Holding
  <2>2. \A q \in Procs : at[q] \notin Critical
    BY <2>1 DEF Holding, Owns
  <2>3. /\ at' = [at EXCEPT ![p] = IF arg[p] = Unset THEN "loop" ELSE "check"]
        /\ UNCHANGED <<cond, initialized, value, arg, answer>>
    BY <1>4 DEF Lock
  <2>4. TypeOK'
    BY <2>1, <2>3
  <2>5. Holding'
    BY <2>1, <2>2, <2>3 DEF Holding, Owns, Critical
  <2>6. Setting' /\ HasValue'
    BY <2>3 DEF Setting, HasValue
  <2>7. QED
    BY <2>4, <2>5, <2>6
<1>5. ASSUME NEW p \in Procs, Check(p) PROVE InitializerInv'
  <2>1. arg[p] \in Values /\ at[p] \in Critical
    BY <1>5 DEF Check, Setting, Critical
  <2>2. \A q \in Procs : at[q] \in Critical => q = p
    BY <2>1, OneOwner
  <2>3. TypeOK' /\ Holding'
    BY <1>5, <2>1 DEF Check, Holding, Owns, Critical
  <2>4. Setting' /\ HasValue'
    BY <1>5, <2>1, <2>2 DEF Check, Keeps, Setting, HasValue, Critical
  <2>5. QED
    BY <2>3, <2>4
<1>6. ASSUME NEW p \in Procs, Flag(p) PROVE InitializerInv'
  <2>1. \A q \in Procs : at[q] \in Critical => q = p
    BY <1>6, OneOwner DEF Flag, Critical
  <2>2. TypeOK' /\ Holding'
    BY <1>6 DEF Flag, Holding, Owns, Critical
  <2>3. Setting' /\ HasValue'
    BY <1>6, <2>1 DEF Flag, Setting, HasValue, Critical
  <2>4. QED
    BY <2>2, <2>3
<1>7. ASSUME NEW p \in Procs, Broadcast(p) PROVE InitializerInv'
  <2>1. \A q \in Woken(mine[p]) : q # p /\ at[q] = "parked"
    BY <1>7 DEF Broadcast, Woken, Parked
  <2>2. TypeOK' /\ Holding'
    BY <1>7, <2>1 DEF Broadcast, Holding, Owns, Critical
  <2>3. arg[p] \in Values
    BY <1>7 DEF Broadcast, Setting
  <2>4. Setting' /\ HasValue'
    BY <1>7, <2>1, <2>3 DEF Broadcast, Setting, HasValue
  <2>5. QED
    BY <2>2, <2>4
<1>8. ASSUME NEW p \in Procs, Loop(p) PROVE InitializerInv'
  <2>1. Owns(p) /\ at[p] \in Critical
    BY <1>8 DEF Loop, Holding, Critical
  <2>2. \A q \in Procs : at[q] \in Critical => q = p
    BY <2>1, OneOwner
  <2>3. TypeOK' /\ Holding'
    BY <1>8, <2>1, <2>2 DEF Loop, Holding, Owns, Critical
  <2>4. Setting' /\ HasValue'
    BY <1>8 DEF Loop, Setting, HasValue
  <2>5. QED
    BY <2>3, <2>4
<1>9. ASSUME NEW p \in Procs, Unlock(p) PROVE InitializerInv'
  <2>1. Owns(p) /\ at[p] \in Critical
    BY <1>9 DEF Unlock, Holding, Critical
  <2>2. \A q \in Procs : at[q] \in Critical => q = p
    BY <2>1, OneOwner
  <2>3. TypeOK' /\ Holding'
    BY <1>9, <2>1, <2>2 DEF Unlock, Holding, Owns, Critical
  <2>4. Setting' /\ HasValue'
    BY <1>9 DEF Unlock, Setting, HasValue
  <2>5. QED
    BY <2>3, <2>4
<1>10. ASSUME NEW p \in Procs, Return(p) PROVE InitializerInv'
  BY <1>10 DEF Return, Holding, Setting, HasValue, Owns, Critical
<1>11. ASSUME NEW p \in Procs, GiveUp(p) PROVE InitializerInv'
  BY <1>11 DEF GiveUp, Holding, Setting, HasValue, Owns, Critical
<1>12. QED
  BY <1>1, <1>2, <1>3, <1>4, <1>5, <1>6, <1>7, <1>8, <1>9, <1>10, <1>11 DEF Next, Works

\* Whatever the process does, the Initializer takes a step of its own or none.
LEMMA StartStep == StartTypeOK /\ [StartNext]_vars => [Next]_initializer
<1> SUFFICES ASSUME StartTypeOK, [StartNext]_vars PROVE [Next]_initializer
  OBVIOUS
<1> USE StartAssumption
<1>1. CASE UNCHANGED vars
  BY <1>1 DEF vars
<1>2. ASSUME NEW b \in BOOLEAN, AskDevMode(b) PROVE [Next]_initializer
  BY <1>2 DEF AskDevMode, Next
<1>3. CASE MainStep
  <2>1. ASSUME NEW v \in Values, SetDevMode(v) PROVE [Next]_initializer
    BY <2>1 DEF SetDevMode, Next
  <2>2. CASE Validate
    BY <2>2, <1>2 DEF Validate, StartTypeOK, RunOptions
  <2>3. CASE MakeClients
    BY <2>3, <1>2 DEF MakeClients, StartTypeOK, RunOptions
  <2>4. CASE ValidateMetrics
    BY <2>4 DEF ValidateMetrics
  <2>5. CASE Storage
    BY <2>5 DEF Storage
  <2>6. CASE StartMetrics
    BY <2>6 DEF StartMetrics
  <2>7. CASE RegisterHandlers
    BY <2>7 DEF RegisterHandlers
  <2>8. CASE StartAll
    BY <2>8 DEF StartAll
  <2>9. QED
    BY <1>3, <2>1, <2>2, <2>3, <2>4, <2>5, <2>6, <2>7, <2>8 DEF MainStep
<1>4. CASE Others
  BY <1>4 DEF Others, Next
<1>5. CASE Initializing
  BY <1>5 DEF Initializing, Next
<1>6. CASE Measuring
  BY <1>6 DEF Measuring
<1>7. CASE ServerFails
  BY <1>7 DEF ServerFails
<1>8. QED
  BY <1>1, <1>3, <1>4, <1>5, <1>6, <1>7 DEF StartNext

(***************************************************************************)
(* Metrics.  While a collection is published, each CR that was listed is   *)
(* in a row or still an item, and never in two rows.                       *)
(***************************************************************************)
Published1 ==
  /\ IsFiniteSet(rows) /\ IsFiniteSet(items)
  /\ step # "publish" => items = {}
  /\ {r.cr : r \in rows} \cap items = {}
  /\ {r.cr : r \in rows} \cup items = There(listed)
  /\ Cardinality(rows) + Cardinality(items) = count
  /\ \A r \in rows : listed[r.cr] # NoCondition => r.message = listed[r.cr]

MetricsInv == MetricsTypeOK /\ Published1

\* Collections start with no rows.
LEMMA MetricsInitial == MetricsInit => MetricsInv
<1> SUFFICES ASSUME MetricsInit PROVE MetricsInv
  OBVIOUS
<1> USE MetricsAssumption DEF MetricsInit
<1>1. Cardinality(CRs) \in Nat /\ Cardinality({}) = 0 /\ IsFiniteSet({})
  BY FS_CardinalityType, FS_EmptySet
<1>2. MetricsTypeOK
  BY <1>1 DEF MetricsTypeOK, States
<1>3. There(listed) = {}
  BY DEF There
<1>4. QED
  BY <1>1, <1>2, <1>3 DEF MetricsInv, Published1

\* A listed state is the beginning of a collection: nothing is a row yet.
LEMMA UpdateInv ==
  ASSUME MetricsInv, NEW s \in [CRs -> States], Update(s), UNCHANGED crs,
         attempt' \in 0..Attempts
  PROVE  MetricsInv'
<1> USE MetricsAssumption
<1>1. /\ There(s) \subseteq CRs /\ IsFiniteSet(There(s))
      /\ Cardinality(There(s)) \in 0..Cardinality(CRs)
  <2>1. There(s) \subseteq CRs
    BY DEF There
  <2>2. QED
    BY <2>1, FS_Subset, FS_CardinalityType
<1>2. Cardinality({}) = 0 /\ IsFiniteSet({})
  BY FS_EmptySet
<1>3. rows' = {} /\ items' = There(s) /\ listed' = s /\ step' = "publish"
  BY DEF Update, Reset
<1>4. count' = Cardinality(There(s))
  BY DEF Update
<1>5. MetricsTypeOK'
  BY <1>1, <1>3, <1>4 DEF MetricsInv, MetricsTypeOK, Update
<1>6. There(listed') = There(s)
  BY <1>3
<1>7. Published1'
  BY <1>1, <1>2, <1>3, <1>4, <1>6 DEF Published1, There
<1>8. QED
  BY <1>5, <1>7 DEF MetricsInv

\* Publishing one CR moves it from the items to the rows.
LEMMA PublishInv ==
  ASSUME MetricsInv, NEW c \in CRs, Publish(c)
  PROVE  MetricsInv'
<1> DEFINE row == [cr |-> c, message |-> Message(c)]
<1> USE MetricsAssumption DEF MetricsInv
<1>1. Message(c) \in Messages \cup {NoCondition}
  <2>1. listed[c] # Gone
    BY DEF Publish, Published1, There
  <2>2. QED
    BY <2>1 DEF Message, MetricsTypeOK, States
<1>2. /\ rows' = rows \cup {row} /\ items' = items \ {c}
      /\ c \in items /\ step' = "publish"
      /\ UNCHANGED <<crs, attempt, count, listed>>
      /\ carried' = Message(c)
  BY DEF Publish
<1>3. row \notin rows
  BY <1>2 DEF Published1
<1>4. /\ IsFiniteSet(rows') /\ Cardinality(rows') = Cardinality(rows) + 1
      /\ IsFiniteSet(items') /\ Cardinality(items') = Cardinality(items) - 1
      /\ Cardinality(rows) \in Nat /\ Cardinality(items) \in Nat
  BY <1>2, <1>3, FS_AddElement, FS_RemoveElement, FS_CardinalityType DEF Published1
<1>5. MetricsTypeOK'
  BY <1>1, <1>2 DEF MetricsTypeOK, Row
<1>6. {r.cr : r \in rows'} = {r.cr : r \in rows} \cup {c}
  <2>1. row.cr = c
    OBVIOUS
  <2> HIDE DEF row
  <2>2. QED
    BY <1>2, <2>1
<1>7. Cardinality(rows') + Cardinality(items') = count'
  BY <1>2, <1>4 DEF Published1
<1>8. \A r \in rows' : listed'[r.cr] # NoCondition => r.message = listed'[r.cr]
  BY <1>2 DEF Published1, Message
<1>9. There(listed') = There(listed)
  BY <1>2
<1>10. Published1'
  BY <1>2, <1>4, <1>6, <1>7, <1>8, <1>9 DEF Published1, There
<1>11. QED
  BY <1>5, <1>10

\* Every step of the metrics keeps their invariant.
LEMMA MetricsNext ==
  ASSUME MetricsInv,
         \/ UNCHANGED metrics
         \/ step = "off" /\ StartLoop
         \/ Collect
         \/ \E c \in CRs, s \in States : Changes(c, s)
  PROVE  MetricsInv'
<1> USE MetricsAssumption
<1>1. CASE UNCHANGED metrics
  BY <1>1 DEF metrics, MetricsInv, MetricsTypeOK, Published1, There
<1>2. CASE step = "off" /\ StartLoop
  BY <1>2 DEF StartLoop, MetricsInv, MetricsTypeOK, Published1, There
<1>3. ASSUME NEW c \in CRs, NEW s \in States, Changes(c, s) PROVE MetricsInv'
  BY <1>3 DEF Changes, MetricsInv, MetricsTypeOK, Published1, There
<1>4. CASE Tick
  BY <1>4 DEF Tick, MetricsInv, MetricsTypeOK, Published1, There
<1>5. CASE List
  <2>1. attempt \in Nat
    BY DEF MetricsInv, MetricsTypeOK
  <2>2. ASSUME Update(crs), attempt' \in 0..Attempts, UNCHANGED crs PROVE MetricsInv'
    BY <2>2, UpdateInv DEF MetricsInv, MetricsTypeOK
  <2>3. ASSUME Update([c \in CRs |-> Gone]), attempt' \in 0..Attempts, UNCHANGED crs
        PROVE MetricsInv'
    BY <2>3, UpdateInv DEF States
  <2>4. CASE /\ attempt + 1 < Attempts
             /\ attempt' = attempt + 1
             /\ UNCHANGED <<crs, step, items, carried, count, rows, listed>>
    BY <2>1, <2>4 DEF MetricsInv, MetricsTypeOK, Published1, There
  <2>5. attempt' = attempt => attempt' \in 0..Attempts
    BY DEF MetricsInv, MetricsTypeOK
  <2>6. attempt' = Attempts => attempt' \in 0..Attempts
    OBVIOUS
  <2>7. QED
    BY <1>5, <2>2, <2>3, <2>4, <2>5, <2>6 DEF List
<1>6. CASE Published
  BY <1>6 DEF Published, MetricsInv, MetricsTypeOK, Published1, There
<1>7. QED
  BY <1>1, <1>2, <1>3, <1>4, <1>5, <1>6, PublishInv DEF Collect

(***************************************************************************)
(* The start.  At most one default location is found.                      *)
(***************************************************************************)
OneDefault ==
  /\ stage \in {"dev", "validate", "ports", "setup", "storage"} => mount = Nowhere /\ s3 = Nowhere
  /\ mount = Nowhere \/ s3 = Nowhere

NotStarted ==
  stage \in {"dev", "validate", "ports", "setup", "storage", "metrics"} => step = "off"

StartInv == StartTypeOK /\ InitializerInv /\ MetricsInv /\ OneDefault /\ NotStarted

\* The process starts in a state of the invariant.
LEMMA StartInitial == StartInit => StartInv
<1> SUFFICES ASSUME StartInit PROVE StartInv
  OBVIOUS
<1>1. InitializerInv
  BY InitializerInit DEF StartInit
<1>2. MetricsInv
  BY MetricsInitial DEF StartInit
<1>3. StartTypeOK /\ OneDefault
  BY <1>1, <1>2 DEF StartInit, StartTypeOK, OneDefault, InitializerInv, MetricsInv
<1>4. NotStarted
  BY DEF StartInit, MetricsInit, NotStarted
<1>5. QED
  BY <1>1, <1>2, <1>3, <1>4 DEF StartInv

\* What main does keeps the options, and the stages come in their order.
LEMMA MainKeeps ==
  ASSUME StartInv, MainStep
  PROVE  /\ stage' \in {"dev", "validate", "ports", "setup", "storage", "metrics",
                        "register", "start", "running", "exited"}
         /\ options' \in RunOptions
         /\ mount' \in {Nowhere, "local", "volume"}
         /\ s3' \in {Nowhere, "bucket"}
         /\ OneDefault'
         /\ UNCHANGED metrics \/ (step = "off" /\ StartLoop)
         /\ stage' \in {"dev", "validate", "ports", "setup", "storage", "metrics"} => UNCHANGED metrics
<1> USE DEF StartInv, StartTypeOK, OneDefault, Then, Main
<1>1. ASSUME NEW v \in Values, SetDevMode(v)
      PROVE  stage = "dev" /\ stage' = "validate" /\ UNCHANGED <<metrics, options, mount, s3>>
  BY <1>1 DEF SetDevMode
<1>2. CASE Validate
  BY <1>2 DEF Validate, metrics
<1>3. CASE MakeClients
  BY <1>3 DEF MakeClients, Fault, metrics
<1>4. CASE Storage
  <2>1. /\ mount' \in {Nowhere, "local", "volume"}
        /\ s3' \in {Nowhere, "bucket"}
        /\ mount' = Nowhere \/ s3' = Nowhere
        /\ stage' \in {"metrics", "exited"}
    BY <1>4 DEF Storage, UsesS3, LocalDriver, Fault
  <2>2. UNCHANGED <<metrics, options>>
    BY <1>4 DEF Storage
  <2>3. QED
    BY <2>1, <2>2
<1>5. CASE StartMetrics
  BY <1>5 DEF StartMetrics, NotStarted, metrics
<1>6. CASE RegisterHandlers
  BY <1>6 DEF RegisterHandlers, Fault
<1>7. CASE StartAll
  BY <1>7 DEF StartAll, Fault
<1>8. CASE ValidateMetrics
  BY <1>8 DEF ValidateMetrics, metrics
<1>9. QED
  BY <1>1, <1>2, <1>3, <1>4, <1>5, <1>6, <1>7, <1>8 DEF MainStep

\* Every step of the process keeps the invariant.
LEMMA StartNextInv == StartInv /\ [StartNext]_vars => StartInv'
<1> SUFFICES ASSUME StartInv, [StartNext]_vars PROVE StartInv'
  OBVIOUS
<1>1. InitializerInv'
  BY StartStep, InitializerNext DEF StartInv
<1>2. CASE UNCHANGED vars
  <2>1. UNCHANGED metrics /\ UNCHANGED <<stage, options, mount, s3>>
    BY <1>2 DEF vars
  <2>2. MetricsInv'
    BY <2>1, MetricsNext DEF StartInv
  <2>3. QED
    BY <1>1, <2>1, <2>2
    DEF StartInv, StartTypeOK, InitializerInv, MetricsInv, OneDefault, NotStarted, metrics
<1>3. CASE MainStep
  <2>1. MetricsInv'
    <3>1. CASE UNCHANGED metrics
      BY <3>1 DEF StartInv, metrics, MetricsInv, MetricsTypeOK, Published1, There
    <3>2. CASE step = "off" /\ StartLoop
      BY <3>2, MetricsNext DEF StartInv
    <3>3. QED
      BY <1>3, <3>1, <3>2, MainKeeps
  <2>2. StartTypeOK' /\ OneDefault'
    BY <1>1, <1>3, <2>1, MainKeeps DEF StartTypeOK, InitializerInv, MetricsInv
  <2>3. NotStarted'
    <3>1. SUFFICES ASSUME stage' \in {"dev", "validate", "ports", "setup", "storage", "metrics"}
                   PROVE  step' = "off"
      BY DEF NotStarted
    <3>2. UNCHANGED metrics
      BY <1>3, <3>1, MainKeeps
    <3>3. stage \in {"dev", "validate", "ports", "setup", "storage", "metrics"}
      BY <1>3, <3>1 DEF MainStep, SetDevMode, Validate, ValidateMetrics, MakeClients,
                        Storage, StartMetrics, RegisterHandlers, StartAll, Then, Main, Fault
    <3>4. QED
      BY <3>2, <3>3 DEF StartInv, NotStarted, metrics
  <2>4. QED
    BY <1>1, <2>1, <2>2, <2>3 DEF StartInv
<1>4. CASE Others \/ Initializing
  <2>1. UNCHANGED metrics /\ UNCHANGED <<stage, options, mount, s3>>
    BY <1>4 DEF Others, Initializing
  <2>2. QED
    BY <1>1, <2>1 DEF StartInv, StartTypeOK, InitializerInv, MetricsInv, MetricsTypeOK,
                      Published1, There, OneDefault, NotStarted, metrics
<1>5. CASE Measuring
  <2>1. /\ step # "off" /\ UNCHANGED <<stage, options, mount, s3>>
        /\ Collect \/ \E c \in CRs, s \in States : Changes(c, s)
    BY <1>5 DEF Measuring
  <2>2. MetricsInv'
    BY <2>1, MetricsNext DEF StartInv
  <2>3. QED
    BY <1>1, <2>1, <2>2
    DEF StartInv, StartTypeOK, InitializerInv, MetricsInv, OneDefault, NotStarted
<1>6. CASE ServerFails
  <2>1. stage' = "exited" /\ UNCHANGED <<initializer, metrics, options, mount, s3>>
    BY <1>6 DEF ServerFails, Fault, Then
  <2>2. QED
    BY <1>1, <2>1 DEF StartInv, StartTypeOK, InitializerInv, MetricsInv, MetricsTypeOK,
                      Published1, There, OneDefault, NotStarted, metrics
<1>7. QED
  BY <1>2, <1>3, <1>4, <1>5, <1>6 DEF StartNext

\* The strengthening of all the invariants below.
LEMMA StartInvariant == StartSpec => []StartInv
  BY StartInitial, StartNextInv, PTL DEF StartSpec

\* All variables of the process keep their types.
THEOREM StartTypeCorrect == StartSpec => []StartTypeOK
  BY StartInvariant, PTL DEF StartInv

\* A Backup without a storage location stores where a Restore without one
\* looks, whatever the options and whoever sets the dev mode.
THEOREM DefaultsAreOne == StartSpec => []DefaultsAgree
<1>1. StartInv => DefaultsAgree
  BY DEF StartInv, OneDefault, DefaultsAgree, StoresAt, LooksAt
<1>2. QED
  BY <1>1, StartInvariant, PTL

\* Rows, count and messages belong to what was listed, for any number of
\* custom resources, which come and go at any time.
THEOREM RowsAreListed == StartSpec => []RowsOfListed
<1>1. StartInv => RowsOfListed
  <2> SUFFICES ASSUME StartInv, step = "idle" PROVE RowsOfListed
    BY DEF RowsOfListed
  <2>1. items = {} /\ Cardinality({}) = 0
    BY FS_EmptySet DEF StartInv, MetricsInv, Published1
  <2>2. Cardinality(rows) \in Nat
    BY FS_CardinalityType DEF StartInv, MetricsInv, Published1
  <2>3. count = Cardinality(rows)
    BY <2>1, <2>2 DEF StartInv, MetricsInv, Published1
  <2>4. {r.cr : r \in rows} = There(listed)
    BY <2>1 DEF StartInv, MetricsInv, Published1
  <2>5. QED
    BY <2>3, <2>4 DEF RowsOfListed, StartInv, MetricsInv, Published1
<1>2. QED
  BY <1>1, StartInvariant, PTL

(***************************************************************************)
(* The refinement: the value becomes that of the register with the flag.   *)
(***************************************************************************)
Shown == IF initialized THEN value ELSE Unset

\* Every step of the Initializer is one of the register, or none that shows.
LEMMA RegisterStep ==
  ASSUME InitializerInv, [Next]_initializer
  PROVE  Register!Next \/ UNCHANGED <<Shown, answer>>
<1> USE InitializerAssumption DEF Shown
<1>1. CASE UNCHANGED initializer
  BY <1>1 DEF initializer
<1>2. ASSUME NEW p \in Procs, NEW v \in Values \cup {Unset}, Call(p, v)
      PROVE  Register!Begin(p)
  BY <1>2 DEF Call, Register!Begin
<1>3. ASSUME NEW p \in Procs, Setup(p) \/ Lock(p) \/ Broadcast(p) \/ Loop(p) \/ Unlock(p)
      PROVE  UNCHANGED <<Shown, answer>>
  BY <1>3 DEF Setup, Lock, Broadcast, Loop, Unlock
<1>4. ASSUME NEW p \in Procs, Check(p) PROVE UNCHANGED <<Shown, answer>>
  BY <1>4 DEF Check, Keeps
<1>5. ASSUME NEW p \in Procs, Flag(p) PROVE Register!Set(value)
  BY <1>5 DEF Flag, Register!Set, InitializerInv, Setting
<1>6. ASSUME NEW p \in Procs, Flag(p) PROVE value \in Values
  BY <1>6 DEF Flag, InitializerInv, Setting
<1>7. ASSUME NEW p \in Procs, Return(p)
      PROVE  Register!Read(p) \/ UNCHANGED <<Shown, answer>>
  <2>1. initialized /\ value \in Values
    BY <1>7 DEF Return, InitializerInv, Setting, HasValue
  <2>2. QED
    BY <1>7, <2>1 DEF Return, Register!Read, InitializerInv, TypeOK
<1>8. ASSUME NEW p \in Procs, GiveUp(p) PROVE Register!GiveUp(p)
  BY <1>8 DEF GiveUp, Register!GiveUp
<1>9. QED
  BY <1>1, <1>2, <1>3, <1>4, <1>5, <1>6, <1>7, <1>8 DEF Next, Works, Register!Next

\* The Initializer of the process implements a value that is set once, for any
\* number of goroutines that set it, wait for it or give up.
THEOREM RegisterImplemented == StartSpec => ImplementsRegister
<1>1. StartInit => Register!Init
  BY DEF StartInit, Init, Register!Init
<1>2. StartInv /\ [StartNext]_vars => [Register!Next]_<<Shown, answer>>
  <2> SUFFICES ASSUME StartInv, [StartNext]_vars PROVE Register!Next \/ UNCHANGED <<Shown, answer>>
    OBVIOUS
  <2>1. [Next]_initializer
    BY StartStep DEF StartInv
  <2>2. QED
    BY <2>1, RegisterStep DEF StartInv
<1>3. QED
  BY <1>1, <1>2, StartInvariant, PTL DEF StartSpec, ImplementsRegister, Register!Spec, Shown

-----------------------------------------------------------------------------
(* ObjectStore                                                             *)

\* The keys that are written and sought are keys, and in a plain folder the
\* same.
LEMMA StoreKeys ==
  ASSUME NEW f \in FolderForm
  PROVE  /\ KeyPut(f) \in FolderForm
         /\ PlainFolder(f) => KeySought(f) = KeyPut(f)
<1>1. f = [lead |-> f.lead, dir |-> f.dir, trail |-> f.trail]
      /\ f.lead \in Nat /\ f.dir \in BOOLEAN /\ f.trail \in Nat
  BY DEF FolderForm
<1>2. KeyPut(f) \in FolderForm
  BY <1>1 DEF KeyPut, FolderForm
<1>3. ASSUME PlainFolder(f) PROVE KeySought(f) = KeyPut(f)
  <2>1. CASE f.dir
    <3>1. f.lead = 0 /\ f.trail \in {0, 1}
      BY <1>1, <1>3, <2>1 DEF PlainFolder
    <3>2. Less(f.trail) + 1 = 1
      BY <3>1 DEF Less
    <3>3. KeySought(f) = [f EXCEPT !.trail = 1]
      BY <2>1, <3>2 DEF KeySought
    <3>4. [f EXCEPT !.trail = 1] = [lead |-> f.lead, dir |-> f.dir, trail |-> 1]
      BY <1>1
    <3>5. KeyPut(f) = [lead |-> 0, dir |-> f.dir, trail |-> 1]
      BY <2>1 DEF KeyPut
    <3> QED BY <3>1, <3>3, <3>4, <3>5
  <2>2. CASE ~f.dir
    <3>1. f.lead = 0 /\ f.trail = 0
      BY <1>3, <2>2 DEF PlainFolder
    <3> QED BY <1>1, <2>2, <3>1 DEF KeySought, KeyPut
  <2> QED BY <2>1, <2>2
<1> QED BY <1>2, <1>3

LEMMA StoreTypes ==
  ASSUME StoreTypeOK, NEW h \in Handlers
  PROVE  /\ StoreOf[h] \in Stores /\ NameOf[h] \in Names
         /\ Folder[StoreOf[h]] \in FolderForm /\ Archive(h) \in Objects
<1>1. /\ StoreOf[h] \in Stores /\ NameOf[h] \in Names
      /\ Folder[StoreOf[h]] \in FolderForm
  BY StoreAssumption
<1> QED BY <1>1, StoreKeys DEF Archive, At, Objects

LEMMA StoreInitial == ASSUME StoreInit PROVE StoreTypeOK
<1>1. stored \subseteq Objects /\ endpoint \subseteq Stores
  BY StoreAssumption DEF StoreInit
<1>2. tries \in [Handlers -> 0..Retries]
  BY StoreAssumption DEF StoreInit
<1> QED BY <1>1, <1>2 DEF StoreInit, StoreTypeOK, SettingKinds

LEMMA StoreStep ==
  ASSUME StoreTypeOK, [StoreNext]_transfers
  PROVE  StoreTypeOK'
<1> USE DEF StoreTypeOK
<1>1. CASE UNCHANGED transfers
  BY <1>1 DEF transfers
<1>2. ASSUME NEW o \in stored, Delete(o) PROVE StoreTypeOK'
  BY <1>2 DEF Delete, Handlers
<1> SUFFICES ASSUME NEW h \in Handlers, Transfer(h) PROVE StoreTypeOK'
  BY <1>1, <1>2 DEF StoreNext
<1>3. AfterFailure(h) \in {"cleanup", "idle"}
  BY DEF AfterFailure
<1>4. Retries \in Nat /\ StoreOf[h] \in Stores /\ Archive(h) \in Objects
  BY StoreAssumption, StoreTypes
<1>5. ASSUME Fail(h)
      PROVE  /\ pc' \in [Handlers -> {"idle", "archive", "secret", "client", "bucket",
                                     "put", "list", "copy", "cleanup", "load"}]
             /\ result' \in [Handlers -> {"none", "failed", "left", "done"}]
  BY <1>3, <1>5 DEF Fail, Proceed, Ends
<1>6. ASSUME Again(h, Fail(h)) \/ PutFails(h)
      PROVE  /\ pc' \in [Handlers -> {"idle", "archive", "secret", "client", "bucket",
                                     "put", "list", "copy", "cleanup", "load"}]
             /\ result' \in [Handlers -> {"none", "failed", "left", "done"}]
             /\ tries' \in [Handlers -> 0..Retries]
  BY <1>4, <1>5, <1>6 DEF Again, PutFails, Exhausted
<1>7. ASSUME Begin(h) PROVE StoreTypeOK'
  <2>1. /\ tries' \in [Handlers -> 0..Retries]
        /\ setting' \in [Handlers -> SettingKinds]
    <3>1. tries' = [tries EXCEPT ![h] = 0] /\ setting' = [setting EXCEPT ![h] = "iam"]
      BY <1>7 DEF Begin
    <3>2. 0 \in 0..Retries
      BY <1>4
    <3>3. "iam" \in SettingKinds
      BY DEF SettingKinds
    <3> QED BY <3>1, <3>2, <3>3
  <2>2. \A set \in {mixed', faulted', kept', missed'} : set \subseteq Handlers
    BY <1>7 DEF Begin
  <2> QED BY <1>7, <2>1, <2>2 DEF Begin, Proceed, Ends
<1>8. ASSUME GetSecret(h) PROVE StoreTypeOK'
  <2>1. Settings[StoreOf[h]] \subseteq SettingKinds
    BY <1>4, StoreAssumption
  <2> QED BY <1>5, <1>8, <2>1 DEF GetSecret, Proceed, TransferFault
<1>9. ASSUME MakeClient(h) PROVE StoreTypeOK'
  <2>1. endpoint' \subseteq Stores
    BY <1>4, <1>9 DEF MakeClient
  <2>2. CASE setting[h] = "bad ca"
    BY <1>5, <1>9, <2>1, <2>2 DEF MakeClient
  <2>3. CASE setting[h] # "bad ca"
    <3>1. tls' \in Stores /\ mixed' \subseteq Handlers
      BY <1>4, <1>9, <2>3 DEF MakeClient, TLS
    <3>2. /\ pc' \in [Handlers -> {"idle", "archive", "secret", "client", "bucket",
                                  "put", "list", "copy", "cleanup", "load"}]
          /\ result' \in [Handlers -> {"none", "failed", "left", "done"}]
          /\ tries' \in [Handlers -> 0..Retries]
      <4>1. CASE Again(h, Fail(h))
        BY <1>6, <4>1
      <4>2. CASE Proceed(h, "bucket") /\ tries' = [tries EXCEPT ![h] = 0] /\ UNCHANGED result
        BY <1>4, <4>2 DEF Proceed
      <4> QED BY <1>9, <2>3, <4>1, <4>2 DEF MakeClient
    <3> QED BY <1>9, <2>1, <3>1, <3>2 DEF MakeClient
  <2> QED BY <2>2, <2>3
<1>10. ASSUME FindBucket(h) PROVE StoreTypeOK'
  BY <1>5, <1>10 DEF FindBucket, Proceed, TransferFault
<1>11. ASSUME MakeArchive(h) PROVE StoreTypeOK'
  BY <1>5, <1>11 DEF MakeArchive, Proceed, TransferFault
<1>12. ASSUME Put(h) PROVE StoreTypeOK'
  BY <1>4, <1>6, <1>12 DEF Put, Stored, Proceed, TransferFault
<1>13. ASSUME Cleanup(h) PROVE StoreTypeOK'
  BY <1>13 DEF Cleanup, Proceed, Ends, TransferFault
<1>14. ASSUME ListObjects(h) PROVE StoreTypeOK'
  <2>1. disk' \in [Handlers -> {"nothing", "partial", "whole", "other"}]
    BY <1>14 DEF ListObjects
  <2> QED BY <1>5, <1>14, <2>1 DEF ListObjects, Proceed, TransferFault
<1>15. ASSUME Copy(h) PROVE StoreTypeOK'
  <2>1. disk' \in [Handlers -> {"nothing", "partial", "whole", "other"}]
    BY <1>15 DEF Copy
  <2> QED BY <1>5, <1>15, <2>1 DEF Copy, CutShort, Proceed, TransferFault
<1>16. ASSUME LoadAndRemove(h) PROVE StoreTypeOK'
  BY <1>16 DEF LoadAndRemove, Proceed, Ends, TransferFault
<1> QED
  BY <1>7, <1>8, <1>9, <1>10, <1>11, <1>12, <1>13, <1>14, <1>15, <1>16 DEF Transfer

\* All variables keep their types.
THEOREM StoreTypeCorrect == StoreSpec => []StoreTypeOK
<1>1. StoreInit => StoreTypeOK
  BY StoreInitial
<1>2. StoreTypeOK /\ [StoreNext]_transfers => StoreTypeOK'
  BY StoreStep
<1> QED BY <1>1, <1>2, PTL DEF StoreSpec

\* A step of one transfer leaves the others where they are.
LEMMA Elsewhere ==
  ASSUME StoreTypeOK, NEW h \in Handlers, Transfer(h), NEW g \in Handlers \ {h}
  PROVE  /\ pc'[g] = pc[g] /\ result'[g] = result[g] /\ disk'[g] = disk[g]
         /\ setting'[g] = setting[g]
         /\ (g \in faulted <=> g \in faulted') /\ (g \in kept <=> g \in kept')
         /\ (g \in missed <=> g \in missed')
<1> USE DEF StoreTypeOK, Proceed, Ends, Fail, TransferFault, Again
<1>1. CASE Begin(h)
  BY <1>1 DEF Begin
<1>2. CASE GetSecret(h) \/ MakeClient(h) \/ FindBucket(h)
  BY <1>2 DEF GetSecret, MakeClient, FindBucket
<1>3. CASE MakeArchive(h) \/ Put(h) \/ Cleanup(h)
  BY <1>3 DEF MakeArchive, Put, Stored, PutFails, Exhausted, Cleanup
<1>4. CASE ListObjects(h)
  BY <1>4 DEF ListObjects
<1>5. CASE Copy(h) \/ LoadAndRemove(h)
  BY <1>5 DEF Copy, CutShort, LoadAndRemove
<1> QED BY <1>1, <1>2, <1>3, <1>4, <1>5 DEF Transfer

\* An upload that is done, or is cleaned up after no failure, has stored its
\* archive.
UploadInv ==
  \A h \in Uploaders :
    /\ pc[h] \notin {"idle", "cleanup"} => result[h] = "none"
    /\ pc[h] = "cleanup" /\ result[h] # "failed" => h \in kept
    /\ result[h] = "done" => h \in kept

LEMMA UploadStep ==
  ASSUME StoreTypeOK, UploadInv, [StoreNext]_transfers
  PROVE  UploadInv'
<1>1. CASE UNCHANGED transfers
  BY <1>1 DEF transfers, UploadInv
<1>2. ASSUME NEW o \in stored, Delete(o) PROVE UploadInv'
  BY <1>2 DEF Delete, UploadInv
<1>3. ASSUME NEW h \in Handlers, Transfer(h), NEW g \in Uploaders, g # h
      PROVE  /\ pc'[g] \notin {"idle", "cleanup"} => result'[g] = "none"
             /\ pc'[g] = "cleanup" /\ result'[g] # "failed" => g \in kept'
             /\ result'[g] = "done" => g \in kept'
  BY <1>3, Elsewhere DEF UploadInv, Handlers
<1>4. ASSUME NEW h \in Uploaders, Transfer(h)
      PROVE  /\ pc'[h] \notin {"idle", "cleanup"} => result'[h] = "none"
             /\ pc'[h] = "cleanup" /\ result'[h] # "failed" => h \in kept'
             /\ result'[h] = "done" => h \in kept'
  <2> USE DEF StoreTypeOK, UploadInv, Proceed, Ends, Fail, AfterFailure, Handlers
  <2>1. h \in Handlers /\ h \notin Downloaders
    BY StoreAssumption
  <2>2. CASE Begin(h)
    BY <2>1, <2>2 DEF Begin
  <2>3. CASE GetSecret(h)
    BY <2>1, <2>3 DEF GetSecret
  <2>4. CASE MakeClient(h)
    BY <2>1, <2>4 DEF MakeClient, Again
  <2>5. CASE FindBucket(h)
    BY <2>1, <2>5 DEF FindBucket
  <2>6. CASE MakeArchive(h)
    BY <2>1, <2>6 DEF MakeArchive
  <2>7. CASE Put(h)
    BY <2>1, <2>7 DEF Put, Stored, PutFails, Exhausted, Again
  <2>8. CASE Cleanup(h)
    BY <2>1, <2>8 DEF Cleanup
  <2> QED BY <1>4, <2>1, <2>2, <2>3, <2>4, <2>5, <2>6, <2>7, <2>8 DEF Transfer
<1>5. ASSUME NEW h \in Handlers, Transfer(h), NEW g \in Uploaders
      PROVE  /\ pc'[g] \notin {"idle", "cleanup"} => result'[g] = "none"
             /\ pc'[g] = "cleanup" /\ result'[g] # "failed" => g \in kept'
             /\ result'[g] = "done" => g \in kept'
  BY <1>3, <1>4, <1>5
<1> QED BY <1>1, <1>2, <1>5 DEF StoreNext, UploadInv

\* An upload that ends well has stored its archive.
THEOREM DoneIsStored == StoreSpec => []UploadedIsStored
<1>1. StoreInit => StoreTypeOK /\ UploadInv
  BY StoreInitial DEF StoreInit, UploadInv, Handlers
<1>2. StoreTypeOK /\ UploadInv /\ [StoreNext]_transfers => StoreTypeOK' /\ UploadInv'
  BY StoreStep, UploadStep
<1>3. UploadInv => UploadedIsStored
  BY DEF UploadInv, UploadedIsStored
<1> QED BY <1>1, <1>2, <1>3, PTL DEF StoreSpec

\* A download copies the object it names, and loads all of it.
DownloadInv ==
  \A h \in Downloaders :
    /\ pc[h] = "copy" => disk[h] = "partial"
    /\ pc[h] = "load" => disk[h] = "whole"

LEMMA DownloadStep ==
  ASSUME StoreTypeOK, DownloadInv, [StoreNext]_transfers
  PROVE  DownloadInv'
<1>1. CASE UNCHANGED transfers
  BY <1>1 DEF transfers, DownloadInv
<1>2. ASSUME NEW o \in stored, Delete(o) PROVE DownloadInv'
  BY <1>2 DEF Delete, DownloadInv
<1>3. ASSUME NEW h \in Handlers, Transfer(h), NEW g \in Downloaders, g # h
      PROVE  /\ pc'[g] = "copy" => disk'[g] = "partial"
             /\ pc'[g] = "load" => disk'[g] = "whole"
  BY <1>3, Elsewhere DEF DownloadInv, Handlers
<1>4. ASSUME NEW h \in Downloaders, Transfer(h)
      PROVE  /\ pc'[h] = "copy" => disk'[h] = "partial"
             /\ pc'[h] = "load" => disk'[h] = "whole"
  <2> USE DEF StoreTypeOK, DownloadInv, Proceed, Fail, AfterFailure, Handlers
  <2>1. h \in Handlers /\ h \notin Uploaders
    BY StoreAssumption
  <2>2. CASE Begin(h) \/ GetSecret(h) \/ FindBucket(h) \/ LoadAndRemove(h)
    BY <2>1, <2>2 DEF Begin, GetSecret, FindBucket, LoadAndRemove
  <2>3. CASE MakeClient(h)
    BY <2>1, <2>3 DEF MakeClient, Again
  <2>4. CASE ListObjects(h)
    <3>1. pc'[h] \in {"idle", "copy"} /\ (pc'[h] = "copy" => disk'[h] = "partial")
      BY <2>1, <2>4 DEF ListObjects, Chosen
    <3> QED BY <3>1
  <2>5. CASE Copy(h)
    BY <2>1, <2>5 DEF Copy, CutShort
  <2> QED BY <1>4, <2>1, <2>2, <2>3, <2>4, <2>5 DEF Transfer
<1>5. ASSUME NEW h \in Handlers, Transfer(h), NEW g \in Downloaders
      PROVE  /\ pc'[g] = "copy" => disk'[g] = "partial"
             /\ pc'[g] = "load" => disk'[g] = "whole"
  BY <1>3, <1>4, <1>5
<1> QED BY <1>1, <1>2, <1>5 DEF StoreNext, DownloadInv

\* What a restore loads is the whole of the archive it names.
THEOREM LoadedIsWhole == StoreSpec => []LoadsWhole
<1>1. StoreInit => StoreTypeOK /\ DownloadInv
  BY StoreInitial DEF StoreInit, DownloadInv, Handlers
<1>2. StoreTypeOK /\ DownloadInv /\ [StoreNext]_transfers => StoreTypeOK' /\ DownloadInv'
  BY StoreStep, DownloadStep
<1>3. DownloadInv => LoadsWhole
  BY DEF DownloadInv, LoadsWhole
<1> QED BY <1>1, <1>2, <1>3, PTL DEF StoreSpec

\* A transfer nobody disturbed makes its requests with its own TLS settings, and
\* a download whose archive has been there all the time finds it.
Undisturbed(h) ==
  /\ pc[h] \notin {"idle", "cleanup"} => result[h] = "none"
  /\ pc[h] \in Requesting /\ h \notin mixed => tls = StoreOf[h]
  /\ h \in Downloaders /\ pc[h] # "idle" /\ h \notin missed => Archive(h) \in stored
  /\ result[h] = "failed" /\ h \notin mixed /\ h \notin faulted /\ ~Misconfigured(h)
       => h \in Downloaders /\ (h \in missed \/ ~PlainFolder(Folder[StoreOf[h]]))

CauseInv ==
  /\ Stores \ NoEndpoint \subseteq endpoint
  /\ \A h \in Handlers : Undisturbed(h)

\* What others do to the TLS settings and to the bucket is remembered.
LEMMA OthersUndisturbed ==
  ASSUME StoreTypeOK, CauseInv, NEW h \in Handlers, Transfer(h),
         NEW g \in Handlers \ {h}
  PROVE  Undisturbed(g)'
<1>1. Undisturbed(g)
  BY DEF CauseInv
<1>2. stored \subseteq stored'
  BY DEF Transfer, Begin, GetSecret, MakeClient, FindBucket, MakeArchive, Put,
         Stored, Cleanup, ListObjects, Copy, LoadAndRemove
<1>3. \/ tls' = tls /\ (g \in mixed <=> g \in mixed')
      \/ /\ tls' = StoreOf[h]
         /\ g \in mixed' <=>
              g \in mixed \/ (pc[g] \in Requesting /\ StoreOf[g] # StoreOf[h])
  BY DEF Transfer, Begin, GetSecret, MakeClient, TLS, FindBucket, MakeArchive, Put,
         Cleanup, ListObjects, Copy, LoadAndRemove
<1>4. Misconfigured(g) <=> Misconfigured(g)'
  BY Elsewhere DEF Misconfigured
<1>5. Archive(g)' = Archive(g)
  BY DEF Archive, At
<1> QED BY <1>1, <1>2, <1>3, <1>4, <1>5, Elsewhere DEF Undisturbed

\* A request of a transfer that was not disturbed is accepted.
LEMMA OwnAccepted ==
  ASSUME CauseInv, NEW h \in Handlers, pc[h] \in Requesting,
         h \notin mixed
  PROVE  Accepted(h)
BY StoreAssumption DEF CauseInv, Undisturbed, Accepted

\* In a plain folder the archive is sought where it is put.
LEMMA PlainSought ==
  ASSUME StoreTypeOK, CauseInv, NEW h \in Downloaders, pc[h] # "idle",
         h \notin missed, PlainFolder(Folder[StoreOf[h]])
  PROVE  Sought(h) \in stored /\ Chosen(h) # {}
<1>1. h \in Handlers
  BY DEF Handlers
<1>2. Sought(h) = Archive(h)
  BY <1>1, StoreTypes, StoreKeys DEF Sought, Archive
<1>3. Sought(h) \in stored
  BY <1>1, <1>2 DEF CauseInv, Undisturbed
<1>4. Sought(h).name = NameOf[h] /\ NameOf[h] \in Extensions[NameOf[h]]
  BY <1>1, StoreAssumption DEF Sought, At
<1> QED BY <1>3, <1>4 DEF Chosen, Listed

LEMMA OwnUndisturbed ==
  ASSUME StoreTypeOK, CauseInv, NEW h \in Handlers, Transfer(h)
  PROVE  Undisturbed(h)'
<1> USE DEF StoreTypeOK
<1>1. Undisturbed(h) /\ Archive(h)' = Archive(h) /\ StoreOf[h] \in Stores
  BY StoreTypes DEF CauseInv, Archive, At
<1>2. AfterFailure(h) \in {"idle", "cleanup"}
      /\ (h \in Downloaders => AfterFailure(h) = "idle")
  BY StoreAssumption DEF AfterFailure
<1> DEFINE Excused == \/ h \in mixed' \/ h \in faulted' \/ Misconfigured(h)'
                      \/ /\ h \in Downloaders
                         /\ h \in missed' \/ ~PlainFolder(Folder[StoreOf[h]])
\* A failure that is excused, a step that is none, and one that ends well.
<1>3. ASSUME Fail(h), Excused PROVE Undisturbed(h)'
  BY <1>1, <1>2, <1>3 DEF Fail, Proceed, Ends, Undisturbed, Requesting
<1>4. ASSUME UNCHANGED <<tls, mixed, missed>>, stored \subseteq stored',
             result'[h] = "none",
             pc'[h] \in Requesting => pc[h] \in Requesting, pc[h] # "idle"
      PROVE  Undisturbed(h)'
  BY <1>1, <1>4 DEF Undisturbed
<1>5. pc[h] \notin {"idle", "cleanup"} => result[h] = "none"
  BY <1>1 DEF Undisturbed
<1>6. CASE Begin(h)
  <2>1. /\ pc'[h] \in {"archive", "secret"} /\ result'[h] = "none"
        /\ h \notin Uploaders => h \in missed' \/ Archive(h) \in stored'
    BY <1>6 DEF Begin, Proceed, Ends
  <2> QED BY <1>1, <2>1, StoreAssumption DEF Undisturbed, Requesting
<1>7. CASE GetSecret(h)
  <2>1. CASE Fail(h) /\ setting'[h] = "malformed"
    BY <1>3, <2>1 DEF Misconfigured
  <2>2. CASE Fail(h) /\ h \in faulted'
    BY <1>3, <2>2
  <2>3. CASE Proceed(h, "client") /\ UNCHANGED result
    BY <1>4, <1>5, <1>7, <2>3 DEF GetSecret, Proceed, Requesting
  <2>4. \A c : setting' = [setting EXCEPT ![h] = c] => setting'[h] = c
    OBVIOUS
  <2> QED BY <1>7, <2>1, <2>2, <2>3, <2>4 DEF GetSecret, TransferFault
<1>8. CASE MakeClient(h)
  <2>1. setting' = setting /\ pc[h] = "client" /\ result[h] = "none"
    BY <1>5, <1>8 DEF MakeClient
  <2>2. CASE setting[h] = "bad ca"
    BY <1>3, <1>8, <2>1, <2>2 DEF MakeClient, Misconfigured
  <2>3. CASE setting[h] # "bad ca"
    <3>1. tls' = StoreOf[h] /\ UNCHANGED <<stored, missed>>
      BY <1>8, <2>3 DEF MakeClient, TLS
    <3>2. CASE Proceed(h, "bucket") /\ UNCHANGED result
      BY <1>1, <2>1, <3>1, <3>2 DEF Proceed, Undisturbed
    <3>3. CASE StoreOf[h] \notin endpoint' /\ Again(h, Fail(h))
      <4>1. Misconfigured(h)'
        <5>1. setting[h] # "iam" /\ StoreOf[h] \in NoEndpoint
          BY <1>1, <1>8, <3>3 DEF MakeClient, CauseInv
        <5>2. setting[h] \in {"static", "malformed"}
          BY <2>3, <5>1 DEF SettingKinds
        <5> QED BY <2>1, <5>1, <5>2 DEF Misconfigured
      <4>2. CASE Fail(h)
        BY <1>3, <4>1, <4>2
      <4>3. CASE UNCHANGED <<pc, result>>
        BY <1>1, <2>1, <3>1, <4>3 DEF Undisturbed, Requesting
      <4> QED BY <3>3, <4>2, <4>3 DEF Again
    <3> QED BY <1>8, <2>3, <3>2, <3>3 DEF MakeClient
  <2> QED BY <2>2, <2>3
<1>9. CASE FindBucket(h)
  <2>1. pc[h] \in Requesting /\ result[h] = "none" /\ UNCHANGED <<tls, mixed, missed, stored>>
    BY <1>5, <1>9 DEF FindBucket, Requesting
  <2>2. CASE Fail(h) /\ (~Accepted(h) \/ h \in faulted')
    BY <1>3, <2>1, <2>2, OwnAccepted
  <2>3. CASE UNCHANGED result
    BY <1>4, <2>1, <2>3 DEF Requesting
  <2> QED BY <1>9, <2>2, <2>3 DEF FindBucket, TransferFault
<1>10. CASE MakeArchive(h)
  <2>1. CASE Fail(h) /\ h \in faulted'
    BY <1>3, <2>1
  <2>2. CASE Proceed(h, "secret") /\ UNCHANGED result
    BY <1>4, <1>5, <1>10, <2>2 DEF MakeArchive, Proceed, Requesting
  <2> QED BY <1>10, <2>1, <2>2 DEF MakeArchive, TransferFault
<1>11. CASE Put(h)
  <2>1. /\ pc[h] \in Requesting /\ result[h] = "none" /\ UNCHANGED <<tls, mixed, missed>>
        /\ stored \subseteq stored'
    BY <1>5, <1>11 DEF Put, Stored, Requesting
  <2>2. CASE PutFails(h) /\ (~Accepted(h) \/ h \in faulted')
    <3>1. CASE Fail(h)
      BY <1>3, <2>1, <2>2, <3>1, OwnAccepted
    <3>2. CASE UNCHANGED <<pc, result>>
      BY <1>4, <2>1, <3>2 DEF Requesting
    <3> QED BY <2>2, <3>1, <3>2 DEF PutFails, Exhausted, Again
  <2>3. CASE Proceed(h, "cleanup") /\ UNCHANGED result
    BY <1>4, <2>1, <2>3 DEF Proceed, Requesting
  <2> QED BY <1>11, <2>2, <2>3 DEF Put, TransferFault
<1>12. CASE Cleanup(h)
  <2>1. /\ pc'[h] = "idle" /\ UNCHANGED <<mixed, missed, setting>>
        /\ h \in faulted => h \in faulted'
        /\ result'[h] = "failed" => result[h] = "failed"
    BY <1>12 DEF Cleanup, Proceed, Ends, TransferFault
  <2> QED BY <1>1, <2>1 DEF Undisturbed, Requesting, Misconfigured
<1>13. CASE ListObjects(h) /\ h \in Downloaders
  <2>1. pc[h] = "list" /\ result[h] = "none" /\ UNCHANGED <<tls, mixed, missed, stored>>
    BY <1>5, <1>13 DEF ListObjects
  <2>2. CASE Fail(h) /\ (~Accepted(h) \/ h \in faulted' \/ Chosen(h) = {})
    BY <1>3, <1>13, <2>1, <2>2, OwnAccepted, PlainSought DEF Requesting
  <2>3. CASE UNCHANGED result
    BY <1>4, <2>1, <2>3 DEF Requesting
  <2> QED BY <1>13, <2>2, <2>3 DEF ListObjects, TransferFault
<1>14. CASE Copy(h) /\ h \in Downloaders
  <2>1. pc[h] = "copy" /\ result[h] = "none" /\ UNCHANGED <<tls, mixed, missed, stored>>
    BY <1>5, <1>14 DEF Copy
  <2>2. CASE Fail(h) /\ (~Accepted(h) \/ h \in faulted' \/ Sought(h) \notin stored)
    BY <1>3, <1>14, <2>1, <2>2, OwnAccepted, PlainSought DEF Requesting
  <2>3. CASE UNCHANGED result
    BY <1>4, <2>1, <2>3 DEF Requesting
  <2> QED BY <1>14, <2>2, <2>3 DEF Copy, CutShort, TransferFault
<1>15. CASE LoadAndRemove(h)
  <2>1. /\ pc'[h] = "idle"
        /\ result'[h] = "failed" => h \in faulted'
    BY <1>15 DEF LoadAndRemove, Proceed, Ends, TransferFault
  <2> QED BY <2>1 DEF Undisturbed, Requesting
<1> QED
  BY <1>6, <1>7, <1>8, <1>9, <1>10, <1>11, <1>12, <1>13, <1>14, <1>15 DEF Transfer

LEMMA CauseStep ==
  ASSUME StoreTypeOK, CauseInv, [StoreNext]_transfers
  PROVE  CauseInv'
<1>1. CASE UNCHANGED transfers
  BY <1>1 DEF transfers, CauseInv, Undisturbed, Misconfigured, Archive, At
<1>2. ASSUME NEW o \in stored, Delete(o) PROVE CauseInv'
  <2>1. \A h \in Handlers : Archive(h)' = Archive(h)
    BY DEF Archive, At
  <2>2. \A h \in Downloaders : pc[h] # "idle" /\ Archive(h) = o => h \in missed'
    BY <1>2 DEF Delete
  <2>3. missed \subseteq missed' /\ stored' = stored \ {o}
        /\ UNCHANGED <<tls, endpoint, pc, setting, result, mixed, faulted>>
    BY <1>2 DEF Delete
  <2>4. ASSUME NEW h \in Handlers PROVE Undisturbed(h)'
    BY <2>1, <2>2, <2>3 DEF CauseInv, Undisturbed, Misconfigured
  <2> QED BY <2>3, <2>4 DEF CauseInv
<1>3. ASSUME NEW h \in Handlers, Transfer(h) PROVE CauseInv'
  <2>1. endpoint \subseteq endpoint'
    BY <1>3
    DEF Transfer, Begin, GetSecret, MakeClient, FindBucket, MakeArchive, Put,
        Cleanup, ListObjects, Copy, LoadAndRemove
  <2>2. ASSUME NEW g \in Handlers PROVE Undisturbed(g)'
    BY <1>3, OwnUndisturbed, OthersUndisturbed
  <2> QED BY <2>1, <2>2 DEF CauseInv
<1> QED BY <1>1, <1>2, <1>3 DEF StoreNext

\* A transfer nobody disturbed fails only if a call of it failed, its
\* configuration is wrong, or its archive was not there all the time.
THEOREM TransferFailsForCause == StoreSpec => []FailsForCause
<1>1. StoreInit => StoreTypeOK /\ CauseInv
  BY StoreInitial DEF StoreInit, CauseInv, Undisturbed, Requesting
<1>2. StoreTypeOK /\ CauseInv /\ [StoreNext]_transfers => StoreTypeOK' /\ CauseInv'
  BY StoreStep, CauseStep
<1>3. CauseInv => FailsForCause
  BY DEF CauseInv, Undisturbed, FailsForCause
<1> QED BY <1>1, <1>2, <1>3, PTL DEF StoreSpec

-----------------------------------------------------------------------------
(* EncryptionConfig                                                        *)

(***************************************************************************)
(* Types.  A handler without a key never gets as far as writing, which is  *)
(* why the file never holds "no key".                                      *)
(***************************************************************************)
HasKey == \A h \in Encrypters : calling[h] \in {"open", "write", "load"} => config[h] # NoKey

ConfigInv == ConfigTypeOK /\ HasKey

\* The initial state is well typed.
LEMMA ConfigInitial == ConfigInit => ConfigInv
  BY DEF ConfigInit, ConfigInv, ConfigTypeOK, HasKey

\* Every step of the handlers keeps the types, whatever a Secret holds and
\* whatever is read from the file.
LEMMA ConfigStep == ConfigInv /\ [ConfigNext]_encryption => ConfigInv'
<1> SUFFICES ASSUME ConfigInv, [ConfigNext]_encryption PROVE ConfigInv'
  OBVIOUS
<1> USE DEF ConfigInv, ConfigTypeOK, HasKey, Calling, Result
<1>1. CASE UNCHANGED encryption
  BY <1>1 DEF encryption
<1>2. ASSUME NEW h \in Encrypters, NEW c \in Secret[h], GotSecret(h, c) PROVE ConfigInv'
  <2>1. c \in Configs \cup {NoKey}
    BY EncryptionAssumption
  <2>2. disturbed' \in [Encrypters -> BOOLEAN]
    BY <1>2 DEF GotSecret, Busy
  <2>3. /\ calling' \in [Encrypters -> {"idle", "open", "write", "load", "remove"}]
        /\ loaded' \in [Encrypters -> Configs \cup {NotLoaded, Refused, Unreadable, Garbled}]
    BY <1>2 DEF GotSecret, LacksKey, AfterRefusal
  <2>4. HasKey'
    BY <1>2, <2>1 DEF GotSecret, LacksKey, AfterRefusal
  <2>5. QED
    BY <1>2, <2>1, <2>2, <2>3, <2>4 DEF GotSecret
<1>3. ASSUME NEW h \in Encrypters, Open(h) PROVE ConfigInv'
  BY <1>3 DEF Open, Opened, AfterRefusal
<1>4. ASSUME NEW h \in Encrypters, Write(h) PROVE ConfigInv'
  <2>1. config[h] \in Configs
    BY <1>4 DEF Write
  <2>2. file' \in Configs \cup {NoFile, Empty, Garbled}
    BY <1>4, <2>1 DEF Write, Written
  <2>3. QED
    BY <1>4, <2>2 DEF Write, AfterRefusal
<1>5. ASSUME NEW h \in Encrypters, Load(h) PROVE ConfigInv'
  <2>1. Loads(file) \subseteq Configs \cup {Unreadable, Garbled}
    BY DEF Loads
  <2>2. QED
    BY <1>5, <2>1 DEF Load
<1>6. ASSUME NEW h \in Encrypters, Remove(h) PROVE ConfigInv'
  BY <1>6 DEF Remove
<1>7. QED
  BY <1>1, <1>2, <1>3, <1>4, <1>5, <1>6 DEF ConfigNext, Handler

LEMMA ConfigInvariant == ConfigSpec => []ConfigInv
  BY ConfigInitial, ConfigStep, PTL DEF ConfigSpec

\* All variables keep their types.
THEOREM ConfigTypeCorrect == ConfigSpec => []ConfigTypeOK
  BY ConfigInvariant, PTL DEF ConfigInv

(***************************************************************************)
(* The keys do not stay in the file system, as long as the file could be   *)
(* removed.  Inductively: as long as there is a file, some handler is      *)
(* between the write and the removal of it - not always the one that wrote *)
(* it.                                                                     *)
(***************************************************************************)
SomebodyRemoves ==
  ~stuck /\ file # NoFile => \E h \in Encrypters : calling[h] \in {"write", "load", "remove"}

\* However the handlers overlap, the last one that goes idle has removed the
\* file.
THEOREM KeysAreRemoved == ConfigSpec => []NoKeysLeft
<1>1. ConfigInit => SomebodyRemoves
  BY DEF ConfigInit, SomebodyRemoves
<1>2. ConfigInv /\ SomebodyRemoves /\ [ConfigNext]_encryption => SomebodyRemoves'
  <2> SUFFICES ASSUME ConfigInv, SomebodyRemoves, [ConfigNext]_encryption,
                      ~stuck', file' # NoFile
               PROVE  \E h \in Encrypters : calling'[h] \in {"write", "load", "remove"}
    BY DEF SomebodyRemoves
  <2> USE DEF ConfigInv, ConfigTypeOK, SomebodyRemoves, Calling
  <2>1. CASE UNCHANGED encryption
    BY <2>1 DEF encryption
  <2>2. ASSUME NEW h \in Encrypters, NEW c \in Secret[h], GotSecret(h, c)
        PROVE  \E g \in Encrypters : calling'[g] \in {"write", "load", "remove"}
    BY <2>2 DEF GotSecret, LacksKey, Busy, AfterRefusal
  <2>3. ASSUME NEW h \in Encrypters, Open(h) \/ Write(h) \/ Load(h)
        PROVE  \E g \in Encrypters : calling'[g] \in {"write", "load", "remove"}
    <3>1. calling'[h] \in {"write", "load", "remove"}
      BY <2>3 DEF Open, Write, Load, AfterRefusal
    <3>2. QED
      BY <3>1
  <2>4. ASSUME NEW h \in Encrypters, Remove(h) PROVE FALSE
    BY <2>4 DEF Remove
  <2>5. QED
    BY <2>1, <2>2, <2>3, <2>4 DEF ConfigNext, Handler
<1>3. ConfigInv /\ SomebodyRemoves => NoKeysLeft
  BY DEF SomebodyRemoves, NoKeysLeft, Busy
<1>4. QED
  BY <1>1, <1>2, <1>3, ConfigInvariant, PTL DEF ConfigSpec

(***************************************************************************)
(* A handler that was not disturbed.  Inductively: the others are idle,    *)
(* the file is the one it has open, and holds what its last step wrote.    *)
(***************************************************************************)
Own(c) == {Refused, IF c \in Invalid THEN Unreadable ELSE c}

Alone(h) ==
  /\ \A g \in Encrypters \ {h} : ~Busy(g)
  /\ calling[h] = "write" => linked[h] /\ file = Empty
  /\ calling[h] = "load" => file = config[h]
  /\ calling[h] = "remove" => loaded[h] \in Own(config[h])

UndisturbedInv == \A h \in Encrypters : Busy(h) /\ ~disturbed[h] => Alone(h)

\* A step of another handler than h either leaves h idle, or disturbs it.
LEMMA StepKeepsAlone ==
  ASSUME ConfigInv, ConfigInv', UndisturbedInv, NEW h \in Encrypters, Handler(h)
  PROVE  UndisturbedInv'
<1> USE DEF ConfigInv, ConfigTypeOK, HasKey, Calling, Result, Busy
<1> SUFFICES ASSUME NEW g \in Encrypters, Busy(g)', ~disturbed'[g] PROVE Alone(g)'
  BY DEF UndisturbedInv
<1>1. ASSUME NEW c \in Secret[h], GotSecret(h, c) PROVE Alone(g)'
  <2>1. CASE g = h
    <3>1. \A other \in Encrypters \ {h} : ~Busy(other)
      BY <1>1, <2>1 DEF GotSecret, LacksKey
    <3>2. calling'[h] \in {"open", "remove"} /\ (calling'[h] = "remove" => loaded'[h] = Refused)
      BY <1>1 DEF GotSecret, LacksKey, AfterRefusal
    <3>3. \A other \in Encrypters \ {h} : ~Busy(other)'
      BY <1>1, <3>1 DEF GotSecret, LacksKey, AfterRefusal
    <3>4. QED
      BY <2>1, <3>2, <3>3 DEF Alone, Own
  <2>2. CASE g # h
    BY <1>1, <2>2 DEF GotSecret, LacksKey, AfterRefusal
  <2>3. QED
    BY <2>1, <2>2
<1>2. ASSUME Open(h) \/ Write(h) \/ Load(h) \/ Remove(h) PROVE Alone(g)'
  <2>1. /\ calling[h] # "idle"
        /\ calling' = [calling EXCEPT ![h] = calling'[h]]
        /\ config' = config
        /\ disturbed' = disturbed
    BY <1>2 DEF Open, Write, Load, Remove
  <2>2. g = h
    <3>1. Busy(g) \/ g = h
      BY <2>1
    <3>2. Busy(g) => Alone(g)
      BY <2>1 DEF UndisturbedInv
    <3>3. QED
      BY <2>1, <3>1, <3>2 DEF Alone
  <2>3. Alone(h)
    BY <2>1, <2>2 DEF UndisturbedInv
  <2>4. \A other \in Encrypters \ {h} : ~Busy(other)'
    BY <2>1, <2>3 DEF Alone
  <2>5. CASE Open(h)
    BY <2>2, <2>4, <2>5 DEF Alone, Own, Open, Opened, AfterRefusal
  <2>6. CASE Write(h)
    BY <2>2, <2>3, <2>4, <2>6 DEF Alone, Own, Write, Written, AfterRefusal
  <2>7. CASE Load(h)
    <3>1. config[h] \in Configs /\ file = config[h]
      BY <2>3, <2>7 DEF Load, Alone
    <3>2. Loads(file) \subseteq Own(config[h])
      BY <3>1, EncryptionAssumption DEF Loads, Own
    <3>3. loaded'[h] \in Own(config[h]) /\ config' = config /\ calling'[h] = "remove"
      BY <2>7, <3>2 DEF Load
    <3>4. QED
      BY <2>2, <2>4, <3>3 DEF Alone
  <2>8. CASE Remove(h)
    BY <2>2, <2>8 DEF Remove
  <2>9. QED
    BY <1>2, <2>5, <2>6, <2>7, <2>8
<1>3. QED
  BY <1>1, <1>2 DEF Handler

\* Whatever earlier attempts left in the file, a handler that was not
\* disturbed has loaded the configuration of its own Secret.
THEOREM UndisturbedLoadsItsOwn == ConfigSpec => []UndisturbedIsRight
<1>1. ConfigInit => UndisturbedInv
  BY DEF ConfigInit, UndisturbedInv, Busy
<1>2. ConfigInv /\ ConfigInv' /\ UndisturbedInv /\ [ConfigNext]_encryption => UndisturbedInv'
  <2>1. ASSUME ConfigInv, ConfigInv', UndisturbedInv, ConfigNext PROVE UndisturbedInv'
    BY <2>1, StepKeepsAlone DEF ConfigNext
  <2>2. ASSUME UndisturbedInv, UNCHANGED encryption PROVE UndisturbedInv'
    BY <2>2 DEF UndisturbedInv, Alone, Busy, encryption
  <2>3. QED
    BY <2>1, <2>2
<1>3. UndisturbedInv => UndisturbedIsRight
  BY DEF UndisturbedInv, UndisturbedIsRight, Alone, Own, Busy
<1>4. QED
  BY <1>1, <1>2, <1>3, ConfigInvariant, PTL DEF ConfigSpec
=============================================================================
