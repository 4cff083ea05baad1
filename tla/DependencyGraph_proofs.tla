----------------------- MODULE DependencyGraph_proofs -----------------------
(***************************************************************************)
(* Theorems about DependencyGraph, for every archive: the counting of      *)
(* owners is exact, so that owners come first, nothing is queued twice and *)
(* nothing is lost that has all its owners.                                *)
(***************************************************************************)
EXTENDS DependencyGraph, FiniteSetTheorems, FunctionTheorems, TLAPS

-----------------------------------------------------------------------------
(* Work lists                                                              *)

Elems(q) == {q[i] : i \in 1..Len(q)}
Distinct(q) == \A i, j \in 1..Len(q) : q[i] = q[j] => i = j

LEMMA TailElems ==
  ASSUME NEW S, NEW q \in Seq(S), q # <<>>, Distinct(q)
  PROVE  /\ Tail(q) \in Seq(S)
         /\ Elems(Tail(q)) = Elems(q) \ {Head(q)}
         /\ Distinct(Tail(q))
         /\ Head(q) \in Elems(q)
<1>1. /\ Tail(q) \in Seq(S)
      /\ Len(q) \in Nat /\ Len(q) > 0
      /\ Len(Tail(q)) = Len(q) - 1
      /\ \A i \in 1..Len(Tail(q)) : Tail(q)[i] = q[i + 1]
      /\ Head(q) = q[1]
  OBVIOUS
<1>2. Elems(Tail(q)) \subseteq Elems(q) \ {Head(q)}
  BY <1>1 DEF Elems, Distinct
<1>3. ASSUME NEW x \in Elems(q) \ {Head(q)} PROVE x \in Elems(Tail(q))
  <2>1. PICK i \in 1..Len(q) : q[i] = x
    BY DEF Elems
  <2>2. i - 1 \in 1..Len(Tail(q)) /\ Tail(q)[i - 1] = x
    BY <1>1, <2>1
  <2> QED
    BY <2>2 DEF Elems
<1>4. Distinct(Tail(q)) /\ Head(q) \in Elems(q)
  BY <1>1 DEF Distinct, Elems
<1> QED
  BY <1>1, <1>2, <1>3, <1>4

LEMMA ConcatElems ==
  ASSUME NEW S, NEW q \in Seq(S), NEW r \in Seq(S)
  PROVE  /\ q \o r \in Seq(S)
         /\ Elems(q \o r) = Elems(q) \cup Elems(r)
         /\ Distinct(q) /\ Distinct(r) /\ Elems(q) \cap Elems(r) = {}
              => Distinct(q \o r)
<1>1. /\ q \o r \in Seq(S)
      /\ Len(q) \in Nat /\ Len(r) \in Nat
      /\ Len(q \o r) = Len(q) + Len(r)
      /\ \A i \in 1..Len(q) : (q \o r)[i] = q[i]
      /\ \A i \in Len(q)+1..Len(q)+Len(r) : (q \o r)[i] = r[i - Len(q)]
  OBVIOUS
<1>2. Elems(q \o r) \subseteq Elems(q) \cup Elems(r)
  BY <1>1 DEF Elems
<1>3. Elems(q) \subseteq Elems(q \o r)
  BY <1>1 DEF Elems
<1>4. ASSUME NEW x \in Elems(r) PROVE x \in Elems(q \o r)
  <2>1. PICK i \in 1..Len(r) : r[i] = x
    BY DEF Elems
  <2>2. i + Len(q) \in 1..Len(q \o r) /\ (q \o r)[i + Len(q)] = x
    BY <1>1, <2>1
  <2> QED
    BY <2>2 DEF Elems
<1>5. \A i \in 1..Len(q \o r) :
        /\ i <= Len(q) => (q \o r)[i] \in Elems(q)
        /\ i > Len(q) => (q \o r)[i] \in Elems(r)
  BY <1>1 DEF Elems
<1>6. ASSUME Distinct(q), Distinct(r), Elems(q) \cap Elems(r) = {}
      PROVE  Distinct(q \o r)
  <2> SUFFICES ASSUME NEW i \in 1..Len(q \o r), NEW j \in 1..Len(q \o r),
                      (q \o r)[i] = (q \o r)[j]
               PROVE  i = j
    BY DEF Distinct
  <2>1. CASE i <= Len(q) /\ j <= Len(q)
    BY <1>1, <1>6, <2>1 DEF Distinct
  <2>2. CASE i > Len(q) /\ j > Len(q)
    <3>1. /\ i - Len(q) \in 1..Len(r)
          /\ j - Len(q) \in 1..Len(r)
          /\ r[i - Len(q)] = r[j - Len(q)]
      BY <1>1, <2>2
    <3>2. i - Len(q) = j - Len(q)
      BY <1>6, <3>1 DEF Distinct
    <3> QED
      BY <1>1, <3>2
  <2>3. CASE i <= Len(q) /\ j > Len(q)
    BY <1>5, <1>6, <2>3
  <2>4. CASE i > Len(q) /\ j <= Len(q)
    BY <1>5, <1>6, <2>4
  <2> QED
    BY <1>1, <2>1, <2>2, <2>3, <2>4
<1> QED
  BY <1>1, <1>2, <1>3, <1>4, <1>6

\* A permutation of a finite set has each of its elements once.
LEMMA PermElems ==
  ASSUME NEW S, IsFiniteSet(S), NEW q \in SetToSeqs(S)
  PROVE  q \in Seq(S) /\ Elems(q) = S /\ Distinct(q)
<1> DEFINE n == Cardinality(S)
<1>1. n \in Nat
  BY FS_CardinalityType
<1>2. q \in [1..n -> S] /\ \A i, j \in 1..n : i # j => q[i] # q[j]
  BY DEF SetToSeqs
<1>3. q \in Seq(S) /\ Len(q) = n
  BY <1>1, <1>2
<1>4. q \in Injection(1..n, S)
  BY <1>2 DEF Injection, IsInjective
<1>5. Cardinality(1..n) = n
  BY <1>1, FS_Interval
<1>6. q \in Surjection(1..n, S)
  BY <1>4, <1>5, FS_Injection
<1> QED
  BY <1>2, <1>3, <1>6 DEF Elems, Distinct, Surjection

-----------------------------------------------------------------------------
(* The inductive invariant                                                 *)

\* A work list is being worked through.
Active == step = "create" /\ phase \in {"cluster", "namespaced"}

\* The owners under which generateDependencyGraph filed o.
Filed(o) == {w \in Paths : o \in dependents[w]}

\* What has been tried by when: the namespaced objects come last.
Stages ==
  /\ ~Active => toRestore = <<>>
  /\ step = "generate" => phase \in {"cluster", "namespaced"}
  /\ phase = "cluster" /\ step = "generate" => attempted = {}
  /\ phase = "cluster" \/ step = "generate" => attempted \subseteq Cluster
  /\ attempted \subseteq archive.objects
  /\ created \subseteq attempted \cup archive.crds
  /\ archive.crds \subseteq created
  /\ attempted \subseteq created \cup failed

\* The adjacency lists are exact: an object is filed under those of its
\* owners that were not there when the graph was made.
GraphExact ==
  Active =>
    /\ \A w \in Paths : dependents[w] \subseteq Scoped(phase)
    /\ \A o \in Scoped(phase) :
         /\ Filed(o) \subseteq archive.owners[o]
         /\ archive.owners[o] \subseteq created \cup Filed(o)

\* The counts are exact.
CountExact ==
  /\ Active => \A o \in Scoped(phase) :
                 waiting[o] = Cardinality(Filed(o) \ created)
  /\ phase = "cluster" \/ step = "generate" =>
       \A o \in Scoped("namespaced") : waiting[o] = 0
  /\ phase = "cluster" /\ step = "generate" =>
       \A o \in Scoped("cluster") : waiting[o] = 0

\* The work list and the objects already tried are those that wait for none.
QueueExact ==
  /\ Elems(toRestore) \subseteq Scoped(phase)
  /\ Distinct(toRestore)
  /\ Elems(toRestore) \cap attempted = {}
  /\ Active => \A o \in Scoped(phase) :
                 waiting[o] = 0 <=> o \in Elems(toRestore) \cup attempted

\* What LeftBehindHasCause says of the phases that are over.
PastPhases ==
  \A p \in {"cluster", "namespaced"} :
    phase = "done" \/ (p = "cluster" /\ phase = "namespaced") =>
      \A o \in Scoped(p) \ attempted : ~(archive.owners[o] \subseteq created)

\* OwnersFirst rests on QueueExact, which rests on the counts, which rest on
\* the lists.
IInv ==
  TypeOK /\ Stages /\ GraphExact /\ CountExact /\ QueueExact /\ OwnersFirst
         /\ PastPhases

LEMMA EmptyElems == Elems(<<>>) = {} /\ Distinct(<<>>)
  BY DEF Elems, Distinct

LEMMA ScopedFacts ==
  ASSUME TypeOK
  PROVE  /\ Scoped("cluster") \subseteq Cluster \cap archive.objects
         /\ Scoped("namespaced") \subseteq Namespaced \cap archive.objects
         /\ \A p : Scoped(p) \subseteq Paths
         /\ archive.owners \in [Paths -> SUBSET Paths]
         /\ archive.crds \subseteq Cluster
         /\ archive.crds \cap archive.objects = {}
         /\ \A o \in Cluster :
              archive.owners[o] \cap archive.objects \subseteq Cluster
         /\ archive.objects \subseteq Paths
  BY DEF TypeOK, IsArchive, Scoped, Paths

LEMMA FiniteOwners ==
  ASSUME TypeOK, NEW o \in Paths, NEW S, S \subseteq archive.owners[o]
  PROVE  IsFiniteSet(S) /\ Cardinality(S) \in Nat
<1>1. S \subseteq Paths
  BY ScopedFacts
<1> QED
  BY <1>1, GraphAssumption, FS_Subset, FS_CardinalityType

LEMMA InitInv == Init => IInv
<1> SUFFICES ASSUME Init PROVE IInv
  OBVIOUS
<1>1. TypeOK
  <2>1. IsArchive(archive)
    BY GraphAssumption DEF Init
  <2> QED
    BY <2>1, GraphAssumption DEF Init, TypeOK, IsArchive, Paths
<1>2. Stages /\ GraphExact
  BY DEF Init, Stages, GraphExact, Active
<1>3. CountExact
  BY <1>1, ScopedFacts DEF Init, CountExact, Active
<1>4. QueueExact
  BY EmptyElems DEF Init, QueueExact, Active
<1>5. OwnersFirst /\ PastPhases
  BY DEF Init, OwnersFirst, PastPhases
<1> QED
  BY <1>1, <1>2, <1>3, <1>4, <1>5 DEF IInv

-----------------------------------------------------------------------------
(* Generate                                                                *)

LEMMA GenerateInv == ASSUME IInv, Generate PROVE IInv'
<1> USE DEF IInv
<1>1. /\ phase \in {"cluster", "namespaced"} /\ step = "generate"
      /\ phase' = phase /\ step' = "create"
      /\ archive' = archive /\ ignoreErrors' = ignoreErrors
      /\ UNCHANGED <<live, created, attempted, failed>>
  BY DEF Generate, given
<1>2. created \subseteq Cluster
  BY <1>1, ScopedFacts DEF Stages
<1>3. attempted \cap Scoped(phase) = {}
  BY <1>1, ScopedFacts, GraphAssumption DEF Stages
<1>4. \A o \in Scoped(phase) :
        /\ Counted(o) \subseteq archive.owners[o]
        /\ Counted(o) \cap created = {}
        /\ archive.owners[o] \subseteq created \cup Counted(o)
        /\ Counted(o) \subseteq Paths
  BY <1>2, ScopedFacts DEF Counted
<1>5. Roots \subseteq Scoped(phase) /\ IsFiniteSet(Roots)
  <2>1. Roots \subseteq Scoped(phase)
    BY DEF Roots
  <2> QED
    BY <2>1, ScopedFacts, GraphAssumption, FS_Subset
<1>6. toRestore' \in Seq(Roots) /\ Elems(toRestore') = Roots /\ Distinct(toRestore')
  BY <1>5, PermElems DEF Generate
<1>7. \A o \in Paths :
        waiting'[o] = IF o \in Scoped(phase) \ Roots
                      THEN Cardinality(Counted(o)) ELSE waiting[o]
  BY DEF Generate
<1>8. \A w \in Paths : dependents'[w] = {o \in Scoped(phase) : w \in Counted(o)}
  BY DEF Generate
<1>9. Scoped(phase)' = Scoped(phase) /\ \A p : Scoped(p)' = Scoped(p)
  BY <1>1 DEF Scoped
<1>10. \A o \in Scoped(phase) : Filed(o)' = Counted(o)
  BY <1>4, <1>8 DEF Filed
<1>11. \A o \in Scoped(phase) :
         /\ IsFiniteSet(Counted(o))
         /\ Cardinality(Counted(o)) \in Nat
         /\ Cardinality(Counted(o)) = 0 <=> Counted(o) = {}
  BY <1>4, ScopedFacts, FiniteOwners, FS_EmptySet
<1>12. \A o \in Scoped(phase) : waiting[o] = 0
  BY <1>1 DEF CountExact
<1>13. \A o \in Scoped(phase) :
         /\ waiting'[o] = Cardinality(Counted(o))
         /\ waiting'[o] = 0 <=> o \in Roots
  BY <1>7, <1>11, <1>12, ScopedFacts DEF Roots
<1>14. TypeOK'
  <2>1. toRestore' \in Seq(Paths)
    BY <1>5, <1>6, ScopedFacts
  <2>2. dropped' \subseteq Paths
    BY <1>5, ScopedFacts DEF Generate, TypeOK
  <2>3. waiting' \in [Paths -> Nat]
    <3>1. \A o \in Paths : (IF o \in Scoped(phase) \ Roots
                         THEN Cardinality(Counted(o)) ELSE waiting[o]) \in Nat
      BY <1>11 DEF TypeOK
    <3> QED
      BY <3>1 DEF Generate
  <2>4. dependents' \in [Paths -> SUBSET Paths]
    <3>1. \A w \in Paths : {o \in Scoped(phase) : w \in Counted(o)} \in SUBSET Paths
      BY ScopedFacts
    <3> QED
      BY <3>1 DEF Generate
  <2> QED
    BY <1>1, <2>1, <2>2, <2>3, <2>4 DEF TypeOK
<1>15. Stages'
  BY <1>1 DEF Stages, Active
<1>16. GraphExact'
  BY <1>1, <1>4, <1>8, <1>9, <1>10 DEF GraphExact
<1>17. CountExact'
  <2>1. \A o \in Scoped(phase) : waiting'[o] = Cardinality(Filed(o)' \ created')
    <3>1. \A o \in Scoped(phase) : Counted(o) \ created = Counted(o)
      BY <1>4
    <3> QED
      BY <1>1, <1>10, <1>13, <3>1
  <2>2. phase = "cluster" => \A o \in Scoped("namespaced") : waiting'[o] = 0
    <3> SUFFICES ASSUME phase = "cluster", NEW o \in Scoped("namespaced")
                 PROVE  waiting'[o] = 0
      OBVIOUS
    <3>1. o \notin Scoped(phase) /\ o \in Paths
      BY ScopedFacts, GraphAssumption
    <3> QED
      BY <1>1, <1>7, <3>1 DEF CountExact
  <2> QED
    BY <1>1, <1>9, <2>1, <2>2 DEF CountExact
<1>18. QueueExact'
  BY <1>1, <1>3, <1>5, <1>6, <1>9, <1>13 DEF QueueExact
<1>19. OwnersFirst' /\ PastPhases'
  BY <1>1, <1>9 DEF OwnersFirst, PastPhases
<1> QED
  BY <1>14, <1>15, <1>16, <1>17, <1>18, <1>19

-----------------------------------------------------------------------------
(* RestoreNext                                                             *)

\* The head of the work list has all its owners and was never tried.
LEMMA HeadFacts ==
  ASSUME IInv, Active, toRestore # <<>>
  PROVE  LET curr == Head(toRestore) IN
         /\ curr \in Scoped(phase) /\ curr \in Paths /\ curr \in archive.objects
         /\ curr \notin created /\ curr \notin attempted
         /\ archive.owners[curr] \subseteq created
         /\ Tail(toRestore) \in Seq(Paths)
         /\ Elems(Tail(toRestore)) = Elems(toRestore) \ {curr}
         /\ Distinct(Tail(toRestore))
         /\ curr \in Elems(toRestore)
<1> DEFINE curr == Head(toRestore)
<1> USE DEF IInv
<1>1. /\ Tail(toRestore) \in Seq(Paths)
      /\ Elems(Tail(toRestore)) = Elems(toRestore) \ {curr}
      /\ Distinct(Tail(toRestore))
      /\ curr \in Elems(toRestore)
  BY TailElems DEF TypeOK, QueueExact
<1>2. curr \in Scoped(phase) /\ curr \notin attempted /\ waiting[curr] = 0
  BY <1>1 DEF QueueExact
<1>3. curr \in Paths /\ curr \in archive.objects
  BY <1>2, ScopedFacts DEF Active
<1>4. curr \notin created
  BY <1>2, <1>3, ScopedFacts DEF Stages
<1>5. Filed(curr) \ created = {}
  <2>1. Filed(curr) \ created \subseteq archive.owners[curr]
    BY <1>2 DEF GraphExact
  <2>2. IsFiniteSet(Filed(curr) \ created)
    BY <1>3, <2>1, FiniteOwners
  <2>3. Cardinality(Filed(curr) \ created) = 0
    BY <1>2 DEF CountExact
  <2> QED
    BY <2>2, <2>3, FS_EmptySet
<1>6. archive.owners[curr] \subseteq created
  BY <1>2, <1>5 DEF GraphExact
<1> QED
  BY <1>1, <1>2, <1>3, <1>4, <1>6

\* What every turn of the loop leaves alone, and what it may do.
LEMMA TurnFacts ==
  ASSUME IInv, RestoreNext
  PROVE  LET curr == Head(toRestore) IN
         /\ Active /\ toRestore # <<>>
         /\ UNCHANGED <<archive, ignoreErrors, phase, step, dependents>>
         /\ attempted' = attempted \cup {curr}
         /\ live' \subseteq Paths /\ dropped' \subseteq Paths
         /\ Restored(curr) \/ NotRestored(curr)
<1> DEFINE curr == Head(toRestore)
<1>1. Active /\ toRestore # <<>>
  BY DEF RestoreNext, IInv, Stages, Active
<1>2. curr \notin created /\ curr \in Paths
  BY <1>1, HeadFacts
<1>3. live \subseteq Paths /\ dropped \subseteq Paths
  BY DEF IInv, TypeOK
<1> QED
  BY <1>1, <1>2, <1>3 DEF RestoreNext, given

\* The conjuncts of the invariant that do not depend on the outcome.
LEMMA TurnInv ==
  ASSUME IInv, RestoreNext,
         created' \subseteq created \cup {Head(toRestore)}, created \subseteq created',
         failed \subseteq failed', Head(toRestore) \in created' \cup failed'
  PROVE  Stages' /\ OwnersFirst' /\ PastPhases' /\ GraphExact'
<1> DEFINE curr == Head(toRestore)
<1> USE DEF IInv
<1>1. /\ Active /\ UNCHANGED <<archive, ignoreErrors, phase, step, dependents>>
      /\ attempted' = attempted \cup {curr}
  BY TurnFacts
<1>2. /\ curr \in Scoped(phase) /\ curr \in archive.objects
      /\ archive.owners[curr] \subseteq created
  BY TurnFacts, HeadFacts
<1>3. \A p : Scoped(p)' = Scoped(p)
  BY <1>1 DEF Scoped
<1>4. Stages'
  BY <1>1, <1>2, ScopedFacts DEF Stages, Active
<1>5. OwnersFirst'
  BY <1>1, <1>2 DEF OwnersFirst
<1>6. GraphExact'
  BY <1>1, <1>3 DEF GraphExact, Filed, Active
<1>7. PastPhases'
  <2>1. phase # "done"
    BY <1>1 DEF Active
  <2> SUFFICES ASSUME phase = "namespaced",
                      NEW o \in Scoped("cluster") \ attempted'
               PROVE  ~(archive.owners[o] \subseteq created')
    BY <1>1, <1>3, <2>1 DEF PastPhases
  <2>2. curr \in Namespaced
    BY <1>2, ScopedFacts
  <2>3. curr \notin archive.owners[o]
    BY <1>2, <2>2, ScopedFacts, GraphAssumption
  <2>4. ~(archive.owners[o] \subseteq created)
    BY <1>1 DEF PastPhases
  <2> QED
    BY <2>3, <2>4
<1> QED
  BY <1>4, <1>5, <1>6, <1>7

LEMMA NotRestoredInv ==
  ASSUME IInv, RestoreNext, NotRestored(Head(toRestore))
  PROVE  IInv'
<1> DEFINE curr == Head(toRestore)
<1> USE DEF IInv
<1>1. /\ Active /\ toRestore # <<>>
      /\ UNCHANGED <<archive, ignoreErrors, phase, step, dependents, created, waiting>>
      /\ attempted' = attempted \cup {curr}
      /\ toRestore' = Tail(toRestore)
      /\ failed' = failed \cup {curr}
      /\ live' \subseteq Paths /\ dropped' \subseteq Paths
  BY TurnFacts DEF NotRestored
<1>2. /\ curr \in Scoped(phase) /\ curr \in Paths
      /\ toRestore' \in Seq(Paths)
      /\ Elems(toRestore') = Elems(toRestore) \ {curr}
      /\ Distinct(toRestore')
      /\ curr \in Elems(toRestore)
  BY <1>1, HeadFacts
<1>3. \A p : Scoped(p)' = Scoped(p)
  BY <1>1 DEF Scoped
<1>4. TypeOK'
  BY <1>1, <1>2 DEF TypeOK
<1>5. CountExact'
  BY <1>1, <1>3 DEF CountExact, Filed, Active
<1>6. QueueExact'
  BY <1>1, <1>2, <1>3 DEF QueueExact, Active
<1>7. Stages' /\ OwnersFirst' /\ PastPhases' /\ GraphExact'
  BY <1>1, TurnInv
<1> QED
  BY <1>4, <1>5, <1>6, <1>7

LEMMA RestoredInv ==
  ASSUME IInv, RestoreNext, Restored(Head(toRestore))
  PROVE  IInv'
<1> DEFINE curr == Head(toRestore)
           rel == Released(curr)
<1> USE DEF IInv
<1>1. /\ Active /\ toRestore # <<>>
      /\ UNCHANGED <<archive, ignoreErrors, phase, step, dependents, failed>>
      /\ attempted' = attempted \cup {curr}
      /\ created' = created \cup {curr}
      /\ waiting' = Decremented(curr)
      /\ live' \subseteq Paths /\ dropped' \subseteq Paths
  BY TurnFacts DEF Restored
<1>2. /\ curr \in Scoped(phase) /\ curr \in Paths /\ curr \notin created
      /\ Tail(toRestore) \in Seq(Paths)
      /\ Elems(Tail(toRestore)) = Elems(toRestore) \ {curr}
      /\ Distinct(Tail(toRestore))
      /\ curr \in Elems(toRestore)
  BY <1>1, HeadFacts
<1>3. \A p : Scoped(p)' = Scoped(p)
  BY <1>1 DEF Scoped
<1>4. \A o \in Paths : Filed(o)' = Filed(o) /\ (o \in dependents[curr] <=> curr \in Filed(o))
  BY <1>1, <1>2 DEF Filed
<1>5. \A o \in Paths :
        /\ waiting[o] \in Nat
        /\ waiting'[o] = IF o \in dependents[curr] /\ waiting[o] > 0
                         THEN waiting[o] - 1 ELSE waiting[o]
  BY <1>1 DEF Decremented, TypeOK
<1>6. waiting' \in [Paths -> Nat]
  BY <1>1, <1>5 DEF Decremented, TypeOK
\* The heart of the matter: the count loses one exactly when the set of the
\* owners an object waits for does.
<1>7. ASSUME NEW o \in Scoped(phase)
      PROVE  /\ waiting'[o] = Cardinality(Filed(o) \ created')
             /\ o \in dependents[curr] => waiting[o] # 0
  <2>1. o \in Paths
    BY ScopedFacts, <1>1 DEF Active
  <2>2. Filed(o) \ created' = (Filed(o) \ created) \ {curr}
    BY <1>1
  <2>3. /\ IsFiniteSet(Filed(o) \ created)
        /\ Cardinality(Filed(o) \ created) \in Nat
    <3>1. Filed(o) \ created \subseteq archive.owners[o]
      BY <1>1 DEF GraphExact
    <3> QED
      BY <2>1, <3>1, FiniteOwners
  <2>4. waiting[o] = Cardinality(Filed(o) \ created)
    BY <1>1 DEF CountExact
  <2>5. Cardinality(Filed(o) \ created') =
          IF curr \in Filed(o) \ created THEN waiting[o] - 1 ELSE waiting[o]
    BY <2>2, <2>3, <2>4, FS_RemoveElement
  <2>6. o \in dependents[curr] <=> curr \in Filed(o) \ created
    BY <1>2, <1>4, <2>1
  <2>7. curr \in Filed(o) \ created => waiting[o] > 0 /\ waiting[o] # 0
    BY <2>3, <2>4, FS_EmptySet
  <2> QED
    BY <1>5, <2>1, <2>5, <2>6, <2>7
<1>8. rel = {o \in dependents[curr] : waiting'[o] = 0}
  BY <1>1 DEF Released, IsReady
<1>9. dependents[curr] \subseteq Scoped(phase)
  BY <1>1, <1>2 DEF GraphExact
<1>10. rel \subseteq Scoped(phase) /\ rel \subseteq Paths
  BY <1>8, <1>9, ScopedFacts
<1>11. rel \cap (Elems(toRestore) \cup attempted) = {}
  <2> SUFFICES ASSUME NEW o \in rel
               PROVE  o \notin Elems(toRestore) \cup attempted
    OBVIOUS
  <2>1. o \in Scoped(phase) /\ o \in dependents[curr]
    BY <1>8, <1>9
  <2>2. waiting[o] # 0
    BY <1>7, <2>1
  <2> QED
    BY <1>1, <2>1, <2>2 DEF QueueExact
<1>12. PICK ready \in SetToSeqs(rel) : toRestore' = Tail(toRestore) \o ready
  BY DEF Restored
<1>13. ready \in Seq(Paths) /\ Elems(ready) = rel /\ Distinct(ready)
  <2>1. IsFiniteSet(rel)
    BY <1>10, GraphAssumption, FS_Subset
  <2>2. ready \in Seq(rel) /\ Elems(ready) = rel /\ Distinct(ready)
    BY <1>12, <2>1, PermElems
  <2> QED
    BY <1>10, <2>2
<1> HIDE DEF rel
<1>14. /\ toRestore' \in Seq(Paths)
       /\ Elems(toRestore') = (Elems(toRestore) \ {curr}) \cup rel
       /\ Distinct(toRestore')
  <2>1. Elems(Tail(toRestore)) \cap Elems(ready) = {}
    BY <1>2, <1>11, <1>13
  <2>2. /\ Tail(toRestore) \o ready \in Seq(Paths)
        /\ Elems(Tail(toRestore) \o ready) = Elems(Tail(toRestore)) \cup Elems(ready)
        /\ Distinct(Tail(toRestore) \o ready)
    BY <1>2, <1>13, <2>1, ConcatElems
  <2> QED
    BY <1>2, <1>12, <1>13, <2>2
<1>15. TypeOK'
  BY <1>1, <1>2, <1>6, <1>14 DEF TypeOK
<1>16. CountExact'
  <2>1. \A o \in Scoped(phase) : waiting'[o] = Cardinality(Filed(o)' \ created')
    BY <1>1, <1>4, <1>7, ScopedFacts DEF Active
  <2>2. phase = "cluster" => \A o \in Scoped("namespaced") : waiting'[o] = 0
    BY <1>5, ScopedFacts DEF CountExact
  <2> QED
    BY <1>1, <1>3, <2>1, <2>2 DEF CountExact, Active
<1>17. QueueExact'
  <2>1. /\ Elems(toRestore') \subseteq Scoped(phase)
        /\ Elems(toRestore') \cap attempted' = {}
    BY <1>1, <1>2, <1>10, <1>11, <1>14 DEF QueueExact
  <2>2. ASSUME NEW o \in Scoped(phase)
        PROVE  waiting'[o] = 0 <=> o \in Elems(toRestore') \cup attempted'
    <3>1. o \in Paths
      BY ScopedFacts, <1>1 DEF Active
    <3>2. waiting[o] = 0 <=> o \in Elems(toRestore) \cup attempted
      BY <1>1 DEF QueueExact
    <3>3. CASE o \in dependents[curr]
      <4>1. o \notin Elems(toRestore) \cup attempted
        BY <1>7, <3>2, <3>3
      <4>2. o # curr
        BY <1>2, <4>1
      <4>3. waiting'[o] = 0 <=> o \in rel
        BY <1>8, <3>3
      <4> QED
        BY <1>1, <1>14, <4>1, <4>2, <4>3
    <3>4. CASE o \notin dependents[curr]
      <4>1. waiting'[o] = waiting[o] /\ o \notin rel
        BY <1>5, <1>8, <3>1, <3>4
      <4> QED
        BY <1>1, <1>2, <1>14, <3>2, <4>1
    <3> QED
      BY <3>3, <3>4
  <2> QED
    BY <1>1, <1>3, <1>14, <2>1, <2>2 DEF QueueExact
<1>18. Stages' /\ OwnersFirst' /\ PastPhases' /\ GraphExact'
  BY <1>1, TurnInv
<1> QED
  BY <1>15, <1>16, <1>17, <1>18

-----------------------------------------------------------------------------
(* EndPhase                                                                *)

\* An object that waits for no owner has been tried when the list is empty.
LEMMA NoneLeftBehind ==
  ASSUME IInv, Active, toRestore = <<>>, NEW o \in Scoped(phase) \ attempted
  PROVE  ~(archive.owners[o] \subseteq created)
<1> USE DEF IInv
<1>1. waiting[o] # 0
  BY EmptyElems DEF QueueExact
<1>2. waiting[o] = Cardinality(Filed(o) \ created)
  BY DEF CountExact
<1>3. Filed(o) \ created # {}
  BY <1>1, <1>2, FS_EmptySet
<1> QED
  BY <1>3 DEF GraphExact

LEMMA EndPhaseInv == ASSUME IInv, EndPhase PROVE IInv'
<1> USE DEF IInv
<1>1. /\ Active /\ toRestore = <<>>
      /\ UNCHANGED <<archive, ignoreErrors, live, created, waiting, dependents, toRestore,
                     dropped, attempted, failed>>
      /\ \/ phase' = "aborted" /\ step' = "create"
         \/ phase = "cluster" /\ phase' = "namespaced" /\ step' = "generate"
         \/ phase = "namespaced" /\ phase' = "done" /\ step' = "create"
  BY DEF EndPhase, Active, graph, given
<1>2. \A p : Scoped(p)' = Scoped(p)
  BY <1>1 DEF Scoped
<1>3. TypeOK'
  BY <1>1 DEF TypeOK
<1>4. Stages' /\ GraphExact' /\ OwnersFirst'
  BY <1>1 DEF Stages, GraphExact, OwnersFirst, Active
<1>5. CountExact'
  BY <1>1, <1>2 DEF CountExact, Active
<1>6. QueueExact'
  BY <1>1, EmptyElems DEF QueueExact, Active
<1>7. PastPhases'
  BY <1>1, <1>2, NoneLeftBehind DEF PastPhases
<1> QED
  BY <1>3, <1>4, <1>5, <1>6, <1>7

-----------------------------------------------------------------------------
(* The theorems                                                            *)

LEMMA NextInv == IInv /\ [Next]_vars => IInv'
<1> SUFFICES ASSUME IInv, [Next]_vars PROVE IInv'
  OBVIOUS
<1>1. CASE RestoreNext
  BY <1>1, TurnFacts, RestoredInv, NotRestoredInv
<1>2. CASE UNCHANGED vars
  <2>1. UNCHANGED <<archive, ignoreErrors, live, phase, step, created, waiting, dependents,
                    toRestore, dropped, attempted, failed>>
    BY <1>2 DEF vars, graph, given
  <2> QED
    BY <2>1 DEF IInv, TypeOK, Stages, GraphExact, CountExact, QueueExact,
                OwnersFirst, PastPhases, Active, Filed, Scoped
<1> QED
  BY <1>1, <1>2, GenerateInv, EndPhaseInv DEF Next

LEMMA Invariance == Spec => []IInv
  BY InitInv, NextInv, PTL DEF Spec

\* Every reachable state has the types of TypeOK; in particular no count
\* ever falls below zero.
THEOREM TypeCorrect == Spec => []TypeOK
  BY Invariance, PTL DEF IInv

\* Whatever the archive, a dependent is restored after all of its owners.
THEOREM OwnersComeFirst == Spec => []OwnersFirst
  BY Invariance, PTL DEF IInv

\* No object is ever on the work list twice or put back on it.
THEOREM NoneQueuedTwice == Spec => []QueuedOnce
<1>1. IInv => QueuedOnce
  BY DEF IInv, QueueExact, QueuedOnce, Elems, Distinct
<1> QED
  BY <1>1, Invariance, PTL

\* An object that was left behind has an owner that was not restored.
THEOREM LeftBehindExplained == Spec => []LeftBehindHasCause
<1>1. IInv => LeftBehindHasCause
  <2> SUFFICES ASSUME IInv, NEW p \in {"cluster", "namespaced"}, Finished(p),
                      NEW o \in Scoped(p) \ attempted
               PROVE  ~(archive.owners[o] \subseteq created)
    BY DEF LeftBehindHasCause
  <2>1. CASE phase = "done" \/ (p = "cluster" /\ phase = "namespaced")
    BY <2>1 DEF IInv, PastPhases
  <2>2. CASE p = phase /\ step = "create" /\ toRestore = <<>>
    BY <2>2, NoneLeftBehind DEF Active
  <2> QED
    BY <2>1, <2>2 DEF Finished
<1> QED
  BY <1>1, Invariance, PTL

\* A restore of a well-formed archive that ends without an error has restored
\* every object but Rancher's own Deployments.
THEOREM WellFormedWhole == Spec => []WellFormedRestoredWhole
<1>1. IInv => WellFormedRestoredWhole
  <2> SUFFICES ASSUME IInv, phase = "done", failed = {}, WellFormed,
                      archive.objects \ (archive.rancher \cup created) # {}
               PROVE  FALSE
    BY DEF WellFormedRestoredWhole
  <2> DEFINE S == archive.objects \ (archive.rancher \cup created)
  <2>1. PICK o \in S : archive.owners[o] \cap S = {}
    BY DEF WellFormed
  <2>2. archive.owners[o] \subseteq created
    BY <2>1 DEF WellFormed, IInv, Stages
  <2>3. o \in Scoped("cluster") \/ o \in Scoped("namespaced")
    <3>1. o \in archive.objects \ archive.rancher /\ archive.objects \subseteq Paths
      BY <2>1, ScopedFacts DEF IInv
    <3> QED
      BY <3>1 DEF Scoped, Paths
  <2>4. o \in attempted
    BY <2>2, <2>3 DEF IInv, PastPhases
  <2>5. attempted \subseteq created
    BY DEF IInv, Stages
  <2> QED
    BY <2>1, <2>4, <2>5
<1> QED
  BY <1>1, Invariance, PTL
=============================================================================
