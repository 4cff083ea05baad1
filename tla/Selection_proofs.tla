-------------------------- MODULE Selection_proofs --------------------------
(* Proofs about what a ResourceSet selects: ResourceGathering, for any     *)
(* cluster, any ResourceSet and any number of changes while it is          *)
(* gathered; and BroTool, which answers what would be selected, for any    *)
(* chart and any number of runs.                                           *)
EXTENDS ResourceGathering, BroTool, TLAPS

(***************************************************************************)
(* Types.  A list returns objects only, and the selector at work is one of *)
(* the ResourceSet's until all have been at work.                          *)
(***************************************************************************)
InSelector == pc \in {"discover", "kinds", "list", "get"}

TypeInv ==
  /\ TypeOK
  /\ InSelector => index <= Len(Selectors)
  /\ pc = "list" => unread \subseteq Objects

\* A page is a part of what there is to return.
LEMMA PageIsPart == ASSUME NEW S, NEW p \in Page(S) PROVE p \subseteq S
  BY DEF Page

\* The selectors are counted from one.
LEMMA LenIsNat ==
  /\ Len(Selectors) \in Nat
  /\ Selectors # <<>> => Len(Selectors) > 0
<1>1. Selectors \in Seq(ResourceSelector)
  BY GatherAssumption
<1>2. QED
  BY <1>1

\* The initial state is well typed, with a ResourceSet without selectors too.
LEMMA InitType == Init => TypeInv
  BY LenIsNat, GatherAssumption DEF Init, TypeInv, TypeOK, InSelector

\* Every step keeps the types.
LEMMA NextType == TypeInv /\ [Next]_vars => TypeInv'
<1> SUFFICES ASSUME TypeInv, [Next]_vars PROVE TypeInv'
  OBVIOUS
<1> USE LenIsNat DEF TypeInv, TypeOK, InSelector, cluster, call
<1>1. CASE UNCHANGED vars
  BY <1>1 DEF vars
<1>2. CASE Fail
  BY <1>2 DEF Fail
<1>3. CASE Discover
  BY <1>3 DEF Discover, Discovered
<1>4. CASE NextSelector
  BY <1>4 DEF NextSelector
<1>5. CASE Write
  BY <1>5 DEF Write
<1>6. CASE ListNext
  BY <1>6, PageIsPart DEF ListNext
<1>7. CASE EndList
  BY <1>7 DEF EndList
<1>8. CASE GetNext
  BY <1>8 DEF GetNext
<1>9. CASE EndGet
  BY <1>9 DEF EndGet
<1>10. ASSUME NEW k \in Kinds, Skip(k) PROVE TypeInv'
  BY <1>10 DEF Skip
<1>11. ASSUME NEW k \in Kinds, ListFirst(k) PROVE TypeInv'
  <2>1. Found(Selector, k) \subseteq Objects
    BY DEF Found
  <2>2. listed' \subseteq Objects /\ unread' \subseteq Objects
    BY <1>11, <2>1, PageIsPart DEF ListFirst
  <2>3. QED
    BY <1>11, <2>2 DEF ListFirst
<1>12. ASSUME NEW k \in Kinds, GetFirst(k) PROVE TypeInv'
  BY <1>12 DEF GetFirst
<1>13. CASE Change
  BY <1>13, GatherAssumption DEF Change
<1>14. QED
  BY <1>1, <1>2, <1>3, <1>4, <1>5, <1>6, <1>7, <1>8, <1>9, <1>10, <1>11,
     <1>12, <1>13 DEF Next, Gather

LEMMA TypeInvariant == Spec => []TypeInv
  BY InitType, NextType, PTL DEF Spec

\* All variables keep their types.
THEOREM TypeCorrect == Spec => []TypeOK
  BY TypeInvariant, PTL DEF TypeInv

(***************************************************************************)
(* What is gathered was selected.  Inductively: the kinds still to be      *)
(* gathered pass the selector's filter, and what a call has returned, or   *)
(* will return, is what the selector asks for and existed at some time.    *)
(***************************************************************************)
Sound(o) == o \in seen /\ Selected(o)

\* The kind at work is one the selector selects.
KindAtWork(k) ==
  Group[k] = Selector.group /\ KindSelected(Selector, k)

SoundInv ==
  /\ live \subseteq seen
  /\ \A o \in Objects : gathered[o] > 0 => Sound(o)
  /\ \A o \in archive : Sound(o)
  /\ pc \in {"kinds", "list", "get"} => \A k \in todo : KindAtWork(k)
  /\ pc \in {"list", "get"} => KindAtWork(kind) /\ kind \notin Subresources
  /\ pc = "list" =>
       /\ "list" \in Verbs[kind]
       /\ \A o \in listed \cup unread :
            o \in seen /\ o.kind = kind /\ o \in Selector.matching
  /\ pc = "get" =>
       /\ Verbs[kind] \cap {"list", "get"} = {"get"}
       /\ unread \subseteq Named(Selector, kind)
       /\ listed \subseteq Named(Selector, kind) \cap seen

\* What the filters of the selector at work let through is selected.
LEMMA FilteredIsSound ==
  ASSUME TypeInv, SoundInv, pc = "list", NEW o \in Filtered
  PROVE  Sound(o)
<1>1. /\ o \in seen /\ o.kind = kind /\ o \in Selector.matching
      /\ NameSelected(Selector, o.name) /\ NamespaceSelected(Selector, o)
  BY DEF SoundInv, Filtered
<1>2. Selects(Selector, o)
  BY <1>1 DEF Selects, SoundInv, KindAtWork
<1>3. index \in 1..Len(Selectors)
  BY LenIsNat DEF TypeInv, TypeOK, InSelector
<1>4. QED
  BY <1>1, <1>2, <1>3 DEF Sound, Selected, Selector

\* What is got by name is selected.
LEMMA GotIsSound ==
  ASSUME TypeInv, SoundInv, pc = "get", NEW o \in listed
  PROVE  o.kind = kind /\ Sound(o)
<1>1. o \in Named(Selector, kind) /\ o \in seen
  BY DEF SoundInv
<1>2. o.kind = kind
  BY <1>1 DEF Named
<1>3. Selects(Selector, o)
  BY <1>1, <1>2 DEF Selects, SoundInv, KindAtWork
<1>4. index \in 1..Len(Selectors)
  BY LenIsNat DEF TypeInv, TypeOK, InSelector
<1>5. QED
  BY <1>1, <1>2, <1>3, <1>4 DEF Sound, Selected, Selector

\* A step of the gathering keeps what is gathered selected.
LEMMA GatherKeepsSound ==
  ASSUME TypeInv, SoundInv, Gather PROVE SoundInv'
<1> USE DEF cluster, call
<1>0. UNCHANGED <<live, seen>> /\ \A o \in Objects : Sound(o) => Sound(o)'
  BY DEF Gather, Fail, Discover, NextSelector, Write, ListNext, EndList, GetNext,
         EndGet, Skip, ListFirst, GetFirst, Sound
<1>1. CASE Fail
  BY <1>1, <1>0 DEF Fail, SoundInv, Sound
<1>2. CASE Discover
  BY <1>2, <1>0 DEF Discover, Discovered, SoundInv, Sound, KindAtWork, Selector
<1>3. CASE NextSelector
  BY <1>3, <1>0 DEF NextSelector, SoundInv, Sound
<1>4. CASE Write
  BY <1>4, <1>0 DEF Write, SoundInv, Sound
<1>5. CASE ListNext
  BY <1>5, <1>0, PageIsPart DEF ListNext, SoundInv, Sound, KindAtWork, Selector
<1>6. CASE EndList
  <2>1. \A o \in Objects : gathered'[o] > 0 => o \in Filtered \/ gathered[o] > 0
    BY <1>6 DEF EndList
  <2>2. \A o \in Filtered : Sound(o)
    BY <1>6, FilteredIsSound DEF EndList
  <2>3. \A o \in Objects : gathered'[o] > 0 => Sound(o)'
    BY <2>1, <2>2, <1>0 DEF SoundInv
  <2>4. QED
    BY <1>6, <2>3, <1>0 DEF EndList, SoundInv, Sound, KindAtWork, Selector
<1>7. CASE GetNext
  BY <1>7, <1>0 DEF GetNext, SoundInv, Sound, KindAtWork, Selector
<1>8. CASE EndGet
  <2>1. \A o \in Objects : gathered'[o] > 0 => o \in listed \/ gathered[o] > 0
    BY <1>8 DEF EndGet
  <2>2. \A o \in listed : Sound(o)
    BY <1>8, GotIsSound DEF EndGet
  <2>3. \A o \in Objects : gathered'[o] > 0 => Sound(o)'
    BY <2>1, <2>2, <1>0 DEF SoundInv
  <2>4. QED
    BY <1>8, <2>3, <1>0 DEF EndGet, SoundInv, Sound, KindAtWork, Selector
<1>9. ASSUME NEW k \in Kinds, Skip(k) PROVE SoundInv'
  BY <1>9, <1>0 DEF Skip, SoundInv, Sound, KindAtWork, Selector
<1>10. ASSUME NEW k \in Kinds, ListFirst(k) PROVE SoundInv'
  <2>1. \A o \in Found(Selector, k) :
          o \in seen /\ o.kind = k /\ o \in Selector.matching
    BY DEF Found, SoundInv
  <2>2. listed' \cup unread' \subseteq Found(Selector, k)
    BY <1>10, PageIsPart DEF ListFirst
  <2>3. QED
    BY <1>10, <1>0, <2>1, <2>2 DEF ListFirst, SoundInv, Sound, KindAtWork, Selector
<1>11. ASSUME NEW k \in Kinds, GetFirst(k) PROVE SoundInv'
  BY <1>11, <1>0 DEF GetFirst, SoundInv, Sound, KindAtWork, Selector
<1>12. QED
  BY <1>1, <1>2, <1>3, <1>4, <1>5, <1>6, <1>7, <1>8, <1>9, <1>10, <1>11 DEF Gather

\* So does a change of the cluster.
LEMMA NextKeepsSound == TypeInv /\ SoundInv /\ [Next]_vars => SoundInv'
<1>1. ASSUME SoundInv, Change PROVE SoundInv'
  BY <1>1 DEF Change, SoundInv, Sound, KindAtWork, Selector, call
<1>2. ASSUME SoundInv, UNCHANGED vars PROVE SoundInv'
  BY <1>2 DEF vars, cluster, call, SoundInv, Sound, KindAtWork, Selector
<1>3. QED
  BY <1>1, <1>2, GatherKeepsSound DEF Next

LEMMA SoundInvariant == Spec => []SoundInv
<1>1. Init => SoundInv
  BY DEF Init, SoundInv
<1>2. QED
  BY <1>1, NextKeepsSound, TypeInvariant, PTL DEF Spec

\* An archive holds only what is selected and existed while it was made.
THEOREM ArchiveIsSelected == Spec => []OnlySelected
<1>1. SoundInv => OnlySelected
  BY DEF SoundInv, OnlySelected, Sound
<1>2. QED
  BY <1>1, SoundInvariant, PTL

(***************************************************************************)
(* Nothing that existed all the time is missed, except what is got by name *)
(* and replaced.  Inductively: an object some selector selects is gathered *)
(* once that selector is through with the object's kind, and while it is   *)
(* at work on the kind the object is among what a call has returned or     *)
(* will return.                                                            *)
(***************************************************************************)
\* Selector i is through with kind k.
Through(i, k) ==
  \/ i < index
  \/ i = index /\ pc = "kinds" /\ k \notin todo
  \/ i = index /\ pc \in {"list", "get"} /\ k \notin todo \cup {kind}

CompleteInv ==
  /\ stayed \subseteq live
  /\ \A i \in 1..Len(Selectors), o \in stayed :
       Stands(i, o) /\ Through(i, o.kind) => gathered[o] > 0
  /\ pc \in {"list", "get"} =>
       \A o \in stayed : Selects(Selector, o) /\ o.kind = kind =>
                          o \in listed \cup unread
  /\ pc \in {"write", "done"} => index > Len(Selectors)
  /\ pc = "done" => \A o \in Objects : gathered[o] > 0 => o \in archive

\* A step of the gathering forgets nothing.
LEMMA GatherKeepsComplete ==
  ASSUME TypeInv, SoundInv, CompleteInv, Gather
  PROVE  CompleteInv'
<1> USE LenIsNat DEF cluster, call, TypeInv, TypeOK, InSelector
<1>s. \A i, o : Stands(i, o) => Selects(Selectors[i], o)
  BY DEF Stands
<1>0. UNCHANGED <<live, stayed>> /\ stayed \subseteq Objects
  BY DEF Gather, Fail, Discover, NextSelector, Write, ListNext, EndList, GetNext,
         EndGet, Skip, ListFirst, GetFirst
<1>1. CASE Fail
  BY <1>1, <1>0 DEF Fail, CompleteInv, Through
<1>2. CASE Discover
  <2>1. ASSUME NEW o \in stayed, Selects(Selector, o) PROVE o.kind \in todo'
    BY <1>0, <1>2, <2>1, GatherAssumption DEF Discover, Discovered, Selects
  <2>2. ASSUME NEW i \in 1..Len(Selectors), NEW o \in stayed,
               Stands(i, o), Through(i, o.kind)'
        PROVE  gathered'[o] > 0
    BY <1>0, <1>s, <1>2, <2>1, <2>2 DEF Discover, CompleteInv, Through, Selector
  <2>3. QED
    BY <1>0, <1>2, <2>2 DEF Discover, CompleteInv, Selector
<1>3. CASE NextSelector
  <2>1. ASSUME NEW i \in 1..Len(Selectors), NEW o \in stayed,
               Stands(i, o), Through(i, o.kind)'
        PROVE  gathered'[o] > 0
    BY <1>0, <1>3, <2>1 DEF NextSelector, CompleteInv, Through
  <2>2. QED
    BY <1>0, <1>3, <2>1 DEF NextSelector, CompleteInv
<1>4. CASE Write
  BY <1>4, <1>0 DEF Write, CompleteInv, Through
<1>5. CASE ListNext
  BY <1>5, <1>0 DEF ListNext, CompleteInv, Through, Selector
<1>6. CASE EndList
  <2>1. ASSUME NEW i \in 1..Len(Selectors), NEW o \in stayed,
               Stands(i, o), Through(i, o.kind)'
        PROVE  gathered'[o] > 0
    <3>1. CASE Through(i, o.kind)
      BY <1>0, <1>6, <2>1, <3>1 DEF EndList, CompleteInv
    <3>2. CASE i = index /\ o.kind = kind
      <4>1. o \in listed
        BY <1>6, <1>s, <2>1, <3>2 DEF EndList, CompleteInv, Selector
      <4>2. NameSelected(Selector, o.name) /\ NamespaceSelected(Selector, o)
        BY <1>6, <1>s, <2>1, <3>2 DEF EndList, SoundInv, Selects, Selector
      <4>3. QED
        BY <1>0, <1>6, <4>1, <4>2 DEF EndList, Filtered
    <3>3. QED
      BY <1>6, <2>1, <3>1, <3>2 DEF EndList, Through
  <2>2. QED
    BY <1>0, <1>6, <2>1 DEF EndList, CompleteInv
<1>7. CASE GetNext
  BY <1>7, <1>0 DEF GetNext, CompleteInv, Through, Selector
<1>8. CASE EndGet
  <2>1. ASSUME NEW i \in 1..Len(Selectors), NEW o \in stayed,
               Stands(i, o), Through(i, o.kind)'
        PROVE  gathered'[o] > 0
    <3>1. CASE o.kind # kind
      BY <1>0, <1>8, <2>1, <3>1 DEF EndGet, CompleteInv, Through
    <3>2. CASE o.kind = kind
      <4>1. /\ KindAtWork(kind) /\ "list" \notin Verbs[kind]
            /\ index \in 1..Len(Selectors)
        BY <1>8 DEF EndGet, SoundInv
      <4>2. i <= index
        BY <1>8, <2>1 DEF EndGet, Through
      <4>3. i = index
        <5>1. \A j \in (i + 1)..Len(Selectors) : ~Asks(Selectors[j], kind)
          BY <2>1, <3>2, <4>1 DEF Stands
        <5>2. Asks(Selectors[index], kind)
          BY <4>1 DEF KindAtWork, Asks, Selector
        <5>3. QED
          BY <4>1, <4>2, <5>1, <5>2
      <4>4. o \in listed
        BY <1>8, <1>s, <2>1, <3>2, <4>3 DEF EndGet, CompleteInv, Selector
      <4>5. QED
        BY <1>0, <1>8, <3>2, <4>4 DEF EndGet
    <3>3. QED
      BY <3>1, <3>2
  <2>2. QED
    BY <1>0, <1>8, <2>1 DEF EndGet, CompleteInv
<1>9. ASSUME NEW k \in Kinds, Skip(k) PROVE CompleteInv'
  <2>1. ASSUME NEW o \in stayed, Selects(Selector, o) PROVE o.kind # k
    BY <1>9, <2>1 DEF Skip, Selects
  <2>2. ASSUME NEW i \in 1..Len(Selectors), NEW o \in stayed,
               Stands(i, o), Through(i, o.kind)'
        PROVE  gathered'[o] > 0
    BY <1>0, <1>s, <1>9, <2>1, <2>2 DEF Skip, CompleteInv, Through, Selector
  <2>3. QED
    BY <1>0, <1>9, <2>2 DEF Skip, CompleteInv
<1>10. ASSUME NEW k \in Kinds, ListFirst(k) PROVE CompleteInv'
  <2>1. ASSUME NEW o \in stayed, Selects(Selector, o), o.kind = k
        PROVE  o \in listed' \cup unread'
    BY <1>0, <1>10, <2>1 DEF ListFirst, CompleteInv, Selects, Found
  <2>2. ASSUME NEW i \in 1..Len(Selectors), NEW o \in stayed,
               Stands(i, o), Through(i, o.kind)'
        PROVE  gathered'[o] > 0
    BY <1>0, <1>10, <2>2 DEF ListFirst, CompleteInv, Through
  <2>3. QED
    BY <1>0, <1>10, <2>1, <2>2 DEF ListFirst, CompleteInv, Selector
<1>11. ASSUME NEW k \in Kinds, GetFirst(k) PROVE CompleteInv'
  <2>1. ASSUME NEW o \in stayed, Selects(Selector, o), o.kind = k
        PROVE  o \in unread'
    BY <1>11, <2>1 DEF GetFirst, Selects
  <2>2. ASSUME NEW i \in 1..Len(Selectors), NEW o \in stayed,
               Stands(i, o), Through(i, o.kind)'
        PROVE  gathered'[o] > 0
    BY <1>0, <1>11, <2>2 DEF GetFirst, CompleteInv, Through
  <2>3. QED
    BY <1>0, <1>11, <2>1, <2>2 DEF GetFirst, CompleteInv, Selector
<1>12. QED
  BY <1>1, <1>2, <1>3, <1>4, <1>5, <1>6, <1>7, <1>8, <1>9, <1>10, <1>11 DEF Gather

\* An archive holds every object that existed all the time and that a selector
\* selects, replaced ones apart.
THEOREM ArchiveIsComplete == Spec => []NothingMissed
<1>1. Init => CompleteInv
  BY LenIsNat DEF Init, CompleteInv, Through
<1>2. TypeInv /\ SoundInv /\ CompleteInv /\ [Next]_vars => CompleteInv'
  <2>1. ASSUME TypeInv, CompleteInv, Change PROVE CompleteInv'
    BY <2>1 DEF Change, CompleteInv, Through, Selector, call
  <2>2. ASSUME CompleteInv, UNCHANGED vars PROVE CompleteInv'
    BY <2>2 DEF vars, cluster, call, CompleteInv, Through, Selector
  <2>3. QED
    BY <2>1, <2>2, GatherKeepsComplete DEF Next
<1>3. CompleteInv /\ TypeInv => NothingMissed
  BY LenIsNat DEF CompleteInv, NothingMissed, Through, TypeInv, TypeOK
<1>4. QED
  BY <1>1, <1>2, <1>3, SoundInvariant, TypeInvariant, PTL DEF Spec

-----------------------------------------------------------------------------
(* BroTool                                                                 *)

\* found is a function, and a run that copies has a file and something left to
\* copy.
ToolInv ==
  /\ ToolTypeOK
  /\ found \in [Runs -> SUBSET (chart.always \cup chart.optional)]
  /\ \A r \in Runs :
       /\ place[r] \in {"idle", "parse", "stat", "get", "create"} => written[r] = 0
       /\ place[r] = "copy" => handle[r] \in Runs /\ written[r] < 2

LEMMA ToolInitial == ToolInit => ToolInv
<1> SUFFICES ASSUME ToolInit PROVE ToolInv
  OBVIOUS
<1>1. /\ found \in [Runs -> SUBSET (chart.always \cup chart.optional)]
      /\ \A r \in Runs : found[r] \subseteq chart.always \cup chart.optional
  BY DEF ToolInit
<1>2. \A r \in Runs : asked[r] \in Requests[r]
  BY DEF ToolInit
<1>3. /\ content \in [Runs -> SUBSET Parts] /\ written \in [Runs -> {0, 1, 2}]
      /\ handle \in [Runs -> Runs \cup {Nothing}] /\ exit \in [Runs -> {0, 1}]
  BY DEF ToolInit
<1> QED BY <1>1, <1>2, <1>3 DEF ToolInit, ToolInv, ToolTypeOK, InCache

LEMMA ToolStep ==
  ASSUME ToolInv, [ToolNext]_tool
  PROVE  ToolInv'
<1> USE DEF ToolInv, ToolTypeOK, Goto, Leave, Err, cache, InCache
<1>1. CASE UNCHANGED tool
  BY <1>1 DEF tool
<1> SUFFICES ASSUME NEW r \in Runs, 
                    \/ Start(r) \/ Parse(r) \/ Stat(r) \/ Download(r) \/ Resolve(r)
                    \/ Load(r) \/ Answer(r) \/ Kill(r)
             PROVE  ToolInv'
  BY <1>1 DEF ToolNext
<1>2. CASE Start(r) \/ Kill(r)
  <2>1. excused' \in BOOLEAN
    BY <1>2, Zenon DEF Start, Kill
  <2>2. CASE Start(r)
    BY <2>1, <2>2 DEF Start
  <2>3. CASE Kill(r)
    BY <2>1, <2>3 DEF Kill
  <2> QED BY <1>2, <2>2, <2>3
<1>3. CASE Parse(r)
  BY <1>3 DEF Parse
<1>4. CASE Stat(r) \/ Get(r) \/ Resolve(r) \/ Load(r)
  BY <1>4 DEF Stat, Get, Resolve, Load
<1>5. CASE Create(r)
  <2>1. CASE file' = IF file = Nothing THEN r ELSE file
    <3>1. file' \in Runs
      BY <2>1
    <3> QED BY <1>5, <3>1 DEF Create
  <2> QED BY <1>5, <2>1 DEF Create
<1>6. CASE Copy(r)
  <2>1. handle[r] \in Runs /\ written[r] \in {0, 1}
    BY <1>6 DEF Copy
  <2>2. written'[r] = written[r] + 1 /\ written'[r] \in {1, 2}
        /\ \A q \in Runs \ {r} : written'[q] = written[q]
    BY <1>6, <2>1 DEF Copy
  <2>3. content' \in [Runs -> SUBSET Parts] /\ excused' \in BOOLEAN
    <3>1. CASE content' = [content EXCEPT ![handle[r]] = @ \cup {written'[r]}]
               /\ UNCHANGED excused
      BY <2>1, <2>2, <3>1 DEF Parts
    <3>2. CASE excused' = TRUE /\ UNCHANGED content
      BY <3>2
    <3> QED BY <1>6, <3>1, <3>2 DEF Copy
  <2>4. written' \in [Runs -> {0, 1, 2}]
    BY <1>6, <2>2 DEF Copy
  <2>5. CASE Complete(written'[r]) /\ Goto(r, "resolve")
    BY <1>6, <2>2, <2>3, <2>4, <2>5 DEF Copy
  <2>6. CASE ~Complete(written'[r]) /\ UNCHANGED place
    BY <1>6, <2>2, <2>3, <2>4, <2>6 DEF Copy, Complete
  <2> QED BY <1>6, <2>5, <2>6 DEF Copy
<1>7. CASE CopyFails(r)
  BY <1>7 DEF CopyFails, CleanedUp
<1>8. CASE Answer(r)
  <2> DEFINE rules == Rendered(chart)
  <2>1. \A res : Check(res, rules) \subseteq rules
    BY DEF Check
  <2>2. rules = chart.always \cup chart.optional
    BY DEF Rendered
  <2> HIDE DEF rules
  <2>3. found' \in [Runs -> SUBSET rules]
    <3>1. UNCHANGED found \/ found' = [found EXCEPT ![r] = rules]
          \/ \E res \in ResourceInfo(asked[r].on, asked[r].how) :
               found' = [found EXCEPT ![r] = Check(res, rules)]
      BY <1>8 DEF Answer, rules
    <3>2. found \in [Runs -> SUBSET rules]
      BY <2>2
    <3> HIDE DEF ToolInv, ToolTypeOK
    <3>3. \A S \in SUBSET rules : [found EXCEPT ![r] = S] \in [Runs -> SUBSET rules]
      BY <3>2
    <3> QED BY <2>1, <3>1, <3>2, <3>3
  <2>4. /\ place' = [place EXCEPT ![r] = "exited"] \/ place' = [place EXCEPT ![r] = "failed"]
        /\ exit' \in [Runs -> {0, 1}]
    BY <1>8 DEF Answer
  <2> QED BY <1>8, <2>2, <2>3, <2>4 DEF Answer
<1> QED BY <1>2, <1>3, <1>4, <1>5, <1>6, <1>7, <1>8 DEF Download

\* All variables keep their types.
THEOREM ToolTypeCorrect == ToolSpec => []ToolTypeOK
<1>1. ToolInv => ToolTypeOK
  BY DEF ToolInv
<1> QED BY <1>1, ToolInitial, ToolStep, PTL DEF ToolSpec

\* As long as no two runs overlap, none is killed in its download and every Close
\* succeeds, a chart in the cache is whole, or its run is still at it.
Content(n) == {p \in Parts : p <= n}

CacheInv ==
  ~excused =>
    /\ \A q, r \in Runs : Working(q) /\ Working(r) => q = r
    /\ \A r \in Runs :
         /\ place[r] # "unreadable"
         /\ place[r] = "copy" => /\ file # Nothing /\ handle[r] = file
                                 /\ content[file] = Content(written[r])
         /\ place[r] \in {"resolve", "load"} /\ asked[r].chart # {"path"} =>
              file # Nothing /\ content[file] = Parts
    /\ file # Nothing => content[file] = Parts \/ \E r \in Runs : place[r] = "copy"

LEMMA CacheStep ==
  ASSUME ToolInv, CacheInv, [ToolNext]_tool
  PROVE  CacheInv'
<1> SUFFICES ASSUME ~excused' PROVE CacheInv'
  BY DEF CacheInv
<1> USE DEF ToolInv, ToolTypeOK, Goto, Leave, Err, cache, InCache
<1>1. CASE UNCHANGED tool
  BY <1>1 DEF tool, CacheInv, Working
<1> SUFFICES ASSUME NEW r \in Runs,
                    \/ Start(r) \/ Parse(r) \/ Stat(r) \/ Download(r) \/ Resolve(r)
                    \/ Load(r) \/ Answer(r) \/ Kill(r)
             PROVE  CacheInv'
  BY <1>1 DEF ToolNext
<1>2. ~excused
  BY DEF Start, Parse, Stat, Download, Get, Create, Copy, CopyFails, Resolve, Load,
         Answer, Kill
<1>3. /\ \A q, s \in Runs : Working(q) /\ Working(s) => q = s
      /\ \A q \in Runs :
         /\ place[q] # "unreadable"
         /\ place[q] = "copy" => /\ file # Nothing /\ handle[q] = file
                                 /\ content[file] = Content(written[q])
         /\ place[q] \in {"resolve", "load"} /\ asked[q].chart # {"path"} =>
              file # Nothing /\ content[file] = Parts
      /\ file # Nothing => content[file] = Parts \/ \E q \in Runs : place[q] = "copy"
  BY <1>2 DEF CacheInv
\* Only one run is at work, whatever it does next.
<1>4. \A q \in Runs \ {r} : ~Working(q) /\ place'[q] = place[q]
  <2>1. CASE Start(r)
    BY <2>1 DEF Start
  <2>2. CASE ~Start(r)
    <3>1. Working(r) /\ \A q \in Runs \ {r} : place'[q] = place[q]
      BY <2>2
      DEF Parse, Stat, Download, Get, Create, Copy, CopyFails, Resolve, Load,
          Answer, Kill, Working
    <3> QED BY <1>3, <3>1
  <2> QED BY <2>1, <2>2
<1>5. \A q, s \in Runs : Working(q)' /\ Working(s)' => q = s
  BY <1>4 DEF Working
<1>6. ASSUME place'[r] # "unreadable",
             place'[r] = "copy" => /\ file' # Nothing /\ handle'[r] = file'
                                   /\ content'[file'] = Content(written'[r]),
             place'[r] \in {"resolve", "load"} /\ asked[r].chart # {"path"} =>
               file' # Nothing /\ content'[file'] = Parts,
             file' # Nothing => content'[file'] = Parts \/ place'[r] = "copy",
             asked' = asked
      PROVE  CacheInv'
  BY <1>3, <1>4, <1>5, <1>6 DEF CacheInv, Working
<1>7. file # Nothing => content[file] = Parts \/ place[r] = "copy"
  BY <1>3, <1>4 DEF Working
<1>8. CASE Start(r)
  BY <1>6, <1>7, <1>8 DEF Start
<1>9. CASE Parse(r)
  <2>1. \/ place'[r] \in {"exited", "failed", "stat"}
        \/ place'[r] = "resolve" /\ asked[r].chart = {"path"}
    BY <1>9 DEF Parse
  <2> QED BY <1>6, <1>7, <1>9, <2>1 DEF Parse
<1>10. CASE Stat(r)
  BY <1>6, <1>7, <1>10 DEF Stat
<1>11. CASE Get(r)
  BY <1>6, <1>7, <1>11 DEF Get
<1>12. CASE Create(r)
  <2>1. CASE Err(r) /\ UNCHANGED <<file, content, handle>>
    BY <1>6, <1>7, <1>12, <2>1 DEF Create
  <2>2. CASE /\ file' = IF file = Nothing THEN r ELSE file
             /\ content' = [content EXCEPT ![file'] = {}]
             /\ handle' = [handle EXCEPT ![r] = file']
             /\ Goto(r, "copy")
    <3>1. file' \in Runs /\ file' # Nothing
      BY <2>2, ToolAssumption
    <3>2. content'[file'] = {} /\ handle'[r] = file' /\ place'[r] = "copy"
      BY <2>2, <3>1
    <3>3. written'[r] = 0 /\ asked' = asked
      BY <1>12 DEF Create
    <3>4. Content(0) = {}
      BY DEF Content, Parts
    <3> QED BY <1>6, <3>1, <3>2, <3>3, <3>4
  <2> QED BY <1>12, <2>1, <2>2 DEF Create
<1>13. CASE Copy(r)
  <2>1. /\ place[r] = "copy" /\ handle[r] = file /\ file \in Runs /\ file # Nothing
        /\ content[file] = Content(written[r])
        /\ written[r] \in {0, 1} /\ UNCHANGED <<asked, file, handle>>
    BY <1>3, <1>13 DEF Copy
  <2>2. written'[r] = written[r] + 1 /\ content'[file] = content[file] \cup {written'[r]}
    BY <1>13, <2>1 DEF Copy
  <2>3. content'[file] = Content(written'[r])
    BY <2>1, <2>2 DEF Content, Parts
  <2>4. CASE Complete(written'[r]) /\ Goto(r, "resolve")
    <3>1. Content(written'[r]) = Parts
      BY <2>4 DEF Complete, Content, Parts
    <3> QED BY <1>6, <2>1, <2>3, <2>4, <3>1
  <2>5. CASE UNCHANGED place
    BY <1>6, <2>1, <2>3, <2>5
  <2> QED BY <1>13, <2>4, <2>5 DEF Copy
<1>14. CASE CopyFails(r)
  BY <1>6, <1>14 DEF CopyFails, CleanedUp
<1>15. CASE Resolve(r)
  BY <1>3, <1>6, <1>7, <1>15 DEF Resolve
<1>16. CASE Load(r)
  BY <1>3, <1>6, <1>7, <1>16 DEF Load, Readable
<1>17. CASE Answer(r)
  <2>1. place'[r] \in {"exited", "failed"} /\ place[r] = "answer"
    BY <1>17 DEF Answer
  <2> QED BY <1>6, <1>7, <1>17, <2>1 DEF Answer
<1>18. CASE Kill(r)
  BY <1>2, <1>6, <1>7, <1>18 DEF Kill
<1> QED
  BY <1>8, <1>9, <1>10, <1>11, <1>12, <1>13, <1>14, <1>15, <1>16, <1>17, <1>18
  DEF Download

\* A run finds no chart or half a chart only if a run was killed in its download,
\* its Close failed, or two worked at a time.
THEOREM HalfAChartForCause == ToolSpec => []UnreadableForCause
<1>1. ToolInit => ToolInv /\ CacheInv
  BY ToolInitial DEF ToolInit, CacheInv, Working
<1>2. ToolInv /\ CacheInv /\ [ToolNext]_tool => ToolInv' /\ CacheInv'
  BY ToolStep, CacheStep
<1>3. CacheInv => UnreadableForCause
  BY DEF CacheInv, UnreadableForCause
<1> QED BY <1>1, <1>2, <1>3, PTL DEF ToolSpec

\* The candidates for a regular kind that is given are its kind, the lower case
\* and the name of its resources, ...
LEMMA Candidates ==
  ASSUME NEW k \in Regular
  PROVE  /\ KindCandidates(Word(k, "kind")) =
              {Word(k, "kind"), Word(k, "lower"), Word(k, "name")}
         /\ Lower(Word(k, "kind")) = Word(k, "lower")
         /\ Lower(Word(k, "lower")) = Word(k, "lower")
         /\ Lower(Word(k, "name")) = Word(k, "name")
<1>1. /\ Lower(Word(k, "kind")) = Word(k, "lower")
      /\ Lower(Word(k, "lower")) = Word(k, "lower")
      /\ Lower(Word(k, "name")) = Word(k, "name")
  BY DEF Lower, Word
<1>2. ~EndsInS(Word(k, "lower")) /\ WithS(Word(k, "lower")) = Word(k, "name")
  BY CheckAssumption DEF EndsInS, WithS, Word
<1>3. {WithS(v) : v \in {u \in {Lower(Word(k, "kind"))} : ~EndsInS(u)}} = {Word(k, "name")}
  BY <1>1, <1>2
<1> QED BY <1>1, <1>3 DEF KindCandidates

\* ... of which, in rules with the words of discovery, the two discovery has
\* meet the same as all three.
LEMMA MeetsOwn ==
  ASSUME NEW k \in Regular, NEW S,
         \A w \in S : w \in {Word(w.kind, "kind"), Word(w.kind, "name")}
  PROVE  Meet(KindCandidates(Word(k, "kind")), S)
           <=> {Word(k, "kind"), Word(k, "name")} \cap S # {}
<1> DEFINE own == {Word(k, "kind"), Word(k, "name")}
           all == {Word(k, "kind"), Word(k, "lower"), Word(k, "name")}
<1>1. ASSUME NEW t \in S, NEW c \in all, Lower(c) = Lower(t) PROVE t \in own
  <2>1. Lower(c) \in {Word(k, "lower"), Word(k, "name")}
    BY Candidates
  <2>2. CASE t = Word(t.kind, "kind")
    <3>1. Lower(t) = Word(t.kind, "lower")
      BY <2>2 DEF Lower, Word
    <3>2. t.kind = k
      BY <1>1, <2>1, <3>1 DEF Word
    <3> QED BY <2>2, <3>2
  <2>3. CASE t = Word(t.kind, "name")
    <3>1. Lower(t) = t
      BY <2>3 DEF Lower, Word
    <3>2. t.kind = k
      BY <1>1, <2>1, <2>3, <3>1 DEF Word
    <3> QED BY <2>3, <3>2
  <2> QED BY <2>2, <2>3
<1>2. Meet(all, S) => own \cap S # {}
  BY <1>1 DEF Meet
<1>3. own \cap S # {} => Meet(all, S)
  BY DEF Meet
<1> QED BY <1>2, <1>3, Candidates

\* A regular expression that matches a word of the kind matches one of those.
LEMMA MatchesOwn ==
  ASSUME NEW k \in Regular, NEW R,
         \A p \in R : \A w \in p : {Word(w.kind, "kind"), Word(w.kind, "name")} \cap p # {}
  PROVE  (\E c \in KindCandidates(Word(k, "kind")) : MatchesAny(c, R))
           <=> \E w \in {Word(k, "kind"), Word(k, "name")} : MatchesAny(w, R)
<1>1. ASSUME NEW p \in R, NEW c \in {Word(k, "kind"), Word(k, "lower"), Word(k, "name")},
             c \in p
      PROVE  \E w \in {Word(k, "kind"), Word(k, "name")} : w \in p
  <2>1. c.kind = k
    BY DEF Word
  <2> QED BY <1>1, <2>1
<1> QED BY <1>1, Candidates DEF MatchesAny

\* The kind of a resource is matched as it is selected.
LEMMA SameKinds ==
  ASSUME NEW o \in Resources, o.kind \in Regular, NEW s, WellSpelled(s),
         OwnWords(o) \cap s.kinds = {} \/ OwnWords(o) \cap s.excludeKinds = {},
         NEW res, res.kind = Word(o.kind, "kind")
  PROVE  MatchesKind(res, s) <=> KindGathered(o, s)
<1> DEFINE candidates == KindCandidates(res.kind)
<1>1. /\ \A w \in s.kinds : w \in {Word(w.kind, "kind"), Word(w.kind, "name")}
      /\ \A w \in s.excludeKinds : w \in {Word(w.kind, "kind"), Word(w.kind, "name")}
      /\ \A p \in s.kindsRegexp : \A w \in p :
           {Word(w.kind, "kind"), Word(w.kind, "name")} \cap p # {}
  BY DEF WellSpelled
<1>2. Meet(candidates, s.kinds) <=> OwnWords(o) \cap s.kinds # {}
  BY <1>1, MeetsOwn DEF OwnWords
<1>3. Meet(candidates, s.excludeKinds) <=> OwnWords(o) \cap s.excludeKinds # {}
  BY <1>1, MeetsOwn DEF OwnWords
<1>4. (\E c \in candidates : MatchesAny(c, s.kindsRegexp))
        <=> \E w \in OwnWords(o) : MatchesAny(w, s.kindsRegexp)
  BY <1>1, MatchesOwn DEF OwnWords
<1> QED BY <1>2, <1>3, <1>4 DEF MatchesKind, KindGathered

\* What the tool makes of a description it can compare.
LEMMA Described ==
  ASSUME NEW q, NEW s, q.on \in Resources, Comparable(q, s),
         NEW res \in ResourceInfo(q.on, q.how)
  PROVE  /\ res.av = q.on.av /\ res.av # None
         /\ res.kind = Word(q.on.kind, "kind") /\ res.name = q.on.name
         /\ res.namespace \in {q.on.namespace, None}
         /\ res.labels \in {{q.on}, {}}
<1>1. q.how.form = "kind" /\ (q.how.av \/ Inferred(Word(q.on.kind, "kind")) = {q.on.av})
  BY DEF Comparable, KindComparable
<1>2. PICK a \in IF q.how.av THEN {q.on.av} ELSE Inferred(Word(q.on.kind, "kind")) :
        res = [av |-> a, kind |-> Word(q.on.kind, "kind"), name |-> q.on.name,
               namespace |-> IF q.how.namespace THEN q.on.namespace ELSE None,
               labels |-> IF q.how.labels /\ q.on \notin Unlabelled THEN {q.on} ELSE {}]
  BY <1>1 DEF ResourceInfo
<1>3. a = q.on.av
  BY <1>1, <1>2
<1>4. q.on.av \in APIVersions
  BY DEF APIVersions
<1> QED BY <1>2, <1>3, <1>4, CheckAssumption

\* Whatever a rule that can be compared gathers is matched, and what is matched
\* without a caveat is gathered.
LEMMA MatchedAsGathered ==
  ASSUME NEW q, NEW s, q.on \in Resources, Comparable(q, s),
         NEW res \in ResourceInfo(q.on, q.how)
  PROVE  /\ Gathered(q.on, s) => TryMatch(res, s)
         /\ TryMatch(res, s) /\ Caveats(res, s) = {} => Gathered(q.on, s)
<1> DEFINE o == q.on
<1>1. /\ res.av = o.av /\ res.av # None
      /\ res.kind = Word(o.kind, "kind") /\ res.name = o.name
      /\ res.namespace \in {o.namespace, None}
      /\ res.labels \in {{o}, {}}
  BY Described
<1>2. MatchesKind(res, s) <=> KindGathered(o, s)
  BY <1>1, SameKinds DEF Comparable, KindComparable
<1>3. MatchesName(res, s) <=> NameGathered(o, s)
  BY <1>1 DEF MatchesName, NameGathered, MatchesAny
<1>4. res.av \in {None, s.av} <=> o.av = s.av
  BY <1>1
<1>5. CASE <<o.av, o.kind>> \notin GetOnly
  <2>1. ASSUME Gathered(o, s) PROVE TryMatch(res, s)
    <3>1. FiltersNamespace(s) /\ res.namespace # None => MatchesNamespace(res, s)
      BY <1>1, <1>5, <2>1 DEF Gathered, ListedBy, NamespaceGathered,
                              FiltersNamespace, MatchesNamespace
    <3>2. MatchesLabels(res, s)
      BY <1>1, <1>5, <2>1 DEF Gathered, ListedBy, MatchesLabels
    <3> QED BY <1>2, <1>3, <1>4, <1>5, <2>1, <3>1, <3>2
            DEF Gathered, ListedBy, TryMatch
  <2>2. ASSUME TryMatch(res, s), Caveats(res, s) = {} PROVE Gathered(o, s)
    <3>1. /\ ~(FiltersNamespace(s) /\ res.namespace = None)
          /\ ~(s.labels # {} /\ res.labels = {})
          /\ s.fields = {}
      BY <2>2 DEF Caveats
    <3>2. NamespaceGathered(o, s)
      BY <1>1, <2>2, <3>1
      DEF TryMatch, NamespaceGathered, FiltersNamespace, MatchesNamespace
    <3>3. \A l \in s.labels \cup s.fields : o \in l
      BY <1>1, <2>2, <3>1 DEF TryMatch, MatchesLabels
    <3> QED BY <1>2, <1>3, <1>4, <1>5, <2>2, <3>2, <3>3
            DEF Gathered, ListedBy, TryMatch
  <2> QED BY <2>1, <2>2
<1>6. CASE <<o.av, o.kind>> \in GetOnly
  <2>1. /\ s.names # {} /\ s.nameRegexp = {} /\ s.excludeNameRegexp = {}
        /\ s.namespaceRegexp = {} /\ s.labels = {}
        /\ o.namespace # None => s.namespaces # {}
    BY <1>6 DEF Comparable, Exact
  <2>2. MatchesName(res, s) <=> o.name \in s.names
    BY <1>1, <2>1 DEF MatchesName
  <2>3. MatchesLabels(res, s)
    BY <2>1 DEF MatchesLabels
  <2>4. ASSUME Gathered(o, s) PROVE TryMatch(res, s)
    <3>1. FiltersNamespace(s) /\ res.namespace # None => MatchesNamespace(res, s)
      BY <1>1, <1>6, <2>4 DEF Gathered, GotBy, MatchesNamespace
    <3> QED BY <1>2, <1>4, <1>6, <2>2, <2>3, <2>4, <3>1 DEF Gathered, GotBy, TryMatch
  <2>5. ASSUME TryMatch(res, s), Caveats(res, s) = {} PROVE Gathered(o, s)
    <3>1. ~(FiltersNamespace(s) /\ res.namespace = None)
      BY <2>5 DEF Caveats
    <3>2. o.namespace \in s.namespaces \cup {None}
      <4>1. SUFFICES ASSUME o.namespace # None PROVE o.namespace \in s.namespaces
        OBVIOUS
      <4>2. FiltersNamespace(s)
        BY <2>1, <4>1 DEF FiltersNamespace
      <4>3. MatchesNamespace(res, s) /\ res.namespace = o.namespace
        BY <1>1, <2>5, <3>1, <4>2 DEF TryMatch
      <4> QED BY <2>1, <4>3 DEF MatchesNamespace, MatchesAny
    <3> QED BY <1>2, <1>4, <1>6, <2>2, <2>5, <3>2 DEF Gathered, GotBy, TryMatch
  <2> QED BY <2>4, <2>5
<1> QED BY <1>5, <1>6

\* What a check has printed is what it found for one reading of the description.
AnswerInv ==
  \A r \in Runs : place[r] = "exited" /\ asked[r].command = "resource-set:check" =>
    \E res \in ResourceInfo(asked[r].on, asked[r].how) :
      found[r] = Check(res, chart.always \cup chart.optional)

LEMMA AnswerStep ==
  ASSUME ToolInv, AnswerInv, [ToolNext]_tool
  PROVE  AnswerInv'
<1>0. UNCHANGED <<asked, chart>>
  BY DEF ToolNext, tool, Start, Parse, Stat, Download, Get, Create, Copy,
         CopyFails, Resolve, Load, Answer, Kill
<1>2. ASSUME NEW q \in Runs, NEW r \in Runs,
             \/ Start(r) \/ Parse(r) \/ Stat(r) \/ Download(r) \/ Resolve(r)
             \/ Load(r) \/ Kill(r),
             place'[q] = "exited", asked[q].command = "resource-set:check"
      PROVE  place[q] = "exited" /\ found' = found
  BY <1>2
  DEF ToolInv, ToolTypeOK, Start, Parse, Stat, Download, Get, Create, Copy,
      CopyFails, Resolve, Load, Kill, Goto, Leave, Err
<1>3. ASSUME NEW q \in Runs, NEW r \in Runs, Answer(r),
             place'[q] = "exited", asked[q].command = "resource-set:check"
      PROVE  \E res \in ResourceInfo(asked[q].on, asked[q].how) :
               found'[q] = Check(res, chart.always \cup chart.optional)
  <2>1. CASE q # r
    <3>1. place[q] = "exited" /\ found'[q] = found[q]
      BY <1>3, <2>1 DEF Answer, Goto, Leave, Err, ToolInv, ToolTypeOK
    <3> QED BY <1>3, <3>1 DEF AnswerInv
  <2>2. CASE q = r
    <3>1. ~Err(r)
      BY <1>3, <2>2 DEF Answer, Err, Goto, ToolInv, ToolTypeOK
    <3>2. PICK res \in ResourceInfo(asked[r].on, asked[r].how) :
            found' = [found EXCEPT ![r] = Check(res, Rendered(chart))]
      BY <1>3, <2>2, <3>1 DEF Answer
    <3>3. found'[r] = Check(res, Rendered(chart))
      BY <3>2 DEF ToolInv
    <3> QED BY <2>2, <3>3 DEF Rendered
  <2> QED BY <2>1, <2>2
<1>4. CASE UNCHANGED tool
  BY <1>0, <1>4 DEF tool, AnswerInv
<1>5. ASSUME ToolNext, NEW q \in Runs, place'[q] = "exited",
             asked[q].command = "resource-set:check"
      PROVE  \E res \in ResourceInfo(asked[q].on, asked[q].how) :
               found'[q] = Check(res, chart.always \cup chart.optional)
  BY <1>2, <1>3, <1>5 DEF ToolNext, AnswerInv
<1> QED BY <1>0, <1>4, <1>5 DEF AnswerInv

\* Of the rules that can be compared, the ones that gather the resource are
\* printed, and one that is printed without a caveat gathers it.
THEOREM ToolMirrorsOperator == ToolSpec => []MirrorsOperator
<1>1. ToolInit => ToolInv /\ AnswerInv
  BY ToolInitial DEF ToolInit, AnswerInv
<1>2. ToolInv /\ AnswerInv /\ [ToolNext]_tool => ToolInv' /\ AnswerInv'
  BY ToolStep, AnswerStep
<1>3. ToolInv /\ AnswerInv => MirrorsOperator
  <2> SUFFICES ASSUME ToolInv, AnswerInv, NEW r \in Runs, place[r] = "exited",
                      asked[r].command = "resource-set:check",
                      NEW s \in chart.always \cup chart.optional, Comparable(asked[r], s)
               PROVE  /\ Gathered(asked[r].on, s) => s \in found[r]
                      /\ s \in found[r] =>
                           \/ Gathered(asked[r].on, s)
                           \/ \E res \in ResourceInfo(asked[r].on, asked[r].how) :
                                Caveats(res, s) # {}
    BY DEF MirrorsOperator
  <2>1. PICK res \in ResourceInfo(asked[r].on, asked[r].how) :
          found[r] = Check(res, chart.always \cup chart.optional)
    BY DEF AnswerInv
  <2>2. s \in found[r] <=> TryMatch(res, s)
    BY <2>1 DEF Check
  <2>3. asked[r].on \in Resources
    BY ToolAssumption DEF ToolInv, ToolTypeOK
  <2>4. /\ Gathered(asked[r].on, s) => TryMatch(res, s)
        /\ TryMatch(res, s) /\ Caveats(res, s) = {} => Gathered(asked[r].on, s)
    BY <2>3, MatchedAsGathered
  <2> QED BY <2>2, <2>4
<1> QED BY <1>1, <1>2, <1>3, PTL DEF ToolSpec
=============================================================================
