-------------------------- MODULE ResourceGathering --------------------------
(***************************************************************************)
(* Which objects of the cluster a ResourceSet gathers: GatherResources     *)
(* and WriteBackupObjects, one step per call to the Kubernetes API, while  *)
(* the cluster goes on changing.  A backup writes what is gathered to its  *)
(* archive; a restore gathers again to find what it has to prune.          *)
(*                                                                         *)
(* A regular expression is the set of the strings it matches, and an       *)
(* optional one a set with at most one of them.  An object is its kind,    *)
(* namespace and name: what else it contains, and the encryption of it,    *)
(* is left out.  One that is being deleted and has no finalizers, which    *)
(* is gathered and then not written, is an absent one here.                *)
(***************************************************************************)
EXTENDS Naturals, Sequences, FiniteSets

CONSTANTS
  Objects,      \* the objects that may exist
  Kinds,        \* the resources discovery reports, in all groups and versions
  Group,        \* Group[k]: the group and version of a kind
  Verbs,        \* Verbs[k]: what the API allows to do with it
  Namespaced,   \* the kinds with namespaces
  Subresources, \* the kinds with a "/" in their name
  Selectors,    \* resourceSelectors of the ResourceSet
  Limit,        \* ListObjectsLimit
  Faulty,       \* TRUE: any call may fail
  MaxChanges    \* bound on the changes of the cluster

NoNamespace == ""

Names == {o.name : o \in Objects}
Namespaces == {o.namespace : o \in Objects}

\* The fields of a ResourceSelector; labels and fields are the objects they
\* match.
ResourceSelector ==
  [group : {Selectors[i].group : i \in DOMAIN Selectors},
   kinds : SUBSET Kinds, kindsRegexp : SUBSET SUBSET Kinds,
   excludeKinds : SUBSET Kinds,
   names : SUBSET Names, nameRegexp : SUBSET SUBSET Names,
   excludeNameRegexp : SUBSET SUBSET Names,
   namespaces : SUBSET Namespaces, namespaceRegexp : SUBSET SUBSET Namespaces,
   matching : SUBSET Objects]

ASSUME GatherAssumption ==
  /\ IsFiniteSet(Objects)
  /\ \A o \in Objects :
       /\ o.kind \in Kinds
       /\ o = [kind |-> o.kind, namespace |-> o.namespace, name |-> o.name]
  /\ Namespaced \subseteq Kinds
  /\ Subresources \subseteq Kinds
  /\ Selectors \in Seq(ResourceSelector)
  /\ Limit \in Nat \ {0}
  /\ Faulty \in BOOLEAN
  /\ MaxChanges \in Nat

VARIABLES
  live,         \* the objects in the cluster
  pc,           \* what is done next
  index,        \* the selector at work
  todo,         \* kinds of this selector still to be gathered
  kind,         \* the one at work
  unread,       \* what the API server has still to return of it
  listed,       \* what it has returned
  gathered,     \* gathered[o]: how often o is in GVResourceToObjects
  archive,      \* the objects written
  stayed,       \* history: objects that existed all the time
  seen,         \* history: objects that existed at some time
  changes       \* changes of the cluster so far

call == <<kind, unread, listed>>
cluster == <<live, stayed, seen, changes>>
vars == <<cluster, pc, index, todo, call, gathered, archive>>

TypeOK ==
  /\ pc \in {"discover", "kinds", "list", "get", "write", "done", "failed"}
  /\ index \in 1..(Len(Selectors) + 1)
  /\ todo \subseteq Kinds
  /\ kind \in Kinds
  /\ gathered \in [Objects -> Nat]
  /\ \A s \in {live, listed, archive, stayed, seen} : s \subseteq Objects
  /\ changes \in 0..MaxChanges

Init ==
  /\ live \in SUBSET Objects
  /\ stayed = live
  /\ seen = live
  /\ pc = IF Selectors = <<>> THEN "write" ELSE "discover"
  /\ index = 1
  /\ todo = {}
  /\ kind \in Kinds
  /\ unread = {}
  /\ listed = {}
  /\ gathered = [o \in Objects |-> 0]
  /\ archive = {}
  /\ changes = 0

-----------------------------------------------------------------------------
(* The filters of a selector s                                             *)

Matches(x, regexp) == \E pattern \in regexp : x \in pattern

\* gatherResourcesForGroupVersion: none when the API server does not have the
\* group and version.
Discovered(s) == {k \in Kinds : Group[k] = s.group}

\* filterByKind
KindSelected(s, k) ==
  \/ s.kinds = {} /\ s.kindsRegexp = {}
  \/ k \in s.kinds
  \/ Matches(k, s.kindsRegexp) /\ k \notin s.excludeKinds

\* filterByName
NameSelected(s, n) ==
  \/ s.names = {} /\ s.nameRegexp = {} /\ s.excludeNameRegexp = {}
  \/ n \in s.names
  \/ /\ s.nameRegexp \cup s.excludeNameRegexp # {}
     /\ s.nameRegexp = {} \/ Matches(n, s.nameRegexp)
     /\ ~Matches(n, s.excludeNameRegexp)

\* filterByNamespace, which is called for namespaced kinds only
NamespaceSelected(s, o) ==
  \/ o.kind \notin Namespaced
  \/ s.namespaces = {} /\ s.namespaceRegexp = {}
  \/ o.namespace \in s.namespaces
  \/ Matches(o.namespace, s.namespaceRegexp)

\* The objects of a kind that a List with the selector's labels and fields
\* finds.
Found(s, k) == {o \in live : o.kind = k /\ o \in s.matching}

\* The objects that are asked for by name, of a kind that cannot be listed:
\* labels, fields and regular expressions do not count.
Named(s, k) ==
  {[kind |-> k, namespace |-> ns, name |-> n] :
     n \in s.names, ns \in IF k \in Namespaced THEN s.namespaces ELSE {NoNamespace}}

-----------------------------------------------------------------------------
Selector == Selectors[index]

\* A page of a list: the API server fills it.
Page(S) ==
  IF Cardinality(S) <= Limit THEN {S}
  ELSE {p \in SUBSET S : Cardinality(p) = Limit}

\* A call fails, or a regular expression does not compile: nothing is written.
Fail ==
  /\ Faulty
  /\ pc \notin {"done", "failed"}
  /\ pc' = "failed"
  /\ UNCHANGED <<cluster, index, todo, call, gathered, archive>>

Discover ==
  /\ pc = "discover"
  /\ todo' = {k \in Discovered(Selector) : KindSelected(Selector, k)}
  /\ pc' = "kinds"
  /\ UNCHANGED <<cluster, index, call, gathered, archive>>

\* Subresources, and what can neither be listed nor be got, are left out.
Skip(k) ==
  /\ pc = "kinds"
  /\ k \in todo
  /\ k \in Subresources \/ Verbs[k] \cap {"list", "get"} = {}
  /\ todo' = todo \ {k}
  /\ UNCHANGED <<cluster, pc, index, call, gathered, archive>>

\* The first page of a list decides what the pages after it will hold.
ListFirst(k) ==
  /\ pc = "kinds"
  /\ k \in todo \ Subresources
  /\ "list" \in Verbs[k]
  /\ kind' = k
  /\ todo' = todo \ {k}
  /\ listed' \in Page(Found(Selector, k))
  /\ unread' = Found(Selector, k) \ listed'
  /\ pc' = "list"
  /\ UNCHANGED <<cluster, index, gathered, archive>>

ListNext ==
  /\ pc = "list"
  /\ unread # {}
  /\ \E p \in Page(unread) :
       /\ listed' = listed \cup p
       /\ unread' = unread \ p
  /\ UNCHANGED <<cluster, pc, index, todo, kind, gathered, archive>>

\* gatherObjectsForResource returns what passes the filters ...
Filtered == {o \in listed : NameSelected(Selector, o.name)
                             /\ NamespaceSelected(Selector, o)}

\* A bug: what it returns takes the place of what was gathered of the kind.
EndListReplacing ==
  /\ pc = "list"
  /\ unread = {}
  /\ gathered' =
       [o \in Objects |-> IF o.kind # kind THEN gathered[o]
                          ELSE IF o \in Filtered THEN 1 ELSE 0]
  /\ pc' = "kinds"
  /\ UNCHANGED <<cluster, index, todo, call, archive>>

\* A bug: names are not filtered.
EndListAnyName ==
  /\ pc = "list"
  /\ unread = {}
  /\ gathered' =
       [o \in Objects |-> IF o \in listed /\ NamespaceSelected(Selector, o)
                          THEN gathered[o] + 1 ELSE gathered[o]]
  /\ pc' = "kinds"
  /\ UNCHANGED <<cluster, index, todo, call, archive>>

\* A bug: the map is made again for every kind.
EndListAnew ==
  /\ pc = "list"
  /\ unread = {}
  /\ gathered' = [o \in Filtered |-> 1]
  /\ pc' = "kinds"
  /\ UNCHANGED <<cluster, index, todo, call, archive>>

\* ... and that is added to what earlier selectors gathered of the kind.
EndList ==
  /\ pc = "list"
  /\ unread = {}
  /\ gathered' = [o \in Objects |-> IF o \in Filtered THEN gathered[o] + 1
                                    ELSE gathered[o]]
  /\ pc' = "kinds"
  /\ UNCHANGED <<cluster, index, todo, call, archive>>

GetFirst(k) ==
  /\ pc = "kinds"
  /\ k \in todo \ Subresources
  /\ Verbs[k] \cap {"list", "get"} = {"get"}
  /\ kind' = k
  /\ todo' = todo \ {k}
  /\ unread' = Named(Selector, k)
  /\ listed' = {}
  /\ pc' = "get"
  /\ UNCHANGED <<cluster, index, gathered, archive>>

\* One that does not exist is an error.
GetNext ==
  /\ pc = "get"
  /\ \E o \in unread :
       /\ unread' = unread \ {o}
       /\ \/ o \in live /\ listed' = listed \cup {o} /\ UNCHANGED pc
          \/ o \notin live /\ pc' = "failed" /\ UNCHANGED listed
  /\ UNCHANGED <<cluster, index, todo, kind, gathered, archive>>

\* What gatherObjectsForNonListResource returns takes the place of what earlier
\* selectors gathered of the kind.
EndGet ==
  /\ pc = "get"
  /\ unread = {}
  /\ gathered' =
       [o \in Objects |-> IF o.kind # kind THEN gathered[o]
                          ELSE IF o \in listed THEN 1 ELSE 0]
  /\ pc' = "kinds"
  /\ UNCHANGED <<cluster, index, todo, call, archive>>

NextSelector ==
  /\ pc = "kinds"
  /\ todo = {}
  /\ index' = index + 1
  /\ pc' = IF index < Len(Selectors) THEN "discover" ELSE "write"
  /\ UNCHANGED <<cluster, todo, call, gathered, archive>>

\* WriteBackupObjects: the path of a file is the object's kind, namespace and
\* name, so an object that was gathered twice is written twice to one file.
Write ==
  /\ pc = "write"
  /\ archive' = {o \in Objects : gathered[o] > 0}
  /\ pc' = "done"
  /\ UNCHANGED <<cluster, index, todo, call, gathered>>

-----------------------------------------------------------------------------
\* Somebody else creates or deletes an object.
Change ==
  /\ changes < MaxChanges
  /\ pc \notin {"done", "failed"}
  /\ changes' = changes + 1
  /\ \E o \in Objects :
       \/ o \notin live /\ live' = live \cup {o} /\ seen' = seen \cup {o}
                        /\ UNCHANGED stayed
       \/ o \in live /\ live' = live \ {o} /\ stayed' = stayed \ {o}
                     /\ UNCHANGED seen
  /\ UNCHANGED <<pc, index, todo, call, gathered, archive>>

Gather ==
  \/ Fail \/ Discover \/ NextSelector \/ Write
  \/ ListNext \/ EndList \/ GetNext \/ EndGet
  \/ \E k \in Kinds : Skip(k) \/ ListFirst(k) \/ GetFirst(k)

Next == Gather \/ Change

Spec == Init /\ [][Next]_vars

-----------------------------------------------------------------------------
(* Properties                                                              *)

\* What resourceset.go:31-34 says a selector selects, of the kinds that can be
\* listed: "fields with matching names are combined via OR, different field
\* groups are combined via AND".
Selects(s, o) ==
  /\ Group[o.kind] = s.group
  /\ o.kind \notin Subresources
  /\ KindSelected(s, o.kind)
  /\ IF "list" \in Verbs[o.kind]
     THEN o \in s.matching /\ NameSelected(s, o.name) /\ NamespaceSelected(s, o)
     ELSE "get" \in Verbs[o.kind] /\ o \in Named(s, o.kind)

Selected(o) == \E i \in 1..Len(Selectors) : Selects(Selectors[i], o)

\* An archive holds only what a selector selects, and what existed at some time
\* while it was made.
OnlySelected ==
  pc = "done" => \A o \in archive : o \in seen /\ Selected(o)

\* s asks for objects of kind k.
Asks(s, k) == Group[k] = s.group /\ KindSelected(s, k)

\* Selector i selects o, and what it gets is not replaced: of a kind that can
\* only be got by name the archive holds what the last selector got.
Stands(i, o) ==
  /\ Selects(Selectors[i], o)
  /\ \/ "list" \in Verbs[o.kind]
     \/ \A j \in (i + 1)..Len(Selectors) : ~Asks(Selectors[j], o.kind)

\* Whatever is created and deleted meanwhile, an archive holds every selected
\* object that existed all the time: none falls between two pages, two
\* selectors or two kinds.
NothingMissed ==
  pc = "done" =>
    \A o \in stayed, i \in 1..Len(Selectors) : Stands(i, o) => o \in archive
=============================================================================
