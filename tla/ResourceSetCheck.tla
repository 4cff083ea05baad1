-------------------------- MODULE ResourceSetCheck --------------------------
(***************************************************************************)
(* bro-tool's question: which rules of the ResourceSets of a chart cover   *)
(* one resource that a user describes.  It is answered without a cluster,  *)
(* by rules that mirror those of the operator; both are here, to be        *)
(* compared.                                                               *)
(*                                                                         *)
(* What a user writes for a kind is a word: the kind, its lower case, the  *)
(* name of its resources, or the lower case with an "s" where that is not  *)
(* the name.  A regular expression is the set of what it matches, and an   *)
(* optional filter a set with at most one element.                         *)
(***************************************************************************)
EXTENDS FiniteSets, Naturals

CONSTANTS
  Resources,    \* [av, kind, namespace, name]: the resources asked about
  Unlabelled,   \* those without labels
  GetOnly,      \* <<av, kind>>: kinds the API can get by name, but not list
  BuiltIn,      \* <<av, kind>>: preferred versions of the kinds of client-go
  Regular,      \* kinds whose resources are named by the kind and an "s"
  Sibilant      \* kinds that end with an "s"

None == ""

KindNames == {o.kind : o \in Resources} \cup {b[2] : b \in BuiltIn}
APIVersions == {o.av : o \in Resources} \cup {b[1] : b \in BuiltIn}
ResourceNames == {o.name : o \in Resources}
ResourceNamespaces == {o.namespace : o \in Resources} \ {None}

Word(k, form) == [kind |-> k, form |-> form]
Forms == {"kind", "lower", "name", "naive"}
Words == {w \in [kind : KindNames, form : Forms] : w.form = "naive" => w.kind \notin Regular}

ASSUME CheckAssumption ==
  /\ \A o \in Resources :
       o = [av |-> o.av, kind |-> o.kind, namespace |-> o.namespace, name |-> o.name]
  /\ None \notin APIVersions
  /\ Unlabelled \subseteq Resources
  /\ Regular \cap Sibilant = {}

\* labels and fields are the objects they match.
Rule ==
  [av : APIVersions, kinds : SUBSET Words, kindsRegexp : SUBSET SUBSET Words,
   excludeKinds : SUBSET Words,
   names : SUBSET ResourceNames, nameRegexp : SUBSET SUBSET ResourceNames,
   excludeNameRegexp : SUBSET SUBSET ResourceNames,
   namespaces : SUBSET ResourceNamespaces,
   namespaceRegexp : SUBSET SUBSET ResourceNamespaces,
   labels : SUBSET SUBSET Resources, fields : SUBSET SUBSET Resources]

MatchesAny(x, regexp) == \E pattern \in regexp : x \in pattern

-----------------------------------------------------------------------------
(* The tool                                                                *)

\* How a user describes a resource: the word for its kind, and whether its
\* apiVersion, its namespace and its labels are given.
Description == [form : {"kind", "lower", "name"}, av : BOOLEAN,
                namespace : BOOLEAN, labels : BOOLEAN]

Lower(w) == IF w.form = "kind" THEN Word(w.kind, "lower") ELSE w

EndsInS(w) == w.form \in {"name", "naive"} \/ w.kind \in Sibilant

WithS(w) == Word(w.kind, IF w.kind \in Regular THEN "name" ELSE "naive")

\* A bug: the kind is tried as it is given.
KindCandidatesAsGiven(w) == {w}

KindCandidates(w) ==
  {w, Lower(w)} \cup {WithS(v) : v \in {u \in {Lower(w)} : ~EndsInS(u)}}

\* strings.EqualFold of some word of S and some of T
Meet(S, T) == \E s \in S, t \in T : Lower(s) = Lower(t)

\* The lower case, without its "s" if it ends so, is sought among the built-in
\* kinds; which group a kind of several groups gets is left to the iteration
\* over a map.
Inferred(w) ==
  LET known == {b[1] : b \in {c \in BuiltIn : c[2] = w.kind}}
      found == w.form \in {"kind", "lower"} \/ w.kind \in Regular
  IN IF found /\ known # {} THEN known ELSE {None}

\* What parseResourceFlag and parseResourceFile may make of a description.
ResourceInfo(o, how) ==
  LET w == Word(o.kind, how.form) IN
  {[av |-> a, kind |-> w, name |-> o.name,
    namespace |-> IF how.namespace THEN o.namespace ELSE None,
    labels |-> IF how.labels /\ o \notin Unlabelled THEN {o} ELSE {}] :
     a \in IF how.av THEN {o.av} ELSE Inferred(w)}

MatchesKind(res, s) ==
  \/ s.kinds = {} /\ s.kindsRegexp = {}
  \/ LET candidates == KindCandidates(res.kind) IN
     /\ Meet(candidates, s.kinds) \/ \E c \in candidates : MatchesAny(c, s.kindsRegexp)
     /\ ~Meet(candidates, s.excludeKinds)

\* A bug: a name that is excluded is excluded even if it is listed.
MatchesNameExcluding(res, s) ==
  \/ s.names = {} /\ s.nameRegexp = {} /\ s.excludeNameRegexp = {}
  \/ /\ res.name \in s.names \/ s.nameRegexp = {} \/ MatchesAny(res.name, s.nameRegexp)
     /\ ~MatchesAny(res.name, s.excludeNameRegexp)

MatchesName(res, s) ==
  \/ s.names = {} /\ s.nameRegexp = {} /\ s.excludeNameRegexp = {}
  \/ res.name \in s.names
  \/ /\ s.nameRegexp \cup s.excludeNameRegexp # {}
     /\ s.nameRegexp = {} \/ MatchesAny(res.name, s.nameRegexp)
     /\ ~MatchesAny(res.name, s.excludeNameRegexp)

FiltersNamespace(s) == s.namespaces # {} \/ s.namespaceRegexp # {}

MatchesNamespace(res, s) ==
  res.namespace \in s.namespaces \/ MatchesAny(res.namespace, s.namespaceRegexp)

MatchesLabels(res, s) == \A l \in s.labels : res.labels \subseteq l

\* The filters that cannot be checked.
Caveats(res, s) ==
  {c \in {"namespace", "labels", "fields"} :
     \/ c = "namespace" /\ FiltersNamespace(s) /\ res.namespace = None
     \/ c = "labels" /\ s.labels # {} /\ res.labels = {}
     \/ c = "fields" /\ s.fields # {}}

TryMatch(res, s) ==
  /\ res.av \in {None, s.av}
  /\ MatchesKind(res, s)
  /\ MatchesName(res, s)
  /\ FiltersNamespace(s) /\ res.namespace # None => MatchesNamespace(res, s)
  /\ MatchesLabels(res, s)

Check(res, rules) == {s \in rules : TryMatch(res, s)}

-----------------------------------------------------------------------------
(* The operator                                                            *)

\* The words discovery has for the kind of an object.
OwnWords(o) == {Word(o.kind, "kind"), Word(o.kind, "name")}

KindGathered(o, s) ==
  \/ s.kinds = {} /\ s.kindsRegexp = {}
  \/ OwnWords(o) \cap s.kinds # {}
  \/ /\ \E w \in OwnWords(o) : MatchesAny(w, s.kindsRegexp)
     /\ OwnWords(o) \cap s.excludeKinds = {}

NameGathered(o, s) ==
  IF s.names = {} /\ s.nameRegexp = {} /\ s.excludeNameRegexp = {} THEN TRUE
  ELSE \/ o.name \in s.names
       \/ /\ s.nameRegexp # {} \/ s.excludeNameRegexp # {}
          /\ s.nameRegexp # {} => MatchesAny(o.name, s.nameRegexp)
          /\ ~MatchesAny(o.name, s.excludeNameRegexp)

NamespaceGathered(o, s) ==
  \/ o.namespace = None
  \/ s.namespaces = {} /\ s.namespaceRegexp = {}
  \/ o.namespace \in s.namespaces
  \/ MatchesAny(o.namespace, s.namespaceRegexp)

\* The labels and fields are the API server's to check.
ListedBy(o, s) ==
  /\ NameGathered(o, s)
  /\ NamespaceGathered(o, s)
  /\ \A l \in s.labels \cup s.fields : o \in l

\* What cannot be listed is asked for by every name in every namespace of the
\* rule; regular expressions, labels and fields do not count.
GotBy(o, s) == o.name \in s.names /\ o.namespace \in s.namespaces \cup {None}

\* Of what is gathered, an object that is being deleted and has no finalizers is
\* not written, whatever the rule.
Gathered(o, s) ==
  /\ o.av = s.av
  /\ KindGathered(o, s)
  /\ IF <<o.av, o.kind>> \in GetOnly THEN GotBy(o, s) ELSE ListedBy(o, s)
=============================================================================
