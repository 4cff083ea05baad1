------------------------------ MODULE BroTool ------------------------------
(***************************************************************************)
(* bro-tool: each run resolves its arguments, takes the chart from a path, *)
(* or from a cache that it fills by a download, renders it and answers.    *)
(* Runs share the cache, fail, and are killed.                             *)
(***************************************************************************)
EXTENDS ResourceSetCheck

CONSTANTS
  Runs,         \* runs of the tool
  Requests,     \* Requests[r]: what r may be asked
  Charts,       \* what the chart may hold, see Chart
  Faults        \* what may fail, see FaultKinds

FaultKinds ==
  {"network",   \* the GET fails, or ends early
   "disk",      \* the cache cannot be written
   "close",     \* only the deferred Close finds that, and nobody notices
   "regexp"}    \* a regular expression does not compile

Nothing == "nothing"
Parts == {1, 2}

Request == [command : {"none", "other", "resource-set:view", "resource-set:check"},
            chart : SUBSET {"version", "path"},
            resource : SUBSET {"flag", "file"},
            on : Resources, how : Description]

\* The rules that are always rendered, and those of optional resources.
Chart == [always : SUBSET Rule, optional : SUBSET Rule]

ASSUME ToolAssumption ==
  /\ Nothing \notin Runs
  /\ \A r \in Runs : \A q \in Requests[r] :
       /\ q.on \in Resources
       /\ q.how = [form |-> q.how.form, av |-> q.how.av,
                   namespace |-> q.how.namespace, labels |-> q.how.labels]
  /\ Charts \subseteq Chart
  /\ Faults \subseteq FaultKinds

VARIABLES
  place,        \* place[r]: the next step
  asked,        \* asked[r]: the arguments
  file,         \* cachePath: the file there, named by the run that created it
  content,      \* content[f]: the parts of the chart that are in the file f
  handle,       \* handle[r]: the file r writes
  written,      \* written[r]: the parts r has written
  chart,        \* the chart, in the release and at every path
  found,        \* found[r]: what was printed
  exit,         \* exit[r]: the exit code, that of an error until there is another
  excused       \* history: a run was killed while it downloaded, the Close of a
                \* download failed, or two worked at a time

cache == <<file, content, handle, written>>
tool == <<place, asked, cache, chart, found, exit, excused>>

InCache == {"get", "create", "copy"}

ToolTypeOK ==
  /\ place \in [Runs -> {"idle", "parse", "stat", "resolve", "load", "answer",
                         "unreadable", "failed", "exited", "killed"} \cup InCache]
  /\ \A r \in Runs : asked[r] \in Requests[r]
  /\ file \in Runs \cup {Nothing}
  /\ content \in [Runs -> SUBSET Parts]
  /\ handle \in [Runs -> Runs \cup {Nothing}]
  /\ written \in [Runs -> {0, 1, 2}]
  /\ \A r \in Runs : found[r] \subseteq chart.always \cup chart.optional
  /\ exit \in [Runs -> {0, 1}]
  /\ excused \in BOOLEAN

\* The cache is empty.
ToolInit ==
  /\ place = [r \in Runs |-> "idle"]
  /\ asked \in {f \in [Runs -> UNION {Requests[r] : r \in Runs}] :
                  \A r \in Runs : f[r] \in Requests[r]}
  /\ file = Nothing
  /\ content = [r \in Runs |-> {}]
  /\ handle = [r \in Runs |-> Nothing]
  /\ written = [r \in Runs |-> 0]
  /\ chart \in Charts
  /\ found = [r \in Runs |-> {}]
  /\ exit = [r \in Runs |-> 1]
  /\ excused = FALSE

-----------------------------------------------------------------------------
Goto(r, next) == place' = [place EXCEPT ![r] = next]
Leave(r, code) == Goto(r, "exited") /\ exit' = [exit EXCEPT ![r] = code]

\* An error is printed, and the exit code is 1.
Err(r) == Goto(r, "failed") /\ UNCHANGED exit

Fault(kind) == kind \in Faults

Working(r) == place[r] \notin {"idle", "unreadable", "failed", "exited", "killed"}

Start(r) ==
  /\ place[r] = "idle"
  /\ Goto(r, "parse")
  /\ excused' = (excused \/ \E q \in Runs : Working(q))
  /\ UNCHANGED <<asked, cache, chart, found, exit>>

\* main, which says how it is used and succeeds if there is no command; then
\* resolveChartPath.
Parse(r) ==
  /\ place[r] = "parse"
  /\ CASE asked[r].command = "none" -> Leave(r, 0)
       [] asked[r].command = "other" -> Err(r)
       [] Cardinality(asked[r].chart) # 1 -> Err(r)
       [] OTHER ->
            /\ Goto(r, IF asked[r].chart = {"path"} THEN "resolve" ELSE "stat")
            /\ UNCHANGED exit
  /\ UNCHANGED <<asked, cache, chart, found, excused>>

\* FetchChartByVersion: what is in the cache is taken for the chart.
Stat(r) ==
  /\ place[r] = "stat"
  /\ Goto(r, IF file # Nothing THEN "resolve" ELSE "get")
  /\ UNCHANGED <<asked, cache, chart, found, exit, excused>>

Get(r) ==
  /\ place[r] = "get"
  /\ \/ Goto(r, "create") /\ UNCHANGED exit
     \/ Fault("network") /\ Err(r)
  /\ UNCHANGED <<asked, cache, chart, found, excused>>

\* os.Create empties the file that is there.
Create(r) ==
  /\ place[r] = "create"
  /\ \/ /\ file' = IF file = Nothing THEN r ELSE file
        /\ content' = [content EXCEPT ![file'] = {}]
        /\ handle' = [handle EXCEPT ![r] = file']
        /\ Goto(r, "copy")
        /\ UNCHANGED exit
     \/ Fault("disk") /\ Err(r) /\ UNCHANGED <<file, content, handle>>
  /\ UNCHANGED <<asked, written, chart, found, excused>>

\* A bug: the end of the body is noticed after one part too many.
CompleteLate(n) == n = 3

Complete(n) == n = 2

Copy(r) ==
  /\ place[r] = "copy"
  /\ written' = [written EXCEPT ![r] = @ + 1]
  /\ IF Complete(written'[r]) THEN Goto(r, "resolve") ELSE UNCHANGED place
  /\ \/ /\ content' = [content EXCEPT ![handle[r]] = @ \cup {written'[r]}]
        /\ UNCHANGED excused
     \/ /\ Complete(written'[r]) /\ Fault("close")
        /\ excused' = TRUE
        /\ UNCHANGED content
  /\ UNCHANGED <<asked, file, handle, chart, found, exit>>

\* A bug: what was written of the file stays.
CleanedUpNever == file

\* The path is removed, whatever file is there by now.
CleanedUp == Nothing

CopyFails(r) ==
  /\ place[r] = "copy"
  /\ Fault("network") \/ Fault("disk")
  /\ file' = CleanedUp
  /\ Err(r)
  /\ UNCHANGED <<asked, content, handle, written, chart, found, excused>>

Download(r) == Get(r) \/ Create(r) \/ Copy(r) \/ CopyFails(r)

\* resolveResource, after the chart was fetched.
Resolve(r) ==
  /\ place[r] = "resolve"
  /\ IF asked[r].command = "resource-set:check" /\ Cardinality(asked[r].resource) # 1
     THEN Err(r)
     ELSE Goto(r, "load") /\ UNCHANGED exit
  /\ UNCHANGED <<asked, cache, chart, found, excused>>

\* The loader reads an archive to its end.
Readable(r) == asked[r].chart = {"path"} \/ (file # Nothing /\ content[file] = Parts)

\* An archive that cannot be read is an error, as a path is that does not exist.
Load(r) ==
  /\ place[r] = "load"
  /\ IF Readable(r)
     THEN Goto(r, "answer")
     ELSE Goto(r, "unreadable")
  /\ UNCHANGED <<asked, cache, chart, found, exit, excused>>

\* Only the rules that the chart has by default.
RenderedByDefault(c) == c.always

\* All optional resources are enabled.
Rendered(c) == c.always \cup c.optional

\* Everything is shown, or what covers the resource; the exit code of what
\* nothing covers is that of an error.
Answer(r) ==
  /\ place[r] = "answer"
  /\ LET rules == Rendered(chart) IN
     \/ /\ asked[r].command = "resource-set:view"
        /\ found' = [found EXCEPT ![r] = rules]
        /\ Leave(r, 0)
     \/ /\ asked[r].command = "resource-set:check"
        /\ \E res \in ResourceInfo(asked[r].on, asked[r].how) :
             found' = [found EXCEPT ![r] = Check(res, rules)]
        /\ Leave(r, IF found'[r] = {} THEN 1 ELSE 0)
     \/ /\ asked[r].command = "resource-set:check" /\ Fault("regexp")
        /\ Err(r)
        /\ UNCHANGED found
  /\ UNCHANGED <<asked, cache, chart, excused>>

Kill(r) ==
  /\ Working(r)
  /\ Goto(r, "killed")
  /\ excused' = (excused \/ place[r] = "copy")
  /\ UNCHANGED <<asked, cache, chart, found, exit>>

ToolNext ==
  \E r \in Runs :
    \/ Start(r) \/ Parse(r) \/ Stat(r) \/ Download(r) \/ Resolve(r) \/ Load(r)
    \/ Answer(r) \/ Kill(r)

ToolSpec == ToolInit /\ [][ToolNext]_tool

-----------------------------------------------------------------------------
(* Properties                                                              *)

\* Discovery has every word of a rule: a regular expression that matches
\* another one matches one of these too.
WellSpelled(s) ==
  LET Own(k) == {Word(k, "kind"), Word(k, "name")} IN
  /\ \A w \in s.kinds \cup s.excludeKinds : w \in Own(w.kind)
  /\ \A p \in s.kindsRegexp : \A w \in p : Own(w.kind) \cap p # {}

\* Where the tool can know which kinds the operator gathers: the kind is regular
\* and is given, its apiVersion is given or cannot be mistaken, and the rule does
\* not name a kind it also excludes.
KindComparable(q, s) ==
  /\ q.on.kind \in Regular /\ q.how.form = "kind"
  /\ q.how.av \/ Inferred(Word(q.on.kind, "kind")) = {q.on.av}
  /\ WellSpelled(s)
  /\ OwnWords(q.on) \cap s.kinds = {} \/ OwnWords(q.on) \cap s.excludeKinds = {}

\* What a rule for a kind that cannot be listed has to give, and all it may: "the
\* filter for them must provide exact names and if needed namespaces"
\* (collector.go:320-321).
Exact(o, s) ==
  /\ s.names # {}
  /\ o.namespace # None => s.namespaces # {}
  /\ s.nameRegexp \cup s.excludeNameRegexp = {} /\ s.namespaceRegexp = {}
  /\ s.labels = {}

\* The tool does not ask what the API can do with a kind.
Comparable(q, s) ==
  /\ KindComparable(q, s)
  /\ <<q.on.av, q.on.kind>> \in GetOnly => Exact(q.on, s)

\* match.go:44-48 turns the operator's selection round, with six filters of its
\* own: of the rules of the chart, optional ones included, those that gather the
\* resource are printed, and a rule that is printed without a caveat gathers it;
\* for a kind that cannot be listed, if the rule is exact.
MirrorsOperator ==
  \A r \in Runs :
    place[r] = "exited" /\ asked[r].command = "resource-set:check" =>
        \A s \in chart.always \cup chart.optional : Comparable(asked[r], s) =>
          /\ Gathered(asked[r].on, s) => s \in found[r]
          /\ s \in found[r] =>
               \/ Gathered(asked[r].on, s)
               \/ \E res \in ResourceInfo(asked[r].on, asked[r].how) : Caveats(res, s) # {}

\* A download that fails half way must not leave half a chart for all later runs
\* (fetch.go:90): a run finds no chart or half a chart only if a run was killed
\* in its download, a Close failed (fetch.go:87), or two worked at a time.
UnreadableForCause == \A r \in Runs : place[r] = "unreadable" => excused

\* A rule that is printed without a caveat gathers the resource, whatever the API
\* can do with its kind.
PrintedIsGathered ==
  \A r \in Runs :
    place[r] = "exited" /\ asked[r].command = "resource-set:check" =>
        \A s \in found[r] : KindComparable(asked[r], s) =>
          \/ Gathered(asked[r].on, s)
          \/ \E res \in ResourceInfo(asked[r].on, asked[r].how) : Caveats(res, s) # {}

\* The chart a run finds is whole, or none was there.
NoHalfChart == \A r \in Runs : place[r] # "unreadable"
=============================================================================
