---------------------------- MODULE MCBroTool ----------------------------
(* An instance of BroTool for TLC: a run that asks what covers a          *)
(* Deployment, or a cluster role whose kind two groups have, described in  *)
(* every way, or an object that can be got and not listed, and one that    *)
(* only views the chart, which holds one rule of many shapes.              *)
EXTENDS BroTool

CONSTANTS checking, viewing

web == [av |-> "apps/v1", kind |-> "Deployment", namespace |-> "shop", name |-> "web"]
role == [av |-> "rbac/v1", kind |-> "Role", namespace |-> None, name |-> "role"]

tag == [av |-> "image/v1", kind |-> "Tag", namespace |-> "shop", name |-> "tag"]

MCObjects == {web, role, tag}
MCUnlabelled == {role}
MCGetOnly == {<<"image/v1", "Tag">>}
MCBuiltIn == {<<"apps/v1", "Deployment">>, <<"rbac/v1", "Role">>, <<"v1", "Role">>,
              <<"v1", "Endpoints">>}
MCRegular == {"Deployment", "Role", "Tag"}
MCSibilant == {"Endpoints"}

Any == [av |-> "apps/v1", kinds |-> {}, kindsRegexp |-> {}, excludeKinds |-> {},
        names |-> {}, nameRegexp |-> {}, excludeNameRegexp |-> {},
        namespaces |-> {}, namespaceRegexp |-> {}, labels |-> {}, fields |-> {}]

Singular == Word("Deployment", "kind")
Plural == Word("Deployment", "name")

ByKind ==
  {[Any EXCEPT !.av = a, !.kinds = k, !.kindsRegexp = p, !.excludeKinds = e] :
     a \in {"apps/v1", "rbac/v1"}, k \in {{}, {Singular}, {Plural}, {Word("Role", "kind")}},
     p \in {{}, {Words}, {{Plural}}}, e \in {{}, {Singular}, {Plural}}}

ByName ==
  {[Any EXCEPT !.names = n, !.nameRegexp = p, !.excludeNameRegexp = e] :
     n \in {{}, {"web"}, {"role"}}, p \in {{}, {{"web"}}, {{"role"}}},
     e \in {{}, {{"web"}}, {{"role"}}}}

ByRest ==
  {[Any EXCEPT !.namespaces = n, !.namespaceRegexp = p, !.labels = l, !.fields = f] :
     n \in {{}, {"shop"}}, p \in {{}, {{"shop"}}, {{}}},
     l \in {{}, {{web}}, {{role}}}, f \in {{}, {{web}}, {{}}}}

ForTags ==
  {[Any EXCEPT !.av = "image/v1", !.names = n, !.nameRegexp = p,
               !.namespaces = ns, !.namespaceRegexp = q, !.labels = l] :
     n \in {{}, {"tag"}}, p \in {{}, {{"tag"}}},
     ns \in {{}, {"shop"}}, q \in {{}, {{"shop"}}}, l \in {{}, {{web}}}}

MCCharts ==
  {[always |-> {}, optional |-> {s}] : s \in ByKind \cup ByName \cup ForTags}
  \cup {[always |-> {s}, optional |-> {}] : s \in ByRest}

Viewing == [command |-> "resource-set:view", chart |-> {"version"}, resource |-> {},
            on |-> web, how |-> [form |-> "kind", av |-> FALSE, namespace |-> FALSE,
                                 labels |-> FALSE]]

Checking(resource) ==
  {[Viewing EXCEPT !.command = "resource-set:check", !.resource = resource,
                   !.on = o, !.how = h] : o \in Resources, h \in Description}

MCRequests ==
  [r \in Runs |->
     IF r = viewing THEN {Viewing, [Viewing EXCEPT !.command = "none"]}
     ELSE {[Viewing EXCEPT !.command = "none"], [Viewing EXCEPT !.command = "other"],
           [Viewing EXCEPT !.chart = {}]}
          \cup {[q EXCEPT !.chart = {"path"}] : q \in Checking({"flag"})}
          \cup {q \in Checking({"flag"}) \cup Checking({}) :
                  q.on = web /\ q.how.form = "kind" /\ q.how.av /\ q.how.namespace}]

\* Rules of every shape are asked for in one run, of a chart at a path; where
\* two share the cache, of one chart.
MCInit ==
  /\ ToolInit
  /\ IF asked[checking].chart = {"path"} THEN asked[viewing] = [Viewing EXCEPT !.command = "none"]
     ELSE chart = [always |-> {Any}, optional |-> {}]

MCSpec == MCInit /\ [][ToolNext]_tool
=============================================================================
