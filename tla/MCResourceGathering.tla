------------------------- MODULE MCResourceGathering -------------------------
(* Instances of ResourceGathering for TLC.  The ConfigMaps ("maps") and    *)
(* the Settings of one group are listed, the latter without a namespace;   *)
(* a Review can only be got; logs are a subresource, and nothing can be    *)
(* done with events.                                                       *)
EXTENDS ResourceGathering

MCKinds == {"maps", "settings", "reviews", "logs", "events"}
MCGroup == [k \in MCKinds |-> IF k = "settings" THEN "mgmt" ELSE "v1"]
MCVerbs == [k \in MCKinds |-> CASE k = "reviews" -> {"get"} [] k = "events" -> {}
                                [] OTHER -> {"list", "get"}]

Object(k, ns, n) == [kind |-> k, namespace |-> ns, name |-> n]
MCObjects ==
  {Object("maps", "system", "a"), Object("maps", "system", "b"),
   Object("maps", "user", "b"),
   Object("settings", "", "a"), Object("settings", "", "b"),
   Object("reviews", "", "a"), Object("reviews", "", "b")}

Pattern(S) == {S}
NoPattern == {}

All == [group |-> "v1", kinds |-> {}, kindsRegexp |-> NoPattern,
        excludeKinds |-> {}, names |-> {}, nameRegexp |-> NoPattern,
        excludeNameRegexp |-> NoPattern, namespaces |-> {},
        namespaceRegexp |-> NoPattern, matching |-> MCObjects]

\* Two selectors of one group that overlap, one of another group with labels,
\* and one that asks for another Review than the second did.
MCSelectors ==
  << [All EXCEPT !.kindsRegexp = Pattern(MCKinds \ {"events"}),
                 !.excludeKinds = {"reviews"},
                 !.namespaceRegexp = Pattern({"system"})],
     [All EXCEPT !.kinds = {"maps", "reviews", "events"}, !.names = {"a"},
                 !.nameRegexp = Pattern({"b"}), !.excludeNameRegexp = Pattern({"b"}),
                 !.namespaces = {"user"}, !.namespaceRegexp = Pattern({"system"})],
     [All EXCEPT !.group = "mgmt", !.matching = {Object("settings", "", "b")}],
     [All EXCEPT !.kinds = {"reviews"}, !.names = {"b"}] >>
=============================================================================
