------------------------- MODULE MCDependencyGraph -------------------------
(* Archives for the runs of DependencyGraph.                               *)
EXTENDS DependencyGraph

CONSTANTS c1, c2, k, n1, n2, x

MCCluster == {c1, c2, k}
MCNamespaced == {n1, n2, x}

\* Two cluster-scoped objects, a CRD k and two namespaced objects; x is never
\* in the archive.
Archive(owners, rancher, unresolved, builtin, tolerated) ==
  [objects |-> {c1, c2, n1, n2}, crds |-> {k},
   owners |-> [o \in MCCluster \cup MCNamespaced |->
                 IF o \in DOMAIN owners THEN owners[o] ELSE {}],
   rancher |-> rancher, unresolved |-> unresolved, builtin |-> builtin,
   tolerated |-> tolerated]

\* Every way two objects of a scope can own each other, themselves or be
\* owned by an absent object.
AllOwners ==
  {[o \in {c1, c2, n1, n2} |-> CASE o = c1 -> s1 [] o = c2 -> s2
                                 [] o = n1 -> s3 [] o = n2 -> s4] :
     s1 \in SUBSET {c1, c2, x}, s2 \in SUBSET {c1, k},
     s3 \in SUBSET {c1, n1, n2, x}, s4 \in SUBSET {c1, c2, n1}}
AllArchives == {Archive(f, {}, {}, {}, {}) : f \in AllOwners}

\* A chain through both scopes, and a fan with a dangling reference.
Shapes ==
  {[o \in {c2, n1, n2} |-> CASE o = c2 -> {c1} [] o = n1 -> {c2}
                              [] o = n2 -> {n1, k}],
   [o \in {c1, n1, n2} |-> CASE o = c1 -> {k} [] o = n1 -> {c1, c2}
                              [] o = n2 -> {c2, n1}],
   [o \in {n1, n2} |-> CASE o = n1 -> {c1} [] o = n2 -> {n1, x}]}

\* An archive without cycles in which the owner x of n2 is missing.
DanglingArchives ==
  {Archive([o \in {n1, n2} |-> IF o = n1 THEN {c1} ELSE {n1, x}],
           {}, {}, {}, {})}

\* The shapes, with every choice of the objects that are treated apart.
SpecialArchives ==
  {Archive(f, ra, un, bu, to) :
     f \in Shapes, ra \in {{}, {n1}}, un \in SUBSET {c2, n2},
     bu \in SUBSET {c1, n1}, to \in SUBSET {c2, n1}}

EveryArchive == AllArchives \cup SpecialArchives
=============================================================================
