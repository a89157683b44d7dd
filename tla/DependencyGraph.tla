--------------------------- MODULE DependencyGraph ---------------------------
(***************************************************************************)
(* The dependencies that an addon test expects to be deployed              *)
(* (buildDependencyGraph of testaddons/dependency_graph.go).  A node is an *)
(* offering and a flavor, which have one version here.  The catalog gives  *)
(* for an offering the dependencies that it lists, each with its name,     *)
(* whether it is on by default, its default flavor, "" for none, and its   *)
(* flavors.                                                                *)
(*                                                                         *)
(* The user's configuration is a tree, given here as a list: an entry has  *)
(* a name, a flavor or none (""), whether it is enabled ("yes", "no", ""   *)
(* for not set), and the number of the entry whose dependency it is, 0 for *)
(* the addon's own.                                                        *)
(***************************************************************************)
EXTENDS AddonChecks

Root == 0

\* The number of a configuration that is made up, without dependencies.
Synthesized == -1

FirstIn(numbers) == CHOOSE i \in numbers : \A k \in numbers : i <= k

\* The first dependency of that name, or of that name and flavor, is the user's.
EntriesNamed(config, at, name) ==
    {i \in DOMAIN config : config[i].parent = at /\ config[i].name = name}
FindDependencyByName(config, at, name) ==
    IF EntriesNamed(config, at, name) = {}
    THEN [name |-> name, flavor |-> "", enabled |-> "", parent |-> at]
    ELSE config[FirstIn(EntriesNamed(config, at, name))]

\* firstFlavor, the default flavor, the user's.
DepFlavor(config, at, dep) ==
    LET user == FindDependencyByName(config, at, dep.name).flavor
    IN  IF user # "" THEN user
        ELSE IF dep.default # "" THEN dep.default
        ELSE IF dep.flavors # <<>> THEN Head(dep.flavors) ELSE "fully-configurable"

ChildOf(config, at, dep) == <<dep.name, DepFlavor(config, at, dep)>>

\* What is disabled in the root's configuration is disabled in the whole tree.
Disabled(config) == {config[i].name : i \in {k \in DOMAIN config : /\ config[k].parent = Root
                                                                   /\ config[k].enabled = "no"}}

Include(config, at, dep) ==
    LET enabled == FindDependencyByName(config, at, dep.name).enabled
    IN  /\ dep.name \notin Disabled(config)
        /\ enabled = "yes" \/ (dep.onByDefault /\ enabled # "no")

\* The configuration of a child is looked for with its flavor, which the user may not have
\* written: then the child has none.
ChildConfig(config, at, child) ==
    LET found == {i \in EntriesNamed(config, at, child[1]) : config[i].flavor = child[2]}
    IN  IF found = {} THEN Synthesized ELSE FirstIn(found)

\* All nodes that a tree may have.
FlavorsListed(deps) ==
    UNION {{deps[i].default} \cup ToSet(deps[i].flavors) : i \in DOMAIN deps}
AllFlavors(catalog, node, config) ==
    {node[2], "fully-configurable"} \cup {config[i].flavor : i \in DOMAIN config}
    \cup UNION {FlavorsListed(catalog[n]) : n \in DOMAIN catalog}
AllNodes(catalog, node, config) == (DOMAIN catalog) \X AllFlavors(catalog, node, config)

\* buildDependencyGraphWithDisabled is called for a node, with the number of its configuration
\* and the nodes that have been visited.
Build(node, at, visited) == [node |-> node, at |-> at, visited |-> visited]
Builds(nodes, config) ==
    [node : nodes, at : Synthesized .. Len(config), visited : SUBSET nodes]

Unchanged(call) == [graph |-> <<>>, expected |-> <<>>, visited |-> call.visited, error |-> FALSE]

\* The graph is a list of edges.
Merge(result, child) ==
    [graph |-> result.graph \o child.graph, expected |-> result.expected \o child.expected,
     visited |-> result.visited \cup child.visited, error |-> child.error]

\* One dependency, below being what calls from there answer.
AddDependency(catalog, config, below, call, result, dep) ==
    LET child == ChildOf(config, call.at, dep)
        with == [result EXCEPT !.graph = Append(@, <<call.node, child>>)]
    IN  IF result.error \/ ~Include(config, call.at, dep) THEN result
        ELSE IF dep.name \notin DOMAIN catalog THEN [result EXCEPT !.error = TRUE]
        ELSE Merge(with, below[Build(child, ChildConfig(config, call.at, child), result.visited)])

\* All dependencies of a node, in the catalog's order.
BuildNode(catalog, config, below, call) ==
    LET listed == catalog[call.node[1]]
        built[j \in 0 .. Len(listed)] ==
            IF j = 0
            THEN [graph |-> <<>>, expected |-> <<call.node>>,
                  visited |-> call.visited \cup {call.node}, error |-> FALSE]
            ELSE AddDependency(catalog, config, below, call, built[j - 1], listed[j])
    IN  IF call.node \in call.visited THEN Unchanged(call) ELSE built[Len(listed)]

\* The recursion goes no deeper than there are nodes: each level goes on with the level below.
BuildLevel(catalog, nodes, config, below) ==
    [call \in Builds(nodes, config) |-> BuildNode(catalog, config, below, call)]
NoBuildLevel(nodes, config) == [call \in Builds(nodes, config) |-> Unchanged(call)]

BuildDependencyGraph(catalog, node, config) ==
    LET nodes == AllNodes(catalog, node, config)
        levels == Cardinality(nodes)
        builds[k \in 0 .. levels] ==
            IF k = 0 THEN NoBuildLevel(nodes, config)
            ELSE BuildLevel(catalog, nodes, config, builds[k - 1])
    IN  builds[levels][Build(node, Root, {})]
-----------------------------------------------------------------------------
\* A dependency that is on by default, and that the user has disabled nowhere.
Undisputed(config, dep) ==
    /\ dep.onByDefault
    /\ \A i \in DOMAIN config : config[i].name = dep.name => config[i].enabled # "no"

\* The tree has its root first, no node twice and, but for the root, nothing that the user
\* has disabled; every other node is a dependency of some node of it; the root's dependencies
\* are there as the user and the catalog want them, and of every node those that nobody has
\* disabled; so that a project with just these configurations is valid.
TreeRight(catalog, node, config, tree) ==
    tree.error \/
    LET nodes == ToSet(tree.expected)
        edges == ToSet(tree.graph) IN
    /\ tree.expected # <<>> /\ tree.expected[1] = node
    /\ \A i, k \in DOMAIN tree.expected : tree.expected[i] = tree.expected[k] => i = k
    /\ \A n \in nodes \ {node} : n[1] \notin Disabled(config) /\ \E m \in nodes : <<m, n>> \in edges
    /\ \A e \in edges : e[1] \in nodes
    /\ \A dep \in ToSet(catalog[node[1]]) :
          Include(config, Root, dep) => ChildOf(config, Root, dep) \in nodes
    /\ \A n \in nodes : \A dep \in ToSet(catalog[n[1]]) :
          Undisputed(config, dep) => \E m \in nodes : m[1] = dep.name
    /\ ValidateDependencies(tree.graph, tree.expected, tree.expected).valid
=============================================================================
