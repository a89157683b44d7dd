--------------------------- MODULE AddonValidation ---------------------------
(***************************************************************************)
(* Which disabled dependencies an addon test enables before it deploys,    *)
(* because their parent requires them                                      *)
(* (validateAndProcessRequiredDependencies of testaddons/tests.go).        *)
(*                                                                         *)
(* The user's configuration is a tree, given here in the order in which it *)
(* is walked: the root first, and every node after its parent, whose       *)
(* number it has.  A node has a name, a version, "" where it is not known, *)
(* whether it is enabled and whether it is required ("yes", "no", "" for   *)
(* not set), and who requires it.  The catalog gives for a version the     *)
(* dependencies that it lists, each with what it says of optional and of   *)
(* onByDefault, or an empty list where the lookup fails.                   *)
(***************************************************************************)
EXTENDS Integers, Sequences

\* findParentAddonConfig: the first of that name; every parent is in the tree.
FindAddonConfig(config, name) ==
    config[CHOOSE i \in DOMAIN config : /\ config[i].name = name
                                        /\ \A k \in 1 .. i - 1 : config[k].name # name]

\* What is known after one more entry: the first entry of that name that says something of
\* optional or of onByDefault decides.
SaidOf(name, said, entry) ==
    IF said # "" \/ entry.name # name THEN said
    ELSE IF entry.optional # "" THEN entry.optional
    ELSE IF entry.onByDefault # "" THEN "yes" ELSE ""

RequiredInCatalog(listed, name) ==
    LET optional[i \in 0 .. Len(listed)] ==
            IF i = 0 THEN "" ELSE SaidOf(name, optional[i - 1], listed[i])
    IN  optional[Len(listed)] = "no"

CheckIfDependencyIsRequired(catalog, config, dep, parentName) ==
    LET parent == FindAddonConfig(config, parentName) IN
    IF dep.required # "" THEN dep.required = "yes"
    ELSE parent.version \in DOMAIN catalog /\ RequiredInCatalog(catalog[parent.version], dep.name)

ProcessDependency(catalog, config, dep) ==
    LET parentName == config[dep.parent].name IN
    IF dep.enabled = "no" /\ CheckIfDependencyIsRequired(catalog, config, dep, parentName)
    THEN [dep EXCEPT !.enabled = "yes", !.required = "yes", !.by = parentName]
    ELSE dep

\* processRequiredDependenciesRecursively; what is below a disabled dependency is processed
\* all the same.
ProcessRequiredDependencies(catalog, config) ==
    [i \in DOMAIN config |-> IF i = 1 THEN config[1]
                             ELSE ProcessDependency(catalog, config, config[i])]

-----------------------------------------------------------------------------
\* The catalog requires a dependency if the first entry of its name that is not silent says
\* that it is not optional.
Silent(entry) == entry.optional = "" /\ entry.onByDefault = ""
SaysRequired(listed, name) ==
    \E i \in DOMAIN listed :
        /\ listed[i].name = name /\ listed[i].optional = "no"
        /\ \A k \in 1 .. i - 1 : listed[k].name = name => Silent(listed[k])

\* The user may have said whether it is required; if not, a version of the parent does.
IsRequired(catalog, version, dep) ==
    \/ dep.required = "yes"
    \/ /\ dep.required = "" /\ version \in DOMAIN catalog
       /\ SaysRequired(catalog[version], dep.name)

EnabledBy(catalog, version, dep) ==
    IF dep.enabled = "no" /\ IsRequired(catalog, version, dep) THEN "yes" ELSE dep.enabled

\* The first node of the tree that has the name of node p: p itself, or a namesake before it.
FirstOfName(config, p, k) ==
    k <= p /\ config[k].name = config[p].name /\ \A j \in 1 .. k - 1 : config[j].name # config[p].name

OneVersionOf(config, p) ==
    \A k \in DOMAIN config : config[k].name = config[p].name => config[k].version = config[p].version

\* A dependency that its parent requires is not left disabled, and one that need not be there
\* is left as the user wants it, whenever the nodes of the parent's name have one version.
\* The parent is looked for by its name: in a tree that repeats it with other versions, it is
\* the first of them whose version decides, for the dependencies of all.
RequiredRight(catalog, config, result) ==
    /\ Len(result) = Len(config)
    /\ \A i \in 2 .. Len(config) :
          LET p == config[i].parent IN
          /\ OneVersionOf(config, p)
             => result[i].enabled = EnabledBy(catalog, config[p].version, config[i])
          /\ \E k \in 1 .. p :
                /\ FirstOfName(config, p, k)
                /\ result[i].enabled = EnabledBy(catalog, config[k].version, config[i])
=============================================================================
