--------------------------- MODULE AddonDecisions ---------------------------
(***************************************************************************)
(* What an addon test tries and decides, each function being asked once    *)
(* with some arguments: the dependencies that it enables because they are  *)
(* required, the tree that it expects, the cases of a permutation run,     *)
(* whether the project's configurations are those expected, whether some   *)
(* refer to one another in a circle, and whether the test goes on to       *)
(* deploy.  A task is the function's theme and its arguments, as in        *)
(* Choices.                                                                *)
(***************************************************************************)
EXTENDS Choices, Permutations, DependencyGraph, AddonValidation

CONSTANT AddonTasks

(* What a permutation run is asked for: dependencies with names of their   *)
(* own, each with flavors that differ, and any sets to skip.               *)
Offered == [name : STRING, flavors : Seq(STRING \ {Off})]
SkipEntry == [name : STRING, flavor : STRING]
FlavorsDistinct(deps) ==
    \A j \in DOMAIN deps : \A a, b \in DOMAIN deps[j].flavors :
        deps[j].flavors[a] = deps[j].flavors[b] => a = b
PermutationsFor(deps, skips) ==
    /\ deps \in Seq(Offered) /\ Distinct(deps) /\ FlavorsDistinct(deps)
    /\ skips \in Seq(Seq(SkipEntry))

ValidationTask(t) ==
    /\ t.graph \in Seq(STRING \X STRING)
    /\ t.expected \in Seq(STRING) /\ t.deployed \in Seq(STRING)

\* A graph has, for each of finitely many configurations, a list of some of them; they are the
\* roots of the search, in any order.
IsGraph(graph) == graph \in [DOMAIN graph -> Seq(DOMAIN graph)] /\ IsFiniteSet(DOMAIN graph)
CycleTask(t) ==
    IsGraph(t.graph) /\ t.roots \in Seq(DOMAIN t.graph) /\ ToSet(t.roots) = DOMAIN t.graph

Configuration == [id : STRING, state : STRING, refs : Seq(STRING), service : STRING,
                  known : BOOLEAN, missing : BOOLEAN,
                  reads : {"ok", "not updated", "unreadable", "refused"}]
VerdictOptions == [skipRefs : BOOLEAN, skipInfra : BOOLEAN, skipDependencies : BOOLEAN,
                   strict : BOOLEAN]
OneOfEachId(configs) == \A i, k \in DOMAIN configs : configs[i].id = configs[k].id => i = k
VerdictTask(t) ==
    /\ t.opts \in VerdictOptions /\ t.valid \in BOOLEAN
    /\ t.configs \in Seq(Configuration) /\ OneOfEachId(t.configs)

\* The dependencies that the catalog lists, and what the user writes: a tree for some of the
\* catalog's offerings.
YesNo == {"", "yes", "no"}
Dependency == [name : STRING, onByDefault : BOOLEAN, default : STRING, flavors : Seq(STRING)]
UserEntry == [name : STRING, flavor : STRING, enabled : YesNo, parent : Nat]
TreeFor(catalog, node, config) ==
    /\ catalog \in [DOMAIN catalog -> Seq(Dependency)] /\ IsFiniteSet(DOMAIN catalog)
    /\ node \in (DOMAIN catalog) \X STRING
    /\ config \in Seq(UserEntry)

\* The user's tree, each node after its parent; a name may stand at several nodes of it, with
\* a version of its own at each.
TreeEntry == [name : STRING, version : STRING, enabled : YesNo, required : YesNo, by : STRING,
              parent : Nat]
ListedEntry == [name : STRING, optional : YesNo, onByDefault : YesNo]
IsTree(config) ==
    /\ config \in Seq(TreeEntry) /\ config # <<>>
    /\ \A i \in 2 .. Len(config) : config[i].parent \in 1 .. i - 1
ListsEntries(catalog) == catalog \in [DOMAIN catalog -> Seq(ListedEntry)]
RequiredTask(t) == ListsEntries(t.catalog) /\ IsTree(t.config)

ASSUME AddonTasksAssumption ==
    \A t \in AddonTasks :
        \/ t.kind = "required" /\ RequiredTask(t)
        \/ t.kind = "tree" /\ TreeFor(t.catalog, t.node, t.config)
        \/ t.kind = "permutations" /\ PermutationsFor(t.deps, t.skips)
        \/ t.kind = "validation" /\ ValidationTask(t)
        \/ t.kind = "cycles" /\ CycleTask(t)
        \/ t.kind = "verdict" /\ VerdictTask(t)

AddonKinds == {"required", "tree", "permutations", "validation", "cycles", "verdict"}

AddonAnswer(t) ==
    CASE t.kind = "required" -> ProcessRequiredDependencies(t.catalog, t.config)
      [] t.kind = "tree" -> BuildDependencyGraph(t.catalog, t.node, t.config)
      [] t.kind = "permutations" -> GeneratePermutationsWithFlavors(t.deps, t.skips)
      [] t.kind = "validation" -> ValidateDependencies(t.graph, t.expected, t.deployed)
      [] t.kind = "cycles" -> DetectCircularDependencies(t.graph, t.roots)
      [] t.kind = "verdict" -> Verdict(t.opts, t.configs, t.valid)

AddonsInit == task \in AddonTasks /\ out = <<>>

AddonsNext == out = <<>> /\ out' = <<AddonAnswer(task)>> /\ task' = task

AddonsSpec == AddonsInit /\ [][AddonsNext]_<<task, out>>
-----------------------------------------------------------------------------
\* What an addon test tries and decides is right: it enables the dependencies that are
\* required and no other, it expects the tree of those that are enabled, a permutation run
\* has one case for every choice that is not skipped, a project is valid just if it is as
\* expected, a circle of references is found just if there is one, and a test goes on only
\* if it can.
AddonsRight ==
    /\ Answered("required") => RequiredRight(task.catalog, task.config, out[1])
    /\ Answered("tree") => TreeRight(task.catalog, task.node, task.config, out[1])
    /\ Answered("permutations") => PermutationsRight(task.deps, task.skips, out[1])
    /\ Answered("validation") =>
          ValidationRight(task.graph, task.expected, task.deployed, out[1])
    /\ Answered("cycles") => CyclesRight(task.graph, out[1])
    /\ Answered("verdict") => VerdictRight(task.opts, task.configs, task.valid, out[1])
=============================================================================
