------------------------------ MODULE MCHelpers ------------------------------
(***************************************************************************)
(* What parallel tests do with one CloudInfoService, the loggers, a test   *)
(* that runs Terraform, and the pure functions.  They share no state, so   *)
(* that a behaviour is one of one of them: their interleavings would show  *)
(* nothing else.                                                           *)
(***************************************************************************)
EXTENDS RefResolver, ApiCache, RegionSelection, Logger, TerraformTest,
        AddonDecisions

Tasks == INSTANCE LibraryTasks
Reports == INSTANCE AddonReport
Deployments == INSTANCE AddonTree
Plans == INSTANCE DataHelpers

VARIABLE part

\* TLC sorts a set when it counts it, and takes much longer for a union of sets that are not
\* sorted, or without the parentheses.
Sorted(S) == IF Cardinality(S) > 0 THEN S ELSE {}

MCChoiceTasks ==
    Sorted(Tasks!VersionTasks) \cup (Sorted(Tasks!RetryTasks) \cup (Sorted(Tasks!RegionTasks)
    \cup (Sorted(Tasks!GitTasks) \cup (Sorted(Tasks!ChangeTasks) \cup (Sorted(Tasks!StackTasks)
    \cup Tasks!ReferenceTasks)))))

MCAddonTasks ==
    Sorted(Tasks!RequiredTasks) \cup (Sorted(Tasks!TreeTasks) \cup (Sorted(Tasks!PermutationTasks)
    \cup (Sorted(Tasks!ValidationTasks) \cup (Sorted(Tasks!CycleTasks)
    \cup Tasks!VerdictTasks))))

libraryVars == <<task, out>>

\* The files that tests come with: none, or the regions in an order of their own, one of
\* them not meant for tests, or one of them named twice.
Preference(name, use, priority) == [name |-> name, use |-> use, priority |-> priority]
MCPrefsFiles ==
    {<<>>,
     <<Preference("r3", TRUE, 2), Preference("r2", FALSE, 1), Preference("r1", TRUE, 1)>>,
     <<Preference("r3", TRUE, 2), Preference("r2", TRUE, 1), Preference("r3", TRUE, 1)>>}

allVars == <<part, resolverVars, cacheVars, regionVars, loggerVars, terraformVars, libraryVars>>

Idle == [kind |-> "none"]

NoTest == [kind |-> "plan", modified |-> FALSE, checkApply |-> FALSE, implicitRequired |-> FALSE,
           doNotDestroy |-> FALSE, skipTearDown |-> FALSE]

\* The results of a function, for each kind of task.
ResultOfTask ==
    CASE task.kind \in ChoiceKinds -> ChoiceOf(task)
      [] task.kind \in AddonKinds -> AddonAnswer(task)
      [] task.kind = "deploy" ->
            Deployments!DeployAddonToProject(task.catalog, task.main, task.outcomes, task.existing)
      [] task.kind = "print" ->
            LET edges == Tasks!EdgesOf(task.graph)
            IN  [edges |-> edges, tree |-> Reports!PrintAddonTree(edges, task.root, <<>>),
                 all |-> Reports!PrintDeployment(edges, task.deployed, task.validation)]
      [] task.kind = "report" -> Reports!GeneratePermutationReport(task.results)
      [] task.kind = "plan" -> Plans!SanitizeJSON(task.plan, {"password"})

Init ==
    /\ part \in {"resolver", "cache", "regions", "logger", "terraform", "library"}
    /\ ResolverInit
    /\ CacheInit
    /\ RegionInit
    /\ part # "regions" => account = [available |-> RegionNames,
                                      count |-> [r \in RegionNames |-> 0]]
    /\ LoggerInit
    /\ part # "logger" => ~buffered
    /\ TerraformInit
    /\ part # "terraform" => test = NoTest
    /\ IF part # "library" THEN task = Idle
       ELSE \/ task \in ChoiceTasks \/ task \in AddonTasks
            \/ task \in Tasks!DeployTasks \/ task \in Tasks!PrintTasks
            \/ task \in Tasks!ReportTasks \/ task \in Tasks!PlanTasks
    /\ out = <<>>

Resolves == part = "resolver" /\ ResolverNext
            /\ UNCHANGED <<part, cacheVars, regionVars, loggerVars, terraformVars, libraryVars>>
LooksUp == part = "cache" /\ CacheNext
           /\ UNCHANGED <<part, resolverVars, regionVars, loggerVars, terraformVars, libraryVars>>
Chooses == part = "regions" /\ RegionNext
           /\ UNCHANGED <<part, resolverVars, cacheVars, loggerVars, terraformVars, libraryVars>>
Logs == part = "logger" /\ LoggerNext
        /\ UNCHANGED <<part, resolverVars, cacheVars, regionVars, terraformVars, libraryVars>>
RunsTerraform == part = "terraform" /\ TerraformNext
                 /\ UNCHANGED <<part, resolverVars, cacheVars, regionVars, loggerVars, libraryVars>>
Computes == part = "library" /\ out = <<>> /\ out' = <<ResultOfTask>>
           /\ UNCHANGED <<part, task, resolverVars, cacheVars, regionVars, loggerVars, terraformVars>>

Next == Resolves \/ LooksUp \/ Chooses \/ Logs \/ RunsTerraform \/ Computes

Spec == Init /\ [][Next]_allVars /\ CacheFairness
-----------------------------------------------------------------------------
List == Deployments!BuildHierarchicalDeploymentList(out[1].addon)

\* What an addon test deploys and tells of a failure is right: the list that is deployed, what
\* is printed of it, and the report of a permutation run with its causes; and what is shown of
\* a plan holds no secret.
TreesAndReportsRight ==
    /\ Answered("deploy") =>
          out[1].error \/ Deployments!DeployedListRight(task.catalog, task.main, List)
    /\ Answered("print") =>
          /\ Reports!TreesRight(out[1].edges, task.root, out[1].tree)
          /\ Reports!DeploymentRight(out[1].edges, task.deployed, task.validation, out[1].all)
    /\ Answered("report") => Reports!ReportRight(task.results, out[1])
    /\ Answered("plan") => Plans!NothingSecretIsLeft(task.plan, {"password"}, out[1])

\* "If an offering appears multiple times in the dependency tree, only the topmost occurrence
\* is deployed" (cloudinfo/catalog.go:956): a dependency that the user has configured is
\* deployed with the configuration that he gave it.
TopmostOccurrenceDeployed ==
    Answered("deploy") => out[1].error \/ Deployments!TopmostIsDeployed(task.main, List)
=============================================================================
