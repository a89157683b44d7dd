# Verification of ibmcloud-terratest-wrapper

TLA+ models of the Go library `ibmcloud-terratest-wrapper`, which runs
integration tests of Terraform modules, stacks and catalog addons against IBM
Cloud. A test makes things in the cloud (a catalog, an offering, a project, a
workspace, the infrastructure itself), waits for a service it does not control,
decides whether it passed, and cleans up. What is hard to test about the library
is exactly that: who makes and deletes what when steps fail, panic, are retried or
run in parallel. It is what the modules here are about.

* [The system](#the-system): the inventory
* [The modules](#the-modules): which models what, and how it corresponds to the code
* [The runs](#the-runs): what TLC checks, with which bounds and fairness
* [Where the code and its documents disagree](#where-the-code-and-its-documents-disagree)
* [The proofs](#the-proofs)
* [What is not modelled](#what-is-not-modelled)
* [Observations](#observations)
* [What is left](#what-is-left)

All source paths are relative to `src/`.

## The system

### Test runners

| Part | State | Operations | Uses | What is hard |
|---|---|---|---|---|
| Matrix runner, `testaddons/tests.go:1665` | shared catalog options under `sharedMutex`; shared report under `resultMutex`; a `WaitGroup`; clean-up functions of `testing.T` | `runAddonTestMatrix`, `RunAddonTestMatrix`, `CleanupSharedResources`, `collectTestResult` | one addon test per subtest | parallel subtests; unlocking by hand; a clean-up registered by a goroutine nobody waits for; failure of the creator after it has published its options |
| Addon test, `testaddons/tests.go:56` | catalog, offering, project, the failed flag | `runAddonTest`, `testTearDown`, `Undeploy`, hooks | catalog and projects helpers, the stack loops, the validation algorithms | two deferred recoveries, early returns, clean-up that depends on how the test failed |
| Stack (projects) test, `testprojects/tests.go:831` | the same, and the stack's configuration | `RunProjectsTest`, `TestTearDown` | the same | the same, and a wait for pipelines with a deadline |
| Stack deployment loops, `testprojects/tests.go:136-820` | stack and member states as last read, `memberStateStartTime` | `TriggerDeployAndWait`, `TriggerUnDeploy`, `TriggerUnDeployAndWait`, `TrackAndResyncState` | Projects service | polling while everything moves, order-dependent flags, nil fields, time |
| Schematics test, `testschematic/tests.go` | workspace, whether Terraform has started and has created anything | plan, apply, upgrade, destroy, workspace deletion | Schematics client | jobs that end late or never; which failures keep the workspace |
| Terraform test, `testhelper/tests.go` | working directory, state file | apply, consistency plan, upgrade, destroy | the `terraform` command | early returns, errors that are shadowed, a wait without an end |

### Algorithms

| Part | What it computes | What is hard |
|---|---|---|
| Permutation generator, `testaddons/tests.go:2351-3260` | test cases: every subset of the dependencies and their flavors | counts, exclusions, collisions of abbreviated names |
| Permutation report, `testaddons/permutation_report.go`, `print_utils.go` | what is told of a run: results, causes, trees | texts matched by patterns that overlap, trees with repeated nodes |
| Dependency graph and validation, `testaddons/dependency_graph.go`, `config_validation.go`, `tests.go:3270` | the expected tree, the deployed list, cycles of references, required dependencies | recursion with visited sets, order of maps |
| Reference resolver, `cloudinfo/ref_resolver.go` | values of `ref://` inputs | retries, failover between regions, a region that is remembered |
| Stack reference resolver, `common/stack_ref_resolver.go` | references between the members of a stack | one pass, in which a chain of references resolves only as far as it leads up |
| Stack configuration, `cloudinfo/projects.go:553-1010` | the inputs of a stack from a definition file, a catalog file and the test's options | precedence |
| Region selection, `cloudinfo/region.go` | the region with the least use | ties, regions without data |
| Versions, `common/version.go` | the latest version that meets a constraint | boundaries |

### Services and helpers

The **cloud info service** (`cloudinfo/service.go`) is one object that parallel
subtests may share: SDK clients, a cache of answers with a time to live, the region
of the last failover. **Catalog and projects helpers** wrap the SDK; the ones that
make something (`CreateCatalog`, `ImportOffering`, `SetupProject`) go through
`RetryWithConfig` (`common/retry.go`). **Loggers** (`common/logger.go`) buffer
messages until a test fails. **Git** helpers call the git command line.

### How the parts interact

```
RunAddonPermutationTest ── generates ──► runAddonTestMatrix
RunAddonTestMatrix ────────────────────►   │  one parallel subtest per case
                                           ▼
RunAddonTest ───────────────────────► runAddonTest ── setup ──► SetupCatalog, setupOffering,
                                           │                    SetupProject   (retried)
                                           ├─ validation of references and dependencies
                                           ├─ TriggerDeployAndWait ─┐
RunProjectsTest ─── the same steps ────────┤                        ├─ polls the Projects service
                                           └─ TestTearDown ─────────┘  (TriggerUnDeploy[AndWait])
                                                 └─ deletion of the project (retried), the catalog
```

Calls go down; user code is called back in hooks, which may panic or call
`t.FailNow`. Subtests share memory (two mutexes and a counter). The services are
shared, and change state between any two calls.

### What makes each part correct

* Matrix: one creator of the shared catalog; nobody uses it after it is deleted; no
  result is lost; the printed report is complete; a failure reaches the parent test;
  the matrix ends.
* Deployment: success means that every member was deployed, failure that one
  failed; undeployment likewise; both return.
* Tests: a pass means that the thing was deployed; the project is deleted only when
  nothing of it is deployed, its undeployment has ended without an error, or its
  resources were to be kept, no pipeline of it runs, and the test has not failed; a pass leaves nothing behind; the test ends.
* Validation: a cycle is reported if and only if there is one; the deployed list is
  compared with the expected tree as sets.
* Resolver and cache: an answer is used for what it was asked for, in the right
  environment, and not after its time.

`PROJECT.json` lists the hazards at their lines, with the properties that would
catch each of them, or the reason why none does.

## The modules

| Module | Models | Composition |
|---|---|---|
| `MatrixRunner` | `runAddonTestMatrix` | refines `SharedResource` |
| `SharedResource` | abstract: what is promised of a resource that test cases share | |
| `StackDeployment` | the four loops of `testprojects` and the service they poll | |
| `StackResync` | the same with a history of what was read | extends `StackDeployment` |
| `CloudResources` | catalog, offering and project: retried calls and lost answers | |
| `ProjectsTest` | `RunProjectsTest`, its deferred function, `TestTearDown` | extends `CloudResources` |
| `AddonTest` | `runAddonTest`, its deferred functions, `testTearDown` | extends `CloudResources` |
| `SchematicTest` | `executeSchematicTest`, `testTearDown`, the jobs and the service that runs them | |
| `TerraformTest` | `RunTest`, `RunTestPlan`, `RunTestConsistency`, `RunTestUpgrade` and their tear-down | in `MCHelpers` |
| `RefResolver` | parallel resolutions of references with retries and failover | in `MCHelpers` |
| `ApiCache` | the caches of API answers and the four lookups that use them | in `MCHelpers` |
| `RegionSelection`, `RegionChoice` | parallel tests that choose a region; the choice itself | the first extends the second; in `MCHelpers` |
| `Logger` | `SmartLogger` around a `TestLogger` or a `BufferedTestLogger` | in `MCHelpers` |
| `VersionConstraint`, `RetryPolicy`, `GitHelpers`, `DataHelpers` | `common/version.go`, `retry.go`, `git.go`, `json_helpers.go` and `general.go` | operators |
| `Choices` | the seven choices that pure functions make, as a specification of one step: version, retry, region, git base, files not pushed, a stack's inputs and what its references stand for | extends `RegionChoice`, `VersionConstraint`, `RetryPolicy`, `GitHelpers`, `StackInputs`, `StackReferences`; in `MCHelpers` |
| `AddonTree`, `StackInputs`, `StackReferences` | what `cloudinfo` completes, deploys and resolves of an addon and of a stack | operators; `AddonTree` extends `RetryPolicy` |
| `Permutations`, `AddonChecks`, `DependencyGraph`, `AddonValidation` | what an addon test tries, decides, expects and requires | operators; `DependencyGraph` extends `AddonChecks` |
| `AddonDecisions` | the six of these functions as a specification of one step: required dependencies, expected tree, test cases, comparison with what is expected, circles of references, verdict | extends `Choices`, `Permutations`, `DependencyGraph`, `AddonValidation`; in `MCHelpers` |
| `AddonDependencies`, `AddonReport` | what an addon test finds deployed and misses, and what it tells | operators; `AddonReport` extends `AddonDependencies`, and that `AddonChecks` |
| `Loops` | loops that append what they do not pass over | operators, in `RegionChoice` and `AddonChecks` |
| `LibraryTasks` | the bounded inputs of the operators | |
| `MCMatrixRunner` | the instance for TLC with three test cases | extends `MatrixRunner` |
| `MCHelpers` | the instance for TLC of everything above that says so | extends or instantiates it |
| `*_proof` | theorems and their proofs | extend the module they are about and `TLAPS` |

### MatrixRunner

One process per subtest (`pc[t]`), one for the parent, one for the goroutine that
registers the shared clean-up. A subtest passes the places of the code in order:
`prepare` (copying the options, the user's functions), `lock` and the section of
`sharedMutex` (`section`, `validate`, `create`, `import`), `setup` and `run`
(`runAddonTest`), `collect` and `append` (the section of `resultMutex`), `exit` (its
deferred function: recover, `resultWg.Done`). `sharedMutex` and `resultMutex` are
their holders. A subtest is identified with its test case, a catalog with the
subtest that made it: `cloud` is the set of catalogs that exist.

* `BecomeCreator` publishes the options (2097) before anything has been created, as
  the code does; `TakeShared` copies what they hold, nil included (2168).
* `CreateShared` with the reply `"incomplete"` is a catalog without an ID: it is only
  warned about, and the import dereferences it while the mutex is held (2146).
* `AppendResult` writes the report that was read when the mutex was taken
  (`snapshot`), so that a model without the mutex would lose results, as
  unsynchronised code would.
* `StartCleanups` and `ParentEnd` are Go's testing package: subtests end before the
  clean-ups run, and the clean-ups run last registered first.

`SharedResource` is the promise: created once, joined while it lives, deleted once
and only when nobody uses it. The mapping reads `status` off the catalog of the
published options and `users` off the subtests that hold it and have not ended.

### StackDeployment

The service's side is `status`, one status per member, which moves by itself between
any two steps of the code (`MemberMoves`) along `GoesOn` and `Ends`, the latter for
work that ends even after an undeploy was accepted. The code's side is what it has
read: `stack`, then `list`, one member at a time (`ReadMember`), so a poll is no
snapshot. `phase` and `pc` say which function is where; a place is one call of the
service, one scan of the list, or a sleep.

* `Failed` and `Deployable` keep the order dependence of the scan's two flags
  (`testprojects/tests.go:267-384`): a later member may clear what an earlier one set.
* `CheckStuck` is the second look, after a sleep, at a stack that gives no hope.
* `TrackAndResyncState` keeps a clock per member from when it was first seen; `age`
  counts sleeps up to `Interval + 1`, which is "longer than the interval".
* Dereferencing a missing state is a panic at the place where the code does it. A
  panic of the deployment is recovered and the clean-up follows; one of the
  undeployment, which runs in the deferred function, ends everything.
* The code's branch for an incomplete list of members is not modelled:
  `GetStackMembers` returns all of them or an error.

`Truthful` bounds what the service may say of the stack: never something of its
members that is not true of them at that moment. This is an assumption on the
service, and the only one.

### CloudResources, ProjectsTest, AddonTest

`pc` is the step of the test; a retried step is one action per attempt. A reply is
`"ok"`, `"lost"` (carried out, but the answer is an error that is retried),
`"transient"` (not carried out, retried) or `"final"` (an error that is not retried).
So a lost answer to `CreateCatalog` leaves a catalog nobody knows of, one to the
creation of a project makes the next attempt find it existing (`current = "noid"`),
one to its deletion makes the next attempt find it gone, which is a success if the answer
says so in the words the code looks for, and may be any other error.

`failed`, `err` and `panicking` are the three ways in which a test goes wrong:
`testing.T`'s flag, a returned error, a panic that nobody has recovered yet. Many
steps set only some of them, as the code does. `infra` is what the project's
configurations have deployed; `"left"` is what an undeployment left behind that
ended without an error, because the stack was awaiting a member
(`testprojects/tests.go:779`). `busy` is a pipeline action of the project, which may
outlive an interrupted deployment and ends by itself or not at all.

The deployment and the undeployment are one step each here (`DeployEnds`,
`UndeployEnds`), whose outcomes are those `StackDeployment` gives them: without
an error a deployment has deployed (its `DeploySound`), and an undeployment has
removed what was deployed unless it ended as `"awaiting"` (its `UndeploySound`).

The two tests differ where their code does: what a hook's error does, whether
the undeployment of a failed test is waited for (`TriggersOnly`), what recovers a
panic of the clean-up (nothing in `ProjectsTest`, an outer function in `AddonTest`:
`torn`), the wait for the pipelines (only in `ProjectsTest`), the catalog's deletion
(only in `AddonTest`).

### SchematicTest

The test's side is `pc`, the `stage` (which job it is about) and the two marks
`TerraformTestStarted` and `TerraformResourcesCreated`; the service's side is the
sequence of `jobs` it has accepted, the code that was last uploaded, and whether
anything is deployed. A request is one step per attempt, with a reply that may be
lost after it was carried out, so that a retry can make a second job. A job goes
from `CREATED` to its end at any time, or never (`JobEnds`). `FindLatestJobByName`
may be given a list without the newest job. `WaitLonger` counts rounds up to
`JobTimeout`. The workspace's creation and the upload are not retried here: the test
calls the SDK for them directly, and leaves the client's retried forms unused.

### TerraformTest

`place` is the step; `dir` the directory that `TerraformOptions` points to,
`stateIn` the directories that hold the state of what is deployed. Nothing but the
removal of the directories is deferred, so `Aborts` (a hook's `FailNow` or panic) goes
straight to `return`. What an apply deploys is written at once where Terraform runs;
a destroy removes what the state it finds names, and succeeds where it finds none.
`undone` and `consistent` are histories: an apply that the test asked for failed, and
the last plan was empty.

### RefResolver, ApiCache, RegionSelection, Logger

What parallel tests share of one `CloudInfoService`.

* `RefResolver`: `send` and `sent` are apart, since others go on while a request is
  under way. `authenticator` counts replacements; `token` is the one a request was sent
  with. `tried` is the history of a caller's regions.
* `ApiCache`: an answer is known by what it is about and when the service gave it; its
  content is what the catalog held then. Looking, asking and storing are separate
  steps, `flight` is `singleflight`'s request that others wait for, and a lookup that
  has a leader's answer in hand may store it later. Errors are stored like results.
* `RegionSelection`: the lock of the service is held while a region is chosen; a VPC
  choice is a sequence of requests, each of which may fail and leaves the client's URL
  where it was. The other choices are operators of `RegionChoice`.
* `Logger`: the `buffer`, what was `output`, quiet mode and failure, with every method that
  prints, keeps back, flushes or throws away. A message is its number; its text is
  only the phase that it announces.

### The operators

The pure functions keep the names of the source. Each is translated with its control
(the order of cases, early returns, what is visited twice); texts are members of
small sets, and a map whose order matters is given in every order. Each module ends
with a definition of what the result should be, which does not use the function:
the set of all cases for `PermutationsRight`, a set that refers to itself for `CyclesRight`, the
greatest of the matching versions for `LatestVersionRight`, and so on. `LibraryTasks`
lists what they are asked.

* `StackInputs`: a value is its type of Go, what it says, and the number and the truth that it
  is read as, so that the conversions of `updateInputsFromCatalog` are there with what they
  lose. An unparsable number becomes 0, a float is cut off, a text that is no truth leaves
  what was there, and a value that is not even a text panics (`Takes`, `Taken`, `Refuses`);
  `AsText` panics over a value that is absent (`NoText`).
* `AddonReport`: a text is what it names and the form that it has, since the patterns of the
  report know some forms and not others (`Recognised`); so is a message, which has
  the configurations of a circle if it tells of one. `ReportRight` says that a box has all of
  each list of its test's errors and nothing else, as far as it knows their forms, and that the
  failed tests bear out what the analysis concludes.
* `AddonTree`: a node has the identity of its offering beside its name, which is what the list
  of the deployed is made by. The deployment ends as its requests do, with a result that has
  no configurations (`answered`), or with those that the project had already (`existing`).
* `AddonValidation`: `RequiredRight` says which version of a parent decides, in trees that
  repeat a name with other versions too. `Permutations`: `Skipped` says what a set to skip
  matches that names a dependency twice.

`Choices` makes a specification of seven of them: `task` is drawn from the constant
`ChoiceTasks`, the only step answers it. `ChoiceTasksAssumption` says what may be asked,
in types without bounds, and the proof is about any such set; the run takes the
tasks of `LibraryTasks` for it. Where the code would fail on an argument (a catalog without a product
or a flavor, whose first entry is taken) the assumption excludes it, and `MaxAttempts`
keeps the doubled delays within the 64 bits of a `time.Duration`. No input or output of a
stack is given `Unknown`, which stands for a value that is absent.

`AddonDecisions` does the same for six functions of addon tests, with
`AddonTasksAssumption`: names in a list of dependencies, flavors of one dependency, and the
configurations' IDs occur once. Of the IDs the service sees to this; of the dependencies of a
permutation run, which are read from `ibm_catalog.json`, the code does not
(`testaddons/tests.go:2535-2592`), and nothing is claimed of a file that repeats one. A
recursion of the code that goes no deeper than there are nodes, `findCycleDFS` or
`buildDependencyGraphWithDisabled`, is a recursive function on its depth: each level, from
the last one, is a call that goes on with the level below (`Level`, `BuildLevel`), which the
provers take where a RECURSIVE operator they do not. A tree that the user writes is a
list with each node after its parent: `processRequiredDependenciesRecursively`
walks over all of it, so that it treats each node of the list.

In `AddonChecks`, `Examine` is the body of the loop of `runAddonTest` over the project's
configurations, `Verdict` what it decides of them. It completes `AddonTest`, whose step
`validate` has its outcomes only.

## The runs

| Run | States | What it shows |
|---|---|---|
| `matrix` | 349,231 | with every reply and every way a subtest may end: exclusion, one catalog, a consistent and complete report, failures reach the parent, the matrix ends, the shared catalog refines `SharedResource` |
| `matrix_errors` | violation | an error without `Testing.Fail` leaves a plain matrix green |
| `matrix_catalogs` | violation | a failed creation makes a catalog per subtest |
| `stack` | 836,466 | with members that move between any two calls: what success and failure mean, and that both functions return |
| `stack_undeploy` | violation | the undeploy is triggered while the stack is busy |
| `stack_resync` | violation | a member that has just moved is synchronised as stuck |
| `projects_test` | 4,124 | every option, reply and panic: what a pass means, when the project may be deleted, that the test ends |
| `addon_test` | 14,516 | the same for an addon test, with shared catalogs |
| `addon_catalog` | violation | the catalog of a test that failed early is never deleted |
| `schematics` | 1,381,407 | answers lost, jobs listed late or never done: a pass leaves nothing, the workspace outlives what it deployed, a pass has checked the branch under test, the test ends |
| `helpers` | 533,760 | the shared service, the loggers, a Terraform test, and every pure function over all of `LibraryTasks` |
| `helpers_topmost` | violation | a dependency is deployed as a deeper occurrence, without the user's configuration |

**Bounds.** *Matrix*: three test cases with `MaxParallel = 2` is the least in which a
creator, a subtest that waits for the mutex, and one that has not started (or has
ended) exist together; a fourth adds another subtest in the same role. Exhaustive
in replies and ends; in half of the behaviours one of the cases has `CatalogUseExisting`,
which gives it no catalog (the code does not look one up). *Stack*: two members suffice for everything that the loops say
of pairs (order of the flags, one changing after the other was read); one of them is a
container (`Containers`), whose name keeps a draft that awaits its members from being
triggered again (`testprojects/tests.go:361`). `Interval = 0`
in the large run makes a resync due after one sleep, which is the least; the resync
run has `Interval = 1`, to tell "stuck" from "first seen". *Lifecycles*: two attempts
suffice for a retry, for a retry after a lost answer, and for the last attempt
failing; the code's five add only repetitions, and the type invariant of
`ProjectsTest`, which bounds the attempts, is proved for any number. *Schematics*:
`MaxRetries = 2` for the same reason, and `JobTimeout = 1`, the least wait that is not
over at once; an upgrade has as many jobs as its stages and their retries make.

*Helpers*: the parts share no state, so `part` chooses one and the others stay as they
begin. Two callers with one call each meet in every order of two requests; `us-east`
fails over to the other regions of production and `dev` to none. Two lookups, three in all
(`MaxLookups`), are a leader, one that joins it, and one that comes later; two
offerings and one constraint let a version locator be computed from a cached offering
and from another. `TTL = 1` and `MaxTime = 2` let an entry expire, and with `Bypass` versions are
stored but not read from the cache. That time is too short for
TLC to tell twice the time to live from any age that can be: of a version locator this bound of
`AnswersAreRightAndFresh` is shown by its proof only, that of one time to live by both.
Two tests choose a region, with counts up to
`MaxCount = 2`; two messages (`MaxMessages`) can change places. The operators' inputs
are up to four instances in three regions, three versions in a list, three nodes in a graph (every graph
and every order of its roots), three dependencies with up to two flavors, two
configurations of a project, two results in a report, four slots in a stack.

No run uses symmetry: most check a liveness property, with which it is not sound, and
the ones that do not are small.

**Deadlock** is checked except in the matrix's runs, where a catalog without an ID
really stops the program: the mutex is never unlocked (`MatrixEnds` names this
exception); in the violation runs of the stack, which stop at their violation; and in
`schematics` and the helpers' runs, where a test that has ended, or a function that has
answered, is the end.

**Fairness.** *Matrix*: every goroutine that can run eventually does, which is Go's
scheduler, whose mutexes are handed over to waiting goroutines; the user's functions
return. *Stack*: the code's own steps happen and the deadline passes. Nothing is
assumed of the members: `Returns` holds for a service that never moves. *Projects test*:
the same; a pipeline action need not end. *Schematics*: the test's own steps, the round
of a wait included; no job need end. *Cache* (`LookupsEnd`): each goroutine's own steps;
that the clock advances or that somebody clears the cache is not assumed. The addon
test and the Terraform test have no wait of their own that is modelled, so that they
end is not a question there.

Every property of a passing run has a mutant: the code's definition changed as a
plausible bug would change it (a mutex that is not taken, an unlock forgotten on one
path, a panic that does not fail the test, a deadline that is not looked at, an answer
that those who wait for it never get), under which TLC finds the property violated. The mutated operators
stand beside the definitions they change. `ChoicesRight`, `AddonsRight` and
`TreesAndReportsRight` are conjunctions of one definition per function; they have been tried
with changes to the others of their functions too.

## Where the code and its documents disagree

Each is a run that TLC ends with a trace; `PROJECT.json` quotes the lines.

1. **A matrix with an error passes** (`ErrorsFailTheMatrix`). Errors "are collected and
   reported at the end", but only the permutation test sets `CollectResults`.
2. **One catalog per test case** (`OneCatalogForAll`). The documents promise one for
   all; when its creation fails every other subtest makes its own, which no
   clean-up deletes.
3. **The undeploy does not wait for the stack** (`UndeployWaitsForStack`).
   `readyForUndeploy` is true before the stack's state is looked at, and the branch
   for a busy stack only logs.
4. **Members are synchronised before they are stuck** (`SyncsOnlyStuckMembers`). The
   clock of a member is not reset when its state changes.
5. **A catalog is left behind** (`CleansUpItsCatalog`). When the import of the offering
   or the creation of the project fails, the clean-up dereferences the project that
   does not exist before it reaches the catalog's deletion.
6. **A deeper occurrence wins** (`TopmostOccurrenceDeployed`). The comment promises the
   topmost occurrence of an offering; the list is made depth first, so that an earlier
   sibling's dependency takes the place of the one that the user configured.

## The proofs

`tlapm` checks every leaf; nothing is assumed but the constants' assumptions, which
TLC evaluates in the runs. All theorems hold for every value of the constants. For a
specification of a process an inductive invariant (`IInv`, or one named for its part
where a module has several) makes the property inductive, with one lemma per action.

**`MatrixRunner_proof`**, for any set of test cases and any parallelism.
`TypeCorrect`; `SectionExclusive` (at most one subtest is in the section of
`sharedMutex`); `OneCatalogOnceShared` (once the creator has a catalog, no second one
is made). Exclusion is not inductive: `LockInv` says that whoever is in the section
holds the mutex. For the catalogs one needs that nothing exists before a creator is
chosen, that a subtest which creates is the one whose options are published and
holds nothing yet, and that what later subtests hold is the creator's catalog or
nil; it builds on exclusion.
`ReportCounts` (the counters agree with the results, no test case is in them twice) and
`ResultsKept` (no result is lost) share `ReportInv`: whoever is between reading the
report and writing it back holds `resultMutex`, and what it has read is the report as it
still is. `PrintedOnceAndFinal` and `FailuresPropagate` share `EndInv`: an error of a
subtest that has appended its result is counted as a failure (`ErrorsCounted`), the wait
group counts exactly the subtests that are not over (`WaitGroupExact`), the clean-up that
prints the report is registered once (`CleanupsKnown`), and when the clean-ups run all
subtests are over, and the one of the report leaves the parent failed if a result is a
failure (`OverInv`). `RunnerSharesCatalog` is the refinement: under `ResourceInv` every step of the
runner creates, takes, leaves or deletes the resource of `SharedResource`, or
stutters; the abstract specification has no fairness, so this is all of it.

**`StackDeployment_proof`**, for any number of members, any interval and any replies.
`TypeCorrect`; `DeploymentSound`; `UndeploymentSound`; `DeployFailureGenuine`. Soundness rests on a fact about
the service: a deployed member stays deployed while no undeploy is accepted, and an
undeployed one stays undeployed after it (`Goal`). So although a poll is no
snapshot, what has been read as at the goal still is when the loop ends (`IInv`'s
conjunct about `list`), and a poll that has read every member so is right about all
of them at once. `PlacesOfPhases` ties the places to the functions, so that the goal
changes only when the undeploy is accepted, and then nothing has been read. A failure
is genuine by `FailInv`: while the deployment goes on, a member that was read as failed
still is.

**`ProjectsTest_proof`**, for any number of attempts and any replies. `TypeCorrect`;
`DeletedOnlyUndeployed`, `FailedKeepsProject` and `WaitsForPipelines`, which say of every
step that deletes a project that nothing is deployed, or the undeployment has ended without
an error, or its resources were to be kept; that the test has not failed; and that no
pipeline runs. The first is not that nothing is left: an undeployment that finds the stack
awaiting a member's deployment ends without an error too (`infra = "left"`), and the
property allows the deletion that follows (see the observations). They share one inductive invariant:
a configuration that does not exist has nothing deployed; after the undeployment's
step, a test that has not failed is `Cleared`; only such a test gets to `sleep`
and `delete`; and it gets to `delete` with idle pipelines, which nothing starts
again. `OnlyDeleteDeletes` shows that no other step ends a project. The type
invariant bounds the catalogs that lost answers leave behind by the attempts
(`catalogs <= tries` while they are created). `PassHasDeployed` and `NoProjectLeft`
have an invariant of their own, `PassInv`: from the deferred function on, the test has
deployed or is in trouble (`failed`, `err` or `panicking`), and a project that exists is
known to the test unless it has failed (`ProjectKnown`).

**`AddonTest_proof`**, likewise: `PassHasDeployed`, `NoProjectLeft`,
`DeletedOnlyUndeployed` and `FailedKeepsProject`, and of the catalog `NoOwnCatalogLeft`. The invariant ties a clean-up that was not torn by a panic to what it
has come to: undeployed, project deleted, catalog deleted, each unless the test failed.

**`SchematicTest_proof`**, for any number of retries and any timeout. `GreenLeavesNothing`,
`WorkspaceDeletedLast` and `PassPlansTheBranch`. While the test is unmarked, what may be deployed is known:
before the apply is asked for there is no apply job (`Nothing`); after that either
`TerraformResourcesCreated` is set or the test has failed, and a test that gets past the
destroy unfailed has neither resources nor an apply still going on (`Idle`), however
many jobs lost answers have made. For the plan, `BranchInv` follows the code of the
branch: the upload the test waits for is the last one (`UploadInv`), after it the workspace
holds the branch for good (`Settled`), so the plan that completes has planned it
(`PlanOfBranch`), and that plan is what is checked (`CheckedInv`).

**`Helpers_proof`** is about what `MCHelpers` runs beside the functions. A test with Terraform:
`PassIsGenuine` and `StateFollowsTheTest`. An apply that did not
succeed has marked the test (`AppliesCounted`), a plan that was not empty has marked it
once it was checked (`PlanCounted`), and what is still deployed after the destroy has too
(`DestroyCounted`); the last needs that the state is where the test works.

The loggers, for any number of messages. `LoggerSafe`: a message that
was sent has been printed once, or is kept back, in the order of sending, or was thrown away with the
buffer, unless it has an excuse (`Excused`: a quiet logger that drops its kind, or has shown its
phase instead). `LoggerIInv` adds that only sent messages are printed or kept, and that
the active phase and the suppressed ones have been shown.

What parallel tests share is three specifications with an invariant each.

* `RefResolver`, for any number of callers and calls. `ResolverTypeCorrect`;
  `RefusedTokenIsReplaced` (a caller whose token was refused sends its retry with another
  one): the authenticator only grows, and whoever was refused has seen it at least one
  higher than its token (`TokenOK`). `ErrorsComeLast` (an error is returned
  only when every fallback has refused the call, in a development region when its attempts
  are used up): the regions before the one that is asked are in `tried` (`Refused`), although
  another caller may change the region that is remembered.
* `ApiCache`, for any sets of goroutines, offerings, versions and constraints, any
  time to live. `CacheTypeCorrect`; `LookupsReturnFreshAnswers` (an answer is about what was
  asked for and no older than the time to live, or twice that for a version locator, which
  may be computed from an offering about to expire). An entry answers its key and was given no
  later than it was stored (`EntryOK`), the same of answers in hand (`AnswerOK`), and whoever
  others wait for is asking for what they want (`FlightOK`).
* `RegionSelection`, for any number of tests, any regions and any files of preferences.
  `RegionSafe`: no region is given to two tests, but the default one and one that the list
  names more than once (`NamedOnce`): `RemoveRegionForTest` marks only the first entry of a
  name. `RegionIInv`: who chooses holds the lock
  (`Holder`) and begins with no best region (`Fresh`), what it may still choose is for use
  (`Offered`), and what a test was given is marked as used if the list
  names it once (`GivenAreMarked`).

**`Choices_proof`**: what seven pure functions answer, for arguments of any length.
`RegionChoicesAreRight`, `LatestVersionIsRight`, `RetriesAreRight`, `BaseIsRight`,
`ChangesAreRight`, `DefinitionIsRight` and `ReferencesAreRight` state it of each function,
`ChoicesSafe` of the specification. The loops of the code are recursive functions on `0 .. n`. Their
induction does not use the library's induction theorems, which take an operator that
the provers cannot instantiate, but that a set of naturals which is not empty has a least
member (`LeastNumber`, from the library's well-foundedness of `Nat`): `UpToN` is induction as a fact about sets, and
`RecursionDefined` says that a recursive function on `0 .. n` is what it was written to
be. Every loop then has an invariant as one would give it in a textbook: the best region and the best
version so far, the attempts that failed with an error worth a retry, the delay as
the initial one doubled and capped, the list without repetitions that holds what
was added to it, the inputs of a stack before each of the two passes that complete them (a value
that its type takes as it is converted; one that it does not take leaves what was there).
For the references it is that at its turn a slot finds those above it as they stay and
those below as they were (`PassEnds`). So a reference that resolves leads to a plain value
or to a resolved reference above it: `Follow` is at the end of its chain after as many steps
as there are slots (`ResolvedHasItsEnd`), and no assumption has to exclude cycles.

**`AddonDecisions_proof`**: what an addon test tries and decides, by the same means, each
theorem for arguments of any length; `AddonDecisionsSafe` states it of the specification.

* `PermutationsAreRight`. The digits of a number in a mixed radix tell it from every smaller
  one (`DigitsTell`) and can be chosen at will (`DigitsGive`), so that masks and
  combinations are just the choices of flavors. What the two loops have made so far is, without
  repetition, what the numbers so far stand for but for those that are skipped
  (`Collected`), and the list of a case tells its choice. Names that are all different are as
  many as their entries (`NamesCounted`), by which a set to skip matches just what it names; of
  one that names a dependency twice the theorem says what it matches instead.
* `ValidationIsRight`: two lists that hold the same, are equally long, and the errors
  found.
* `CyclesAreRight`. A level that is deep enough for what has not been visited answers
  right (`SearchIsRight`): if it finds no circle, what it leaves visited but not on the
  stack can be ranked, each node above all it refers to (`Ranked`), and nothing ranked is
  on a circle; if it finds one, the way there shows it. A first report comes from a stack which
  is the way, the later ones do not, and nothing is claimed of them.
* `VerdictIsRight`: what one look at the configurations has collected (`ScanRight`), and
  a circle among those that wait, from the theorem before.
* `RequiredAreEnabled`: the node that is found by a parent's name is the first of that name
  (`ParentIsFound`), in any tree; its version is the parent's where the nodes of the name have one.
  The entries of the catalog, read one after the other, say of a dependency what the first of
  them that says something says.
* `TreesAreRight`. The nodes that there may be are finitely many (`NodesAreFinite`), and a call
  that has fewer of them left to visit than there are levels below answers right
  (`IsBuilt`): it adds nodes that had not been visited, each once, each but the first
  a dependency of another one and none of them disabled (`Grown`), and below each has what nobody
  disputes (`Complete`). Catalogs with circles are not excluded: a node that has been
  visited already is in the tree of another call, which is why `Complete` speaks of all that
  has been visited and not of the tree that the call returns.

**Only model-checked.** Liveness (`MatrixEnds`, `Returns`, `Ends`, `TestEnds`, `LookupsEnd`):
the prover has no fairness or `ENABLED`. `TreesAndReportsRight`, what an addon test deploys
and prints, the report of a permutation run, and what is shown of a plan: `AddonTree`,
`AddonReport` and `DataHelpers` recur on nested data with RECURSIVE operators, which the SMT
backend does not take; TLC checks them over bounded inputs. Every other property of a passing run, the refinement
included, is proved. The type invariants of `ProjectsTest` and `StackDeployment` are
proved and no longer properties of a run; that of the matrix is both.

## What is not modelled

* **Service lookups** (`cloudinfo/cbr.go`, `containers.go`, `icd.go`, `policy.go` and the
  like): one SDK call each, paged at most; they keep no state and decide nothing.
* **Durations**: delays between attempts, stagger delays of the matrix, polling
  intervals. They order nothing in the code; a model without them has every order.
  `RetryPolicy` has the retries' delays, because they are computed.
* **Texts**: wording, colours, layout, abbreviated names of test cases. Where a text is
  matched (the report's causes, the retries' errors, a logger's phases) it is a member
  of a set of what the patterns tell apart.
* **Client forms that no test uses**: the retried creation of a Schematics workspace and
  upload; the downloads of logs and plans; the location of a workspace.
* **Commands**: git and Terraform themselves; what is concluded from their answers is in
  `GitHelpers` and `TerraformTest`. `CheckClusterIngressHealthy`, the listing of a resource
  group and the defaults of the options are left out.
* Within `AddonTest`, the validation is one step; `ConfigureTestStack` and `AddToProject`
  likewise, their algorithms being `StackInputs` and `AddonTree`.
* `generatePermutations` and `isDefaultConfiguration`, which only tests call.

## Observations

Found while translating; no run is about them, because no document promises otherwise,
or because they concern one line; what goes against a document says so. A careful reader of the code may want them.

* *Addon validation.* In a test that deploys nothing, references that the service
  answers with an error code are only warned about, then "All references resolved
  successfully" is logged (`testaddons/tests.go:599-716`), although 567 and the document of
  the validation hooks call this the only chance to find them. The state of a configuration
  is read before the user's inputs are merged (450, 470), so `awaiting_input` may be stale;
  the error of `updateProjectConfiguration` is ignored (478). With one configuration ready,
  cycles among the others are not looked for (744). A parent is looked up by its name, and
  the first of that name answers (2817): where an offering stands twice in the user's tree
  with two versions, what is below the second is required or not as the first one's version
  says.
* *Permutations.* The comment at 2349 says that dependencies which are on by default are
  the default that is excluded; the code excludes the case with all enabled (2972). A
  name that occurs twice in a skip set makes it match a larger set (3092), although 3078 asks
  for the exact set.
* *Graphs.* `findCycleDFS` leaves its recursion stack behind: the first report is real, a
  later one need not be (`CyclesRight` says just that). `findDeployedDependencies` prints two
  unexpected configurations below each other. A child's configuration is matched by name
  and flavor (`dependency_graph.go:160`).
* *Report.* `checkErrorAccounting` masks overlapping patterns in turn, so that one error may
  match none, and a missing input in its full form is read as the short one with a prefix
  in its name (`permutation_report.go:547-584`, `823-880`). It counts patterns where its comment
  (822) speaks of tests, so that a test which shows two makes up for another one whose only
  error has a form that is recognised nowhere; `ReportRight` excepts runs with a test of two
  patterns for this reason. Of forms that it does not know a box
  shows nothing. `collectTestResult` puts the main addon alone at the top of a result, with its
  dependencies below it (`test_options.go:906`), and `extractDisabledDependencies` looks at the
  top only: in a real run no dependency is ever seen as disabled or as a cause.
* *Deployment.* An offering without IDs has the key of every other one without them and of its
  flavor (`cloudinfo/catalog.go:976`). An answer without configurations is `nil` without an
  error (825-827).
* *Undeployment.* A stack that is read as a draft awaiting a member's deployment ends the
  undeployment without an error, although a member has failed to undeploy or is deployed
  (`testprojects/tests.go:779`). The test deletes the project then, and what the members
  deployed is left to the service, or to nobody if `ProjectDestroyOnDelete` is false, against
  `docs/projects/stacks/testing-process.md:128` ("Ensures test doesn't leave orphaned
  resources"). It is the exception that `DeletesOnlyUndeployed` names.
* *Stack.* A member without a state panics (`testprojects/tests.go:389`, `432`, `569`, `1237`),
  in the undeployment after the recover. An unknown product or flavor is silently the
  first one, and members are created before the definition is validated
  (`cloudinfo/projects.go:406-475`, `745-801`). A default of the catalog that is of another kind
  than its input's type panics in `updateInputsFromCatalog` (843, 856), before
  `validateCatalogInputsInStackDefinition` could report it; a given `nil` panics too (713). An
  `int` that cannot be parsed becomes 0 (847), and a default that is a map is silently ignored
  for an input of type `object` (849-852).
* *Regions.* `RemoveRegionForTest` takes the first entry of a name (612-616); a file that names
  a region twice, which nothing checks, gives it to two tests, although
  `testhelper/general.go:85-87` says that no other test will select it.
* *Terraform test.* A hook that calls `FailNow` skips the tear-down; the state is removed even
  if the destroy failed; an upgrade test removes its directories, with the state, although
  `DO_NOT_DESTROY_ON_FAILURE` kept the resources; an error of a hook in `RunTest` is returned
  and fails nothing.
* *Service.* The comment at `cloudinfo/schematics.go:405` says that 401 and 403 are not retried; a
  nil checker retries all. `UploadTarToSchematicsWorkspace` retries with a reader that has been consumed. The URL
  of the VPC client is not reset after a failed request (`region.go:117`).
* *Helpers.* A branch that only `git status` knows is returned as empty (`git.go:112-141`); if one
  of repository and branch is missing both are replaced. The jitter is added after the
  delay is capped, and `MaxRetries = 0` returns an error that wraps nil (`retry.go:185`). A
  `SmartLogger` drops `Info` in quiet mode instead of buffering it (`logger.go:932`).

## What is left

1. `AddonTest` composed with `MatrixRunner`: the one-step addon test of the matrix shown
   to be an abstraction of `AddonTest`; likewise the one-step deployment of the lifecycles
   and `StackDeployment`. Until then the outcomes of the one step are those that the
   properties of the other module allow.
2. Theorems: the conjuncts of `TreesAndReportsRight`, with levels of recursive functions in
   place of RECURSIVE operators, as in `DependencyGraph`. Of `Ends` and
   `TestEnds` the part without fairness: every step of the test lowers a measure.
3. Names of test cases and prefixes, with their collisions.
