---------------------------- MODULE ProjectsTest ----------------------------
(***************************************************************************)
(* The life of a stack test: RunProjectsTest, the function it defers, and  *)
(* TestTearDown, of src/testprojects/tests.go.  The deployment and the     *)
(* undeployment are one step each here, with the outcomes of               *)
(* StackDeployment; the catalog, the offering and the project are those    *)
(* of CloudResources.                                                      *)
(***************************************************************************)
EXTENDS CloudResources

VARIABLES
  configured,   \* currentStackConfig.ConfigID is set
  deployFailed, \* finalError of the deployment, until the hook has run
  deployed,     \* the deployment returned without an error
  late          \* the deadline of the wait for the pipelines has passed

projectsVars == <<vars, configured, deployFailed, deployed, late>>

Options ==
  [skipTearDown : BOOLEAN, skipUndeploy : BOOLEAN, skipDelete : BOOLEAN,
   doNotDestroy : BOOLEAN, existing : BOOLEAN]

Init ==
  /\ opts \in Options
  /\ pc = "setup"
  /\ NothingMade
  /\ catalogs = 0 /\ held = FALSE
  /\ configured = FALSE /\ deployFailed = FALSE /\ deployed = FALSE
  /\ late = FALSE

(* testSetup, whose failure is asserted, then PrepareOfferingImport, whose *)
(* failure is only returned.                                               *)
TestSetup ==
  /\ pc = "setup"
  /\ \/ Goto("catalog")
     \/ \E fail \in BOOLEAN : ReturnError(fail)
  /\ UNCHANGED <<opts, tries, cloudVars, configured, deployFailed, deployed,
                 late>>

SetupResources ==
  /\ SetupCatalog \/ SetupOffering \/ SetupProject("stack")
  /\ UNCHANGED <<configured, deployFailed, deployed, late>>

(* ConfigureTestStack: a stack whose definition is refused has a           *)
(* configuration already.  Its error ends the test without being returned; *)
(* an error that it swallows leaves no stack, whose ID is dereferenced.    *)
ConfigureTestStack ==
  /\ pc = "stack"
  /\ \/ /\ current = "id"
        /\ Goto("predeploy")
        /\ configured' = TRUE
     \/ /\ pc' = "deferred"
        /\ failed' = TRUE
        /\ UNCHANGED err
        /\ panicking' \in BOOLEAN
        /\ configured' \in {FALSE, current = "id"}
  /\ UNCHANGED <<opts, tries, cloudVars, deployFailed, deployed, late>>

(* A hook is the user's code: it succeeds, fails or panics.                *)
Hook(next) ==
  /\ Goto(next) \/ ReturnError(TRUE) \/ (Panics /\ Panic)
  /\ UNCHANGED <<opts, tries, cloudVars, configured, deployFailed, deployed,
                 late>>

PreDeployHook == pc = "predeploy" /\ Hook("deploy")

(* TriggerDeployAndWait.                                                   *)
Deploy ==
  /\ pc = "deploy"
  /\ \/ \E errors \in BOOLEAN :
          /\ Goto("postdeploy")
          /\ deployFailed' = errors
          /\ deployed' = ~errors
          /\ DeployEnds(errors)
     \/ Panics /\ Panic /\ DeployEnds(TRUE) /\ UNCHANGED <<deployFailed, deployed>>
  /\ UNCHANGED <<opts, tries, configured, late>>

(* The hook runs even after a deployment that failed, whose error is       *)
(* returned then.                                                          *)
PostDeployHook == pc = "postdeploy" /\ Hook("finish")

FinishForgetsError ==
  /\ pc = "finish"
  /\ Goto("deferred")
  /\ UNCHANGED <<opts, tries, cloudVars, configured, deployFailed, deployed,
                 late>>

Finish ==
  /\ pc = "finish"
  /\ IF deployFailed THEN ReturnError(TRUE) ELSE Goto("deferred")
  /\ UNCHANGED <<opts, tries, cloudVars, configured, deployFailed, deployed,
                 late>>

-----------------------------------------------------------------------------
(* The deferred function recovers from a panic, fails the test, and calls  *)
(* TestTearDown; with SkipTestTearDown nothing is deferred.                *)
Deferred ==
  /\ pc = "deferred"
  /\ IF opts.skipTearDown
       THEN pc' = "end" /\ UNCHANGED testVars
       ELSE /\ panicking' = FALSE
            /\ failed' = (failed \/ panicking)
            /\ pc' = IF current = "nil" THEN "end" ELSE "undeploy"
            /\ UNCHANGED err
  /\ UNCHANGED <<opts, tries, cloudVars, configured, deployFailed, deployed,
                 late>>

(* executeResourceTearDown, then TriggerUnDeployAndWait.  A panic here is  *)
(* not recovered.                                                          *)
Undeploy ==
  /\ pc = "undeploy"
  /\ \/ /\ KeepsResources \/ ~configured
        /\ Goto("pipelines")
        /\ UNCHANGED cloudVars
     \/ /\ ~KeepsResources /\ configured
        /\ \E errors \in BOOLEAN :
             /\ pc' = "pipelines"
             /\ failed' = (failed \/ errors)
             /\ UNCHANGED <<err, panicking>>
             /\ UndeployEnds(errors)
     \/ /\ ~KeepsResources /\ configured
        /\ Panics
        /\ pc' = "end" /\ panicking' = TRUE
        /\ UNCHANGED <<failed, err>>
        /\ UndeployEnds(TRUE)
  /\ UNCHANGED <<opts, tries, configured, deployFailed, deployed, late>>

(* executeProjectTearDown, then the wait for the pipeline actions: its     *)
(* loop ends when none runs or when its time is over, and the clock is     *)
(* read again to tell the two apart.                                       *)
WaitsForEver == busy
StillWaits == busy /\ ~late

DeletesWhenLate == ~busy \/ late
MayDelete == ~busy /\ ~late

CheckPipelines ==
  /\ pc = "pipelines"
  /\ \/ ~DeletesProject /\ Goto("end")
     \/ DeletesProject /\ MayDelete /\ Goto("delete")
     \/ DeletesProject /\ StillWaits /\ Goto("sleep")
     \/ /\ DeletesProject
        /\ pc' = "end"       \* an error, or too late
        /\ failed' = TRUE
        /\ UNCHANGED <<err, panicking>>
  /\ UNCHANGED <<opts, tries, cloudVars, configured, deployFailed, deployed,
                 late>>

Sleep ==
  /\ pc = "sleep"
  /\ Goto("pipelines")
  /\ UNCHANGED <<opts, tries, cloudVars, configured, deployFailed, deployed,
                 late>>

Deadline ==
  /\ pc \in {"pipelines", "sleep"}
  /\ ~late
  /\ late' = TRUE
  /\ UNCHANGED <<vars, configured, deployFailed, deployed>>

(* DeleteProject with its retries.                                         *)
Delete ==
  /\ pc = "delete"
  /\ DeleteProject("end")
  /\ UNCHANGED <<configured, deployFailed, deployed, late>>

ServiceMoves == PipelineEnds /\ UNCHANGED <<configured, deployFailed, deployed, late>>

Terminated == pc = "end" /\ UNCHANGED projectsVars

-----------------------------------------------------------------------------
Test ==
  \/ TestSetup \/ SetupResources \/ ConfigureTestStack
  \/ PreDeployHook \/ Deploy \/ PostDeployHook \/ Finish
  \/ Deferred \/ Undeploy \/ CheckPipelines \/ Sleep \/ Delete

Next == Test \/ Deadline \/ ServiceMoves \/ Terminated

Spec == Init /\ [][Next]_projectsVars

(* The test's own steps are taken and time passes; a pipeline action need  *)
(* not end.                                                                *)
FairSpec == Spec /\ WF_projectsVars(Test) /\ WF_projectsVars(Deadline)

-----------------------------------------------------------------------------
TypeOK ==
  /\ ResourcesTypeOK
  /\ opts \in Options
  /\ pc \in {"setup", "catalog", "offering", "project", "stack", "predeploy",
             "deploy", "postdeploy", "finish", "deferred", "undeploy",
             "pipelines", "sleep", "delete", "end"}
  /\ configured \in BOOLEAN /\ deployFailed \in BOOLEAN /\ deployed \in BOOLEAN
  /\ late \in BOOLEAN

(* A test that passes has deployed its stack: of all the ways in which it  *)
(* ends early, those included in which it returns nil, none leaves it      *)
(* green.                                                                  *)
PassMeansDeployed ==
  pc = "end" /\ ~failed /\ ~err /\ ~panicking => deployed

(* The project is deleted only when none of its pipeline actions runs,     *)
(* although their wait may end at its deadline.                            *)
DeleteWaitsForPipelines ==
  [][project /\ ~project' => ~busy]_projectsVars

(* The test ends, however often a call is retried and however long a       *)
(* pipeline action runs.                                                   *)
Ends == <>(pc = "end")
=============================================================================
