----------------------------- MODULE AddonTest -----------------------------
(***************************************************************************)
(* The life of an addon test: runAddonTest of src/testaddons/tests.go, the *)
(* two functions it defers, and testTearDown of setup_teardown.go.  The    *)
(* catalog, the offering and the project are those of CloudResources; the  *)
(* deployment and the undeployment, which testprojects carries out, are    *)
(* one step each, with the outcomes of StackDeployment.                    *)
(***************************************************************************)
EXTENDS CloudResources

VARIABLES
  deployed, \* the deployment returned without an error
  torn      \* the clean-up panicked

addonVars == <<vars, deployed, torn>>

Options ==
  [skipTearDown : BOOLEAN, skipUndeploy : BOOLEAN, skipDelete : BOOLEAN,
   doNotDestroy : BOOLEAN, existing : BOOLEAN, skipInfra : BOOLEAN,
   shared : BOOLEAN, offering : BOOLEAN]

(* With SharedCatalog the options may hold the catalog, and its offering,  *)
(* of an earlier test or of the matrix.                                    *)
Init ==
  /\ opts \in Options
  /\ pc = "setup"
  /\ NothingMade
  /\ held \in {FALSE, opts.shared}
  /\ catalogs = IF held THEN 1 ELSE 0
  /\ opts.offering => held
  /\ deployed = FALSE /\ torn = FALSE

(* testSetup: the local changes, the branch; RunAddonTest fails the test   *)
(* when it returns an error.                                               *)
TestSetup ==
  /\ pc = "setup"
  /\ Goto("catalog") \/ ReturnError(TRUE)
  /\ UNCHANGED <<opts, tries, cloudVars, deployed, torn>>

(* A shared offering is used as it is.                                     *)
UseSharedOffering ==
  /\ pc = "offering"
  /\ opts.offering
  /\ Goto("project")
  /\ UNCHANGED <<opts, tries, cloudVars>>

SetupResources ==
  /\ \/ SetupCatalog
     \/ UseSharedOffering
     \/ ~opts.offering /\ SetupOffering
     \/ SetupProject("add")
  /\ UNCHANGED <<deployed, torn>>

(* The required dependencies, DeployAddonToProject, the inputs of every    *)
(* configuration; a project without an ID is refused.                      *)
AddToProject ==
  /\ pc = "add"
  /\ \/ current = "id" /\ Goto("validate")
     \/ ReturnError(TRUE)
     \/ Panics /\ Panic
  /\ UNCHANGED <<opts, tries, cloudVars, deployed, torn>>

(* The offering's details, the references, the dependencies, the inputs:   *)
(* some of the errors do not fail the test.                                *)
Validate ==
  /\ pc = "validate"
  /\ \/ Goto("predeploy")
     \/ \E fail \in BOOLEAN : ReturnError(fail)
     \/ Panics /\ Panic
  /\ UNCHANGED <<opts, tries, cloudVars, deployed, torn>>

Hook(next) ==
  /\ Goto(next) \/ ReturnError(TRUE) \/ (Panics /\ Panic)
  /\ UNCHANGED <<opts, tries, cloudVars, deployed, torn>>

PreDeployHook == pc = "predeploy" /\ Hook("deploy")

Deploy ==
  /\ pc = "deploy"
  /\ \/ /\ opts.skipInfra
        /\ Goto("postdeploy")
        /\ UNCHANGED <<cloudVars, deployed>>
     \/ /\ ~opts.skipInfra
        /\ Goto("postdeploy")
        /\ deployed' = TRUE
        /\ DeployEnds(FALSE)
     \/ /\ ~opts.skipInfra
        /\ ReturnError(TRUE) \/ (Panics /\ Panic)
        /\ DeployEnds(TRUE)
        /\ UNCHANGED deployed
  /\ UNCHANGED <<opts, tries, torn>>

PostDeployHook == pc = "postdeploy" /\ Hook("deferred")

-----------------------------------------------------------------------------
(* What is deferred last runs first: it recovers from a panic, fails the   *)
(* test and cleans up, and is not deferred at all with SkipTestTearDown.   *)
(* The other recovers from what is left, and fails nothing.                *)
PanicForgotten == UNCHANGED failed
PanicFails == failed' = (failed \/ panicking)

Deferred ==
  /\ pc = "deferred"
  /\ panicking' = FALSE
  /\ UNCHANGED err
  /\ IF opts.skipTearDown
       THEN pc' = "end" /\ UNCHANGED failed
       ELSE /\ PanicFails
            /\ pc' = IF KeepsResources THEN "project_teardown" ELSE "preundeploy"
  /\ UNCHANGED <<opts, tries, cloudVars, deployed, torn>>

(* A panic of the clean-up ends it.                                        *)
TearDownPanics ==
  /\ pc' = "end"
  /\ torn' = TRUE
  /\ UNCHANGED testVars

Continue(place, fail) ==
  /\ pc' = place
  /\ failed' = (failed \/ fail)
  /\ UNCHANGED <<err, panicking, torn>>

PreUndeployHook ==
  /\ pc = "preundeploy"
  /\ \/ \E fail \in BOOLEAN : Continue("undeploy", fail)
     \/ Panics /\ TearDownPanics
  /\ UNCHANGED <<opts, tries, cloudVars, deployed>>

(* Undeploy: nothing with SkipInfrastructureDeployment; TriggerUnDeploy,   *)
(* which dereferences the project and does not wait, for a test that has   *)
(* failed; TriggerUnDeployAndWait otherwise.  The hook that follows runs   *)
(* only after an error.                                                    *)
TriggersAlways == TRUE
TriggersOnly == failed

Undeploy ==
  /\ pc = "undeploy"
  /\ \/ /\ opts.skipInfra
        /\ Continue("project_teardown", FALSE)
        /\ UNCHANGED cloudVars
     \/ /\ ~opts.skipInfra /\ TriggersOnly /\ current = "nil"
        /\ TearDownPanics
        /\ UNCHANGED cloudVars
     \/ /\ ~opts.skipInfra /\ TriggersOnly /\ current # "nil"
        /\ \E fail \in BOOLEAN :
             Continue(IF fail THEN "postundeploy" ELSE "project_teardown", fail)
        /\ infra' \in {"none", infra}
        /\ busy' \in BOOLEAN
        /\ UNCHANGED <<catalogs, held, current, project>>
     \/ /\ ~opts.skipInfra /\ ~TriggersOnly
        /\ \E fail \in BOOLEAN :
             /\ Continue(IF fail THEN "postundeploy" ELSE "project_teardown", fail)
             /\ UndeployEnds(fail)
     \/ /\ ~opts.skipInfra
        /\ Panics
        /\ TearDownPanics
        /\ UndeployEnds(TRUE)
  /\ UNCHANGED <<opts, tries, deployed>>

PostUndeployHook ==
  /\ pc = "postundeploy"
  /\ \/ \E fail \in BOOLEAN : Continue("project_teardown", fail)
     \/ Panics /\ TearDownPanics
  /\ UNCHANGED <<opts, tries, cloudVars, deployed>>

ProjectTearDown ==
  /\ \/ /\ pc = "project_teardown"
        /\ Continue(IF DeletesProject THEN "delete" ELSE "delete_catalog", FALSE)
        /\ UNCHANGED <<opts, tries, cloudVars>>
     \/ /\ pc = "delete"
        /\ DeleteProject("delete_catalog")
        /\ UNCHANGED torn
  /\ UNCHANGED deployed

(* The catalog is deleted unless it is shared, with one attempt.           *)
CatalogOfDeletedProject == held /\ ~opts.shared /\ ~opts.skipDelete
OwnCatalog == held /\ ~opts.shared

DeleteCatalog ==
  /\ pc = "delete_catalog"
  /\ \/ ~OwnCatalog /\ Continue("end", FALSE) /\ UNCHANGED <<catalogs, held>>
     \/ /\ OwnCatalog
        /\ \E reply \in Replies :
             /\ Continue("end", reply # "ok")
             /\ catalogs' = IF reply \in {"ok", "lost"} THEN catalogs - 1 ELSE catalogs
             /\ held' = (reply \notin {"ok", "lost"})
  /\ UNCHANGED <<opts, tries, current, project, infra, busy, deployed>>

ServiceMoves == PipelineEnds /\ UNCHANGED <<deployed, torn>>

Terminated == pc = "end" /\ UNCHANGED addonVars

-----------------------------------------------------------------------------
Test ==
  \/ TestSetup \/ SetupResources \/ AddToProject \/ Validate
  \/ PreDeployHook \/ Deploy \/ PostDeployHook
  \/ Deferred \/ PreUndeployHook \/ Undeploy \/ PostUndeployHook
  \/ ProjectTearDown \/ DeleteCatalog

Next == Test \/ ServiceMoves \/ Terminated

Spec == Init /\ [][Next]_addonVars

-----------------------------------------------------------------------------
TypeOK ==
  /\ ResourcesTypeOK
  /\ opts \in Options
  /\ pc \in {"setup", "catalog", "offering", "project", "add", "validate",
             "predeploy", "deploy", "postdeploy", "deferred", "preundeploy",
             "undeploy", "postundeploy", "project_teardown", "delete",
             "delete_catalog", "end"}
  /\ deployed \in BOOLEAN /\ torn \in BOOLEAN

(* A test that passes and returns no error has deployed its addon, unless  *)
(* it was told not to.  It holds because the function that cleans up also  *)
(* fails a test that panics, so it does not hold without it.               *)
PassMeansDeployed ==
  pc = "end" /\ ~failed /\ ~err /\ ~opts.skipTearDown
    => deployed \/ opts.skipInfra

(* A test that passes leaves no project, unless its clean-up panicked.     *)
PassLeavesNoProject == ~torn => GreenLeavesNoProject

(* A test that passes leaves no catalog of its own but those whose         *)
(* creation was tried again after a lost answer: it deletes the one it     *)
(* holds.                                                                  *)
PassLeavesNoOwnCatalog ==
  pc = "end" /\ ~failed /\ ~torn /\ ~opts.skipTearDown /\ ~opts.shared => ~held

(* docs/projects/addons/configuration.md:133: each test creates and cleans *)
(* up its own catalog and offering.  A deletion that the service refuses   *)
(* is not meant.                                                           *)
CleansUpItsCatalog ==
  [][pc' = "end" /\ pc # "end" /\ OwnCatalog /\ ~opts.skipTearDown
       => pc = "delete_catalog"]_addonVars
=============================================================================
