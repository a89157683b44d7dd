--------------------------- MODULE CloudResources ---------------------------
(***************************************************************************)
(* What a project test makes in the cloud, and the steps by which          *)
(* RunProjectsTest (src/testprojects) and RunAddonTest (src/testaddons)    *)
(* make and delete it: SetupCatalog, ImportOffering, SetupProject, the     *)
(* deletion of the project, each with the retries of RetryWithConfig.      *)
(*                                                                         *)
(* A call is carried out or not, and its answer comes back or not: "lost"  *)
(* is a call that was carried out and whose answer is an error that is     *)
(* retried, "transient" an error that is retried of a call that was not,   *)
(* "final" an error that IsRetryableError does not retry.  A lost answer   *)
(* is why a step that is retried may do twice what it should do once.      *)
(***************************************************************************)
EXTENDS Naturals

CONSTANTS
  Attempts,   \* MaxRetries of RetryConfig, which counts every attempt
  Replies,    \* what a call may come to: "ok", "lost", "transient", "final"
  Panics      \* whether the steps of the test may panic

ASSUME AttemptsAssumption == Attempts \in Nat \ {0}
ASSUME RepliesAssumption == Replies \subseteq {"ok", "lost", "transient", "final"}
ASSUME PanicsAssumption == Panics \in BOOLEAN

VARIABLES
  opts,      \* the options of the test
  pc,        \* the step it is at
  tries,     \* the attempts of the retried step that have failed
  failed,    \* testing.T's failed flag
  err,       \* the test returns an error
  panicking, \* a panic that no function has recovered
  catalogs,  \* the number of catalogs the test has created and not deleted
  held,      \* options.catalog is one of them
  current,   \* options.currentProject: "nil", "noid" (without an ID), "id"
  project,   \* the project exists
  infra,     \* resources of its configurations: "none", "some", or "left"
             \* by an undeployment that took a stack awaiting a member's
             \* deployment for one that is undeployed, and reported no error
  busy       \* a pipeline action of the project runs

testVars == <<failed, err, panicking>>
cloudVars == <<catalogs, held, current, project, infra, busy>>
vars == <<opts, pc, tries, testVars, cloudVars>>

-----------------------------------------------------------------------------
(* How a step ends.                                                        *)

Goto(place) == pc' = place /\ UNCHANGED testVars

(* The test returns an error: some of them call Testing.Fail, or an        *)
(* assertion does.                                                         *)
ReturnError(fail) ==
  /\ pc' = "deferred"
  /\ err' = TRUE
  /\ failed' = (failed \/ fail)
  /\ UNCHANGED panicking

Panic ==
  /\ pc' = "deferred"
  /\ panicking' = TRUE
  /\ UNCHANGED <<failed, err>>

(* RetryWithConfig: the last attempt is not followed by another.           *)
AttemptLeft == tries + 1 < Attempts

Retried(reply) ==
  /\ reply \in {"lost", "transient"}
  /\ AttemptLeft
  /\ tries' = tries + 1
  /\ UNCHANGED <<pc, testVars>>

GivesUp(reply) ==
  /\ reply \in {"lost", "transient", "final"}
  /\ reply # "final" => ~AttemptLeft
  /\ tries' = 0

(* An attempt to do what creates: it goes on to the next step, is tried    *)
(* again, or ends the test.                                                *)
Attempt(reply, next) ==
  \/ reply = "ok" /\ tries' = 0 /\ Goto(next)
  \/ Retried(reply)
  \/ GivesUp(reply) /\ ReturnError(TRUE)

-----------------------------------------------------------------------------
(* SetupCatalog: with CatalogUseExisting there is no catalog and no error; *)
(* a catalog that the options hold already is used.                        *)
SetupCatalog ==
  /\ pc = "catalog"
  /\ \/ /\ opts.existing \/ held
        /\ Goto("offering")
        /\ held' = ~opts.existing
        /\ UNCHANGED <<tries, catalogs>>
     \/ /\ ~opts.existing /\ ~held
        /\ \E reply \in Replies :
             /\ Attempt(reply, "offering")
             /\ catalogs' = IF reply \in {"ok", "lost"} THEN catalogs + 1 ELSE catalogs
             /\ held' = (reply = "ok")
  /\ UNCHANGED <<opts, current, project, infra, busy>>

(* setupOffering: the catalog's ID is dereferenced; an offering that is    *)
(* imported twice is one offering.                                         *)
SetupOffering ==
  /\ pc = "offering"
  /\ \/ held /\ \E reply \in Replies : Attempt(reply, "project")
     \/ ~held /\ Panic /\ UNCHANGED tries
  /\ UNCHANGED <<opts, cloudVars>>

(* SetupProject: the service refuses a second project of the same name;    *)
(* the test then goes on with a project that has no ID.                    *)
SetupProject(next) ==
  /\ pc = "project"
  /\ \/ /\ ~project
        /\ \E reply \in Replies :
             /\ Attempt(reply, next)
             /\ project' = (reply \in {"ok", "lost"})
             /\ current' = IF reply = "ok" THEN "id" ELSE current
     \/ /\ project
        /\ "ok" \in Replies
        /\ Attempt("ok", next)
        /\ current' = "noid"
        /\ UNCHANGED project
     \/ /\ project
        /\ \E reply \in Replies \ {"ok", "lost"} : Attempt(reply, next)
        /\ UNCHANGED <<project, current>>
  /\ UNCHANGED <<opts, catalogs, held, infra, busy>>

(* Deleting the project.  That it is not found is a success, because an    *)
(* earlier attempt may have deleted it; but an attempt that finds no       *)
(* project may also be answered by any other error.  A failure fails the   *)
(* test, which goes on.  What the service destroys when it deletes a       *)
(* project (ProjectDestroyOnDelete) is not followed.                       *)
DeletionForgiven == UNCHANGED failed
DeletionFails == failed' = TRUE

DeleteProject(next) ==
  /\ \E reply \in Replies :
       /\ project' = (project /\ reply \notin {"ok", "lost"})
       /\ \/ reply = "ok" /\ tries' = 0 /\ Goto(next)
          \/ Retried(reply)
          \/ /\ GivesUp(reply)
             /\ pc' = next
             /\ DeletionFails
             /\ UNCHANGED <<err, panicking>>
  /\ UNCHANGED <<opts, catalogs, held, current, infra, busy>>

(* A pipeline action of the project ends by itself.                        *)
PipelineEnds ==
  /\ busy /\ pc # "end"
  /\ busy' = FALSE
  /\ UNCHANGED <<opts, pc, tries, testVars, catalogs, held, current, project,
                 infra>>

-----------------------------------------------------------------------------
(* What a wait for the deployment, or for the undeployment, of the         *)
(* project's configurations comes to (StackDeployment).  The undeployment  *)
(* that finds the stack awaiting a member ends without an error.           *)
DeployEnds(errors) ==
  /\ infra' \in {"none", "some"}
  /\ busy' \in BOOLEAN
  /\ ~errors => infra' = "some" /\ ~busy'
  /\ UNCHANGED <<catalogs, held, current, project>>

UndeployEnds(errors) ==
  /\ busy' \in BOOLEAN
  /\ \/ infra' = "none" /\ (~errors => ~busy')
     \/ infra = "some" /\ infra' = (IF errors THEN "some" ELSE "left")
  /\ UNCHANGED <<catalogs, held, current, project>>

(* A test that failed keeps its resources if DO_NOT_DESTROY_ON_FAILURE is  *)
(* set; SkipUndeploy keeps them in any case.                               *)
KeepsWhenMarked == opts.skipUndeploy \/ opts.doNotDestroy
KeepsResources == opts.skipUndeploy \/ (failed /\ opts.doNotDestroy)

(* executeProjectTearDown.                                                 *)
DeletesProjectAnyway == ~opts.skipDelete /\ current # "nil"
DeletesProject == ~opts.skipDelete /\ ~failed /\ current # "nil"

-----------------------------------------------------------------------------
(* Nothing is made when a test starts.                                     *)
NothingMade ==
  /\ tries = 0
  /\ failed = FALSE /\ err = FALSE /\ panicking = FALSE
  /\ current = "nil"
  /\ project = FALSE /\ infra = "none" /\ busy = FALSE

ResourcesTypeOK ==
  /\ tries \in 0 .. Attempts - 1
  /\ failed \in BOOLEAN /\ err \in BOOLEAN /\ panicking \in BOOLEAN
  /\ catalogs \in 0 .. Attempts /\ held \in BOOLEAN
  /\ current \in {"nil", "noid", "id"}
  /\ project \in BOOLEAN /\ infra \in {"none", "some", "left"} /\ busy \in BOOLEAN

(* A project is deleted only when nothing of it is deployed or when its    *)
(* undeployment has ended without an error, unless SkipUndeploy asks to    *)
(* keep the resources, although the decision to undeploy, the decision to  *)
(* wait for it and the decision to delete are three, taken at different    *)
(* times.  An undeployment may end so and leave resources: that of a stack *)
(* that is read as a draft awaiting a member's deployment, which           *)
(* TriggerUnDeployAndWait treats as complete (infra = "left").  A project  *)
(* is deleted then, and what its members deployed is orphaned: this        *)
(* property allows that case, and no other with resources to lose.         *)
DeletesOnlyUndeployed ==
  [][project /\ ~project' => infra \in {"none", "left"} \/ opts.skipUndeploy]_vars

(* The project of a test that failed is kept for debugging, whichever of   *)
(* its steps failed it, those of the clean-up included.                    *)
FailedTestKeepsProject ==
  [][project /\ ~project' => ~failed]_vars

(* A test that passes leaves no project, although creating and deleting it *)
(* is retried and answers are lost.                                        *)
GreenLeavesNoProject ==
  /\ pc = "end" /\ ~failed /\ ~panicking
  /\ ~opts.skipTearDown /\ ~opts.skipDelete
  => ~project

=============================================================================
