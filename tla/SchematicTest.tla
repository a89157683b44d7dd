--------------------------- MODULE SchematicTest ---------------------------
(***************************************************************************)
(* A test in an IBM Cloud Schematics workspace: executeSchematicTest and   *)
(* testTearDown (testschematic/tests.go) over the calls of                 *)
(* testschematic/schematics.go and cloudinfo/schematics.go, against a      *)
(* service that loses answers, whose jobs take as long as they want, and   *)
(* whose list of jobs may not show the newest one yet.                     *)
(***************************************************************************)
EXTENDS Integers, Sequences, FiniteSets

CONSTANTS MaxRetries,   \* attempts of a retried call
          JobTimeout    \* the minutes a job is waited for

ASSUME MaxRetriesAssumption == MaxRetries \in Nat \ {0}
ASSUME JobTimeoutAssumption == JobTimeout \in Nat

Options == [upgrade : BOOLEAN,
            checkApplyResult : BOOLEAN,    \* CheckApplyResultForUpgrade
            deleteOnFail : BOOLEAN,        \* DeleteWorkspaceOnFail
            doNotDestroy : BOOLEAN,        \* DO_NOT_DESTROY_ON_FAILURE
            skipTearDown : BOOLEAN]

NoCode == "none"

VARIABLES options,
          pc,          \* the place in the test
          stage,       \* the job that is being created or waited for
          attempt,     \* failed attempts of the present call
          job,         \* the number of the job that is waited for
          waited,      \* for how many minutes
          TerraformTestStarted,
          TerraformResourcesCreated,
          workspaceID, \* whether the test knows of a workspace
          failed,      \* Testing.Failed()
          err,         \* an error is returned
          workspace,   \* the service: the workspace,
          code,        \*   the code in it,
          jobs,        \*   the jobs in it, oldest first,
          resources,   \*   and whether anything is deployed
          checked,     \* history: the code that the last completed plan was made from
          lagged       \* history: the newest job was missing from a list

testVars == <<options, pc, stage, attempt, job, waited, TerraformTestStarted,
              TerraformResourcesCreated, workspaceID, failed, err, checked, lagged>>
cloudVars == <<workspace, code, jobs, resources>>
schematicVars == <<testVars, cloudVars>>

SchematicInit ==
    /\ options \in {o \in Options : o.checkApplyResult => o.upgrade}
    /\ pc = "setup"
    /\ stage = "none"
    /\ attempt = 0 /\ job = 0 /\ waited = 0
    /\ TerraformTestStarted = FALSE
    /\ TerraformResourcesCreated = FALSE
    /\ workspaceID = FALSE
    /\ failed = FALSE /\ err = FALSE
    /\ workspace = "none" /\ code = NoCode /\ jobs = <<>> /\ resources = FALSE
    /\ checked = NoCode /\ lagged = FALSE

Kind(s) == CASE s \in {"upload", "upgradeUpload"} -> "TAR_WORKSPACE_UPLOAD"
             [] s \in {"plan", "consistency"} -> "PLAN"
             [] s \in {"apply", "upgradeApply"} -> "APPLY"
             [] s = "destroy" -> "DESTROY"

\* What is uploaded: an upgrade test begins with the code of the base branch.
Uploaded == IF stage = "upload" /\ options.upgrade THEN "base" ELSE "branch"

NewJob == [kind |-> Kind(stage), status |-> "CREATED",
           code |-> IF Kind(stage) = "TAR_WORKSPACE_UPLOAD" THEN Uploaded ELSE NoCode]

Goto(place) == pc' = place /\ UNCHANGED <<stage, attempt, job, waited>>
Start(s, place) == pc' = place /\ stage' = s /\ attempt' = 0 /\ UNCHANGED <<job, waited>>

\* An error that is returned, and an assertion that fails.
ReturnError == err' = TRUE /\ failed' = failed /\ Goto("tearDown")
AssertFails == failed' = TRUE /\ err' = err /\ Goto(IF stage = "destroy" THEN "delete" ELSE "tearDown")
Fine == UNCHANGED <<failed, err>>
-----------------------------------------------------------------------------
\* The service works at its jobs, one after the other, as long as there is a workspace.
JobRuns(n) == /\ workspace = "exists"
              /\ jobs[n].status = "CREATED"
              /\ \A i \in 1 .. n - 1 : jobs[i].status # "CREATED"

JobEnds(n, status) ==
    /\ JobRuns(n)
    /\ jobs' = [jobs EXCEPT ![n] = [kind |-> @.kind, status |-> status,
                                    code |-> IF @.kind = "PLAN" THEN code ELSE @.code]]
    /\ code' = IF jobs[n].kind = "TAR_WORKSPACE_UPLOAD" /\ status = "COMPLETED"
               THEN jobs[n].code ELSE code
    /\ CASE jobs[n].kind = "APPLY" ->
                resources' \in (IF status = "COMPLETED" THEN {TRUE} ELSE {resources, TRUE})
         [] jobs[n].kind = "DESTROY" /\ status = "COMPLETED" -> resources' = FALSE
         [] OTHER -> resources' = resources
    /\ UNCHANGED <<testVars, workspace>>
-----------------------------------------------------------------------------
\* testSetup, the root of the repository and the marks that skip an upgrade test.  An error
\* of testSetup is returned before the teardown is deferred.
Setup ==
    /\ pc = "setup"
    /\ \/ Fine /\ Goto("workspace")
       \/ err' = TRUE /\ failed' = failed /\ Goto("ended")
       \/ ReturnError
       \/ options.upgrade /\ Fine /\ Goto("tearDown")
    /\ UNCHANGED <<options, TerraformTestStarted, TerraformResourcesCreated, workspaceID,
                   checked, lagged, cloudVars>>

\* Without a retry: the answer may be an error although there is a workspace now.
CreateTestWorkspace ==
    /\ pc = "workspace"
    /\ \/ workspace' = "exists" /\ workspaceID' = TRUE /\ Fine /\ Goto("validate")
       \/ workspace' \in {"none", "exists"} /\ UNCHANGED workspaceID /\ ReturnError
    /\ UNCHANGED <<options, TerraformTestStarted, TerraformResourcesCreated, checked, lagged,
                   code, jobs, resources>>

\* The base branch is checked out, or the names of the variables are checked.
validateVariables ==
    /\ pc = "validate"
    /\ \/ Fine /\ Start(IF TerraformTestStarted THEN "upgradeUpload" ELSE "upload", "upload")
       \/ ReturnError
    /\ UNCHANGED <<options, TerraformTestStarted, TerraformResourcesCreated, workspaceID,
                   checked, lagged, cloudVars>>

\* The archive is made and uploaded, without a retry; an upload makes a job.
UploadTarToWorkspace ==
    /\ pc = "upload"
    /\ \/ jobs' = Append(jobs, NewJob) /\ Fine /\ Goto("find")
       \/ jobs' \in {jobs, Append(jobs, NewJob)} /\ ReturnError
    /\ UNCHANGED <<options, TerraformTestStarted, TerraformResourcesCreated, workspaceID,
                   checked, lagged, workspace, code, resources>>

FirstJobBUG(listed) == CHOOSE i \in listed : \A k \in listed : i <= k

LatestJob(listed) == CHOOSE i \in listed : \A k \in listed : k <= i

\* The latest job with the name, in a list where the newest job may be missing.
FindLatestJobByName ==
    /\ pc = "find"
    /\ \E n \in {Len(jobs) - 1, Len(jobs)} :
          LET listed == {i \in 1 .. n : jobs[i].kind = "TAR_WORKSPACE_UPLOAD"} IN
          /\ IF listed = {}
             THEN ReturnError
             ELSE /\ job' = LatestJob(listed)
                  /\ pc' = "wait" /\ waited' = 0 /\ UNCHANGED <<stage, attempt>> /\ Fine
          /\ lagged' = (lagged \/ n < Len(jobs))
    /\ UNCHANGED <<options, TerraformTestStarted, TerraformResourcesCreated, workspaceID,
                   checked, cloudVars>>

\* The names and values of the variables; the teardown changes from here on.
UpdateTestTemplateVars ==
    /\ pc = "vars"
    /\ \/ TerraformTestStarted' = TRUE /\ Fine /\ Start("plan", "create")
       \/ ReturnError /\ UNCHANGED TerraformTestStarted
    /\ UNCHANGED <<options, TerraformResourcesCreated, workspaceID, checked, lagged, cloudVars>>

ForgetsResourcesBUG == UNCHANGED TerraformResourcesCreated

\* Set when the first APPLY was accepted: from here on there may be resources.
MarkResources == TerraformResourcesCreated' = (TerraformResourcesCreated \/ stage = "apply")

\* CreatePlanJob, CreateApplyJob, CreateDestroyJob: the service takes the request, and the
\* test waits for the job it has made.
CreateJob ==
    /\ pc = "create"
    /\ jobs' = Append(jobs, NewJob)
    /\ job' = Len(jobs) + 1
    /\ waited' = 0
    /\ pc' = "wait"
    /\ MarkResources
    /\ UNCHANGED <<options, stage, attempt, TerraformTestStarted, workspaceID, checked, lagged,
                   failed, err, workspace, code, resources>>

\* An attempt fails: the request was refused, or its answer was lost and there is a job
\* that the test does not know of.  Every error is retried, until the last attempt.
CreateJobFails ==
    /\ pc = "create"
    /\ jobs' \in {jobs, Append(jobs, NewJob)}
    /\ IF attempt + 1 < MaxRetries
       THEN attempt' = attempt + 1 /\ Fine /\ UNCHANGED <<pc, stage, job, waited>>
       ELSE AssertFails
    /\ UNCHANGED <<options, TerraformTestStarted, TerraformResourcesCreated, workspaceID,
                   checked, lagged, workspace, code, resources>>

\* There is no refresh token to make the request with.
GetRefreshTokenFails ==
    /\ pc = "create" /\ attempt = 0
    /\ AssertFails
    /\ UNCHANGED <<options, TerraformTestStarted, TerraformResourcesCreated, workspaceID,
                   checked, lagged, cloudVars>>

Upload == stage \in {"upload", "upgradeUpload"}
Refuse == IF Upload THEN ReturnError ELSE AssertFails

TimesOutNeverBUG == FALSE

TimeExceeded == waited > JobTimeout

\* The loop of WaitForSchematicsJobCompletion, once a minute.
WaitLonger ==
    /\ pc = "wait"
    /\ ~TimeExceeded
    /\ jobs[job].status = "CREATED"
    /\ waited' = IF waited > JobTimeout THEN waited ELSE waited + 1
    /\ UNCHANGED <<options, pc, stage, attempt, job, TerraformTestStarted,
                   TerraformResourcesCreated, workspaceID, failed, err, checked, lagged,
                   cloudVars>>

WaitTimesOut ==
    /\ pc = "wait"
    /\ TimeExceeded
    /\ Refuse
    /\ UNCHANGED <<options, TerraformTestStarted, TerraformResourcesCreated, workspaceID,
                   checked, lagged, cloudVars>>

\* An error of the call, all its attempts included, ends the loop.
WaitFails ==
    /\ pc = "wait"
    /\ ~TimeExceeded
    /\ Refuse
    /\ UNCHANGED <<options, TerraformTestStarted, TerraformResourcesCreated, workspaceID,
                   checked, lagged, cloudVars>>

JobSuccess(n) == jobs[n].status = "COMPLETED"

JobFailed ==
    /\ pc = "wait"
    /\ ~TimeExceeded
    /\ jobs[job].status # "CREATED"
    /\ ~JobSuccess(job)
    /\ Refuse
    /\ UNCHANGED <<options, TerraformTestStarted, TerraformResourcesCreated, workspaceID,
                   checked, lagged, cloudVars>>

\* What comes after a job that has completed.
JobCompleted ==
    /\ pc = "wait"
    /\ ~TimeExceeded
    /\ jobs[job].status # "CREATED"
    /\ JobSuccess(job)
    /\ Fine
    /\ CASE stage = "upload" -> Goto("vars")
         [] stage = "plan" -> Goto("preApply")
         [] stage = "apply" -> Goto("postApply")
         [] stage = "upgradeUpload" -> Start("consistency", "create")
         [] stage = "consistency" -> Goto("check")
         [] stage = "upgradeApply" -> Goto("tearDown")
         [] stage = "destroy" -> Goto("delete")
    /\ checked' = IF Kind(stage) = "PLAN" THEN jobs[job].code ELSE checked
    /\ UNCHANGED <<options, TerraformTestStarted, TerraformResourcesCreated, workspaceID,
                   lagged, cloudVars>>

\* The hooks: an error is only logged; a panic fails the test and begins the teardown.
ApplyHook ==
    /\ pc \in {"preApply", "postApply"}
    /\ \/ /\ Fine
          /\ CASE pc = "preApply" -> Start("apply", "create")
               [] pc = "postApply" /\ options.upgrade -> Goto("validate")
               [] pc = "postApply" /\ ~options.upgrade -> Start("consistency", "create")
       \/ AssertFails
    /\ UNCHANGED <<options, TerraformTestStarted, TerraformResourcesCreated, workspaceID,
                   checked, lagged, cloudVars>>

\* The plan is read, parsed and checked for changes.
CheckConsistency ==
    /\ pc = "check"
    /\ \/ /\ Fine
          /\ IF options.checkApplyResult THEN Start("upgradeApply", "create") ELSE Goto("tearDown")
       \/ AssertFails
    /\ UNCHANGED <<options, TerraformTestStarted, TerraformResourcesCreated, workspaceID,
                   checked, lagged, cloudVars>>
-----------------------------------------------------------------------------
\* testTearDown up to the destroy job.  A panic of the hook ends the teardown.
TearDown ==
    /\ pc = "tearDown"
    /\ \/ options.skipTearDown /\ Fine /\ Goto("ended") /\ UNCHANGED TerraformResourcesCreated
       \/ /\ ~options.skipTearDown
          /\ failed' = TRUE /\ err' = err /\ Goto("ended") /\ UNCHANGED TerraformResourcesCreated
       \/ /\ ~options.skipTearDown
          /\ Fine
          /\ TerraformResourcesCreated' = FALSE
          /\ IF TerraformResourcesCreated /\ ~(failed /\ options.doNotDestroy)
             THEN Start("destroy", "create") ELSE Goto("delete")
    /\ UNCHANGED <<options, TerraformTestStarted, workspaceID, checked, lagged, cloudVars>>

DeletesFailedBUG == workspaceID

DeletesWorkspace ==
    workspaceID /\ (~TerraformTestStarted \/ ~failed \/ options.deleteOnFail)

\* A delete that fails, all its attempts included, is only logged.  A panic of the hook
\* that comes after it fails the test.
DeleteWorkspace ==
    /\ pc = "delete"
    /\ \/ DeletesWorkspace /\ workspace' \in {"deleted", workspace}
       \/ ~DeletesWorkspace /\ workspace' = workspace
    /\ failed' \in {failed, TRUE} /\ err' = err
    /\ Goto("ended")
    /\ UNCHANGED <<options, TerraformTestStarted, TerraformResourcesCreated, workspaceID,
                   checked, lagged, code, jobs, resources>>

\* The user of the package tears down what was left by SkipTestTearDown.
TestTearDown ==
    /\ pc = "ended" /\ options.skipTearDown /\ workspaceID
    /\ options' = [options EXCEPT !.skipTearDown = FALSE]
    /\ failed' \in {failed, TRUE} /\ err' = err
    /\ Goto("tearDown")
    /\ UNCHANGED <<TerraformTestStarted, TerraformResourcesCreated, workspaceID, checked, lagged,
                   cloudVars>>

TestStep ==
    \/ Setup
    \/ CreateTestWorkspace
    \/ validateVariables
    \/ UploadTarToWorkspace
    \/ FindLatestJobByName
    \/ UpdateTestTemplateVars
    \/ CreateJob
    \/ CreateJobFails
    \/ GetRefreshTokenFails
    \/ WaitLonger
    \/ WaitTimesOut
    \/ JobFailed
    \/ JobCompleted
    \/ ApplyHook
    \/ CheckConsistency
    \/ TearDown
    \/ DeleteWorkspace

SchematicNext ==
    \/ TestStep
    \/ WaitFails
    \/ TestTearDown
    \/ \E n \in 1 .. Len(jobs), s \in {"COMPLETED", "FAILED"} : JobEnds(n, s)

\* The test goes on when it can; no job need ever end, and no call about it need ever fail.
SchematicFairness == WF_schematicVars(TestStep)

SchematicSpec == SchematicInit /\ [][SchematicNext]_schematicVars /\ SchematicFairness
-----------------------------------------------------------------------------
\* An apply that has been accepted and has not ended yet.
Applying == \E i \in 1 .. Len(jobs) : jobs[i].kind = "APPLY" /\ jobs[i].status = "CREATED"

\* A test that ends without a failure, returned errors included, has left nothing deployed
\* and nothing that is still being deployed, whatever answers were lost and whatever was
\* tried again.
PassLeavesNoResources ==
    pc = "ended" /\ ~failed /\ ~options.skipTearDown => ~resources /\ ~Applying

\* The workspace, which alone can destroy what was deployed, is only ever deleted before
\* that is destroyed when the test has failed and was told to delete it nevertheless.
WorkspaceOutlivesResources ==
    workspace = "deleted" /\ (resources \/ Applying) => failed /\ options.deleteOnFail

\* A test that passes has planned the code of the branch under test on top of what was
\* deployed, the upgrade test too, which has uploaded that code in place of the code of the
\* base branch; unless the list of jobs did not show the new upload yet, in which case the
\* upload before it is taken for it.
PassChecksTheBranch ==
    pc = "ended" /\ ~failed /\ ~err /\ TerraformTestStarted /\ ~lagged => checked = "branch"

\* The test ends, although the service may never finish a job.
TestEnds == <>[](pc = "ended")
=============================================================================
