------------------------- MODULE SchematicTest_proof -------------------------
(***************************************************************************)
(* Proofs about SchematicTest, for any number of attempts and any timeout: *)
(* that a test which does not fail leaves nothing deployed, that the       *)
(* workspace is not deleted before what was deployed from it, and that a   *)
(* test which passes has planned the code of the branch.                   *)
(***************************************************************************)
EXTENDS SchematicTest, TLAPS

Places == {"setup", "workspace", "validate", "upload", "find", "vars", "create", "wait",
           "preApply", "postApply", "check", "tearDown", "delete", "ended"}
Created == {"plan", "apply", "consistency", "upgradeApply", "destroy"}
Stages == {"none", "upload", "upgradeUpload"} \cup Created
Kinds == {"TAR_WORKSPACE_UPLOAD", "PLAN", "APPLY", "DESTROY"}
Codes == {NoCode, "base", "branch"}
Job == [kind : Kinds, status : {"CREATED", "COMPLETED", "FAILED"}, code : Codes]

(* No apply job was ever made; nothing is deployed or being deployed.      *)
NoApply == \A i \in 1 .. Len(jobs) : jobs[i].kind # "APPLY"
Nothing == ~resources /\ NoApply
Idle == ~resources /\ ~Applying

(* The place of the test, the job it is at, and its two flags.             *)
PlaceOK ==
  /\ pc \in Places /\ stage \in Stages
  /\ pc \in {"upload", "find", "vars"} => stage \in {"upload", "upgradeUpload"}
  /\ pc = "create" => stage \in Created
  /\ pc = "wait" => stage # "none"
  /\ pc = "check" => stage = "consistency"
  /\ pc = "postApply" => stage = "apply"
  /\ stage = "destroy" => pc \in {"create", "wait", "delete", "ended"}
  /\ pc \in {"setup", "workspace"} => ~TerraformTestStarted
  /\ ~TerraformTestStarted =>
       /\ stage \in {"none", "upload"} /\ ~TerraformResourcesCreated
       /\ pc \notin {"create", "preApply", "postApply", "check"}
  /\ pc = "delete" \/ stage = "destroy" => ~options.skipTearDown
  /\ workspace = "deleted" => pc = "ended" /\ ~options.skipTearDown

(* Once the apply job was accepted the test knows of resources, or failed. *)
MarkOK ==
  \/ stage \in {"consistency", "upgradeUpload", "upgradeApply"}
  \/ stage = "apply" /\ pc # "create"
  \/ pc = "validate" /\ TerraformTestStarted
  => TerraformResourcesCreated \/ failed

(* Before the teardown, in a test that knows of no resources.              *)
Unmarked ==
  /\ ~failed /\ ~TerraformResourcesCreated
  /\ stage # "destroy" /\ pc # "delete" /\ (pc = "ended" => options.skipTearDown)
  /\ ~(stage = "apply" /\ pc = "create")

(* The destroy job that is waited for comes after every apply job.         *)
DestroyAsked ==
  /\ job \in 1 .. Len(jobs)
  /\ jobs[job].kind = "DESTROY"
  /\ \A i \in job + 1 .. Len(jobs) : jobs[i].kind # "APPLY"
  /\ jobs[job].status = "COMPLETED" => Idle

TornDown == pc = "delete" \/ (pc = "ended" /\ ~options.skipTearDown)

ResourcesOK ==
  /\ ~TerraformTestStarted => Nothing
  /\ Unmarked => Nothing
  /\ stage = "destroy" /\ pc = "wait" => DestroyAsked
  /\ ~failed /\ TornDown => Idle
  /\ WorkspaceOutlivesResources

IInv ==
  /\ jobs \in Seq(Job) /\ code \in Codes
  /\ PlaceOK /\ MarkOK /\ ResourcesOK

-----------------------------------------------------------------------------
(* The kind of each job, and that no job is made but of its stage's kind.  *)
LEMMA KindOf ==
  /\ \A s \in {"upload", "upgradeUpload"} : Kind(s) = "TAR_WORKSPACE_UPLOAD"
  /\ \A s \in {"plan", "consistency"} : Kind(s) = "PLAN"
  /\ \A s \in {"apply", "upgradeApply"} : Kind(s) = "APPLY"
  /\ Kind("destroy") = "DESTROY"
BY DEF Kind

LEMMA NothingIsIdle == Nothing => Idle
BY DEF Nothing, Idle, NoApply, Applying

LEMMA NewJobType ==
  ASSUME stage \in Stages, stage # "none"
  PROVE  NewJob \in Job /\ NewJob.kind = Kind(stage) /\ NewJob.status = "CREATED"
BY KindOf DEF NewJob, Uploaded, Job, Kinds, Codes, NoCode, Stages, Created

LEMMA InitIInv == SchematicInit => IInv
<1> SUFFICES ASSUME SchematicInit PROVE IInv
  OBVIOUS
<1>1. /\ pc = "setup" /\ stage = "none" /\ jobs = <<>> /\ code = NoCode /\ workspace = "none"
      /\ ~TerraformTestStarted /\ ~TerraformResourcesCreated /\ ~resources
  BY DEF SchematicInit
<1>2. jobs \in Seq(Job) /\ code \in Codes /\ Nothing
  BY <1>1 DEF Codes, Nothing, NoApply
<1>3. PlaceOK /\ MarkOK
  BY <1>1 DEF PlaceOK, MarkOK, Places, Stages
<1>4. ResourcesOK
  BY <1>1, <1>2 DEF ResourcesOK, TornDown, WorkspaceOutlivesResources
<1>5. QED
  BY <1>2, <1>3, <1>4 DEF IInv

(* What a step that leaves the service alone leaves as it is.              *)
LEMMA CloudStays ==
  ASSUME UNCHANGED <<jobs, resources, code>>, IInv
  PROVE  /\ jobs' \in Seq(Job) /\ code' \in Codes
         /\ Nothing => Nothing'
         /\ Idle' <=> Idle
         /\ (resources' \/ Applying') <=> (resources \/ Applying)
         /\ UNCHANGED job /\ DestroyAsked => DestroyAsked'
BY DEF IInv, Nothing, NoApply, Idle, Applying, DestroyAsked

(* A step of the test that leaves the service alone, and does not end the  *)
(* waiting for a destroy job.                                              *)
LEMMA ControlKeeps ==
  ASSUME IInv, UNCHANGED <<jobs, resources, code>>, PlaceOK', MarkOK',
         UNCHANGED workspace, workspace # "deleted",
         ~TerraformTestStarted' => ~TerraformTestStarted,
         Unmarked' => Unmarked,
         stage' = "destroy" /\ pc' = "wait" => stage = "destroy" /\ pc = "wait" /\ UNCHANGED job,
         ~failed' /\ TornDown' => Idle
  PROVE  IInv'
<1>1. /\ jobs' \in Seq(Job) /\ code' \in Codes /\ (Nothing => Nothing') /\ (Idle' <=> Idle)
      /\ (UNCHANGED job /\ DestroyAsked => DestroyAsked')
  BY CloudStays
<1>2. ResourcesOK
  BY DEF IInv
<1>3. ~TerraformTestStarted' => Nothing'
  BY <1>1, <1>2 DEF ResourcesOK
<1>4. Unmarked' => Nothing'
  BY <1>1, <1>2 DEF ResourcesOK
<1>5. stage' = "destroy" /\ pc' = "wait" => DestroyAsked'
  BY <1>1, <1>2 DEF ResourcesOK
<1>6. ~failed' /\ TornDown' => Idle'
  BY <1>1
<1>7. WorkspaceOutlivesResources'
  BY DEF WorkspaceOutlivesResources
<1>8. QED
  BY <1>1, <1>3, <1>4, <1>5, <1>6, <1>7 DEF IInv, ResourcesOK

-----------------------------------------------------------------------------
LEMMA SetupKeeps == IInv /\ Setup => IInv'
<1> SUFFICES ASSUME IInv, Setup PROVE IInv'
  OBVIOUS
<1>1. /\ pc = "setup" /\ pc' \in {"workspace", "ended", "tearDown"}
      /\ UNCHANGED <<stage, options, TerraformTestStarted, TerraformResourcesCreated>>
      /\ UNCHANGED <<workspace, jobs, resources, code>>
      /\ failed' = failed
  BY DEF Setup, Fine, Goto, ReturnError, cloudVars
<1>2. PlaceOK /\ MarkOK /\ ResourcesOK
  BY DEF IInv
<1>3. PlaceOK' /\ MarkOK' /\ workspace # "deleted"
  BY <1>1, <1>2 DEF PlaceOK, MarkOK, Places
<1>4. Nothing /\ Idle
  BY <1>1, <1>2, NothingIsIdle DEF PlaceOK, ResourcesOK
<1>5. Unmarked' => Unmarked
  BY <1>1, <1>2 DEF Unmarked, PlaceOK
<1>6. QED
  BY <1>1, <1>3, <1>4, <1>5, ControlKeeps

LEMMA CreateWorkspaceKeeps == IInv /\ CreateTestWorkspace => IInv'
<1> SUFFICES ASSUME IInv, CreateTestWorkspace PROVE IInv'
  OBVIOUS
<1>1. /\ pc = "workspace" /\ pc' \in {"validate", "tearDown"} /\ workspace' \in {"none", "exists"}
      /\ UNCHANGED <<stage, options, TerraformTestStarted, TerraformResourcesCreated>>
      /\ UNCHANGED <<jobs, resources, code>>
      /\ failed' = failed
  BY DEF CreateTestWorkspace, Fine, Goto, ReturnError
<1>2. PlaceOK /\ MarkOK /\ ResourcesOK
  BY DEF IInv
<1>3. PlaceOK' /\ MarkOK'
  BY <1>1, <1>2 DEF PlaceOK, MarkOK, Places
<1>4. Nothing /\ Nothing' /\ jobs' \in Seq(Job) /\ code' \in Codes
  BY <1>1, <1>2, CloudStays DEF PlaceOK, ResourcesOK
<1>5. ResourcesOK'
  BY <1>1, <1>2, <1>4 DEF ResourcesOK, TornDown, WorkspaceOutlivesResources, PlaceOK
<1>6. QED
  BY <1>3, <1>4, <1>5 DEF IInv

LEMMA ValidateKeeps == IInv /\ validateVariables => IInv'
<1> SUFFICES ASSUME IInv, validateVariables PROVE IInv'
  OBVIOUS
<1>1. /\ pc = "validate"
      /\ \/ pc' = "tearDown" /\ stage' = stage
         \/ pc' = "upload" /\ stage' = IF TerraformTestStarted THEN "upgradeUpload" ELSE "upload"
      /\ UNCHANGED <<options, TerraformTestStarted, TerraformResourcesCreated>>
      /\ UNCHANGED <<workspace, jobs, resources, code>>
      /\ failed' = failed
  BY DEF validateVariables, Fine, Goto, Start, ReturnError, cloudVars
<1>2. PlaceOK /\ MarkOK
  BY DEF IInv
<1>3. PlaceOK' /\ MarkOK' /\ workspace # "deleted"
  BY <1>1, <1>2 DEF PlaceOK, MarkOK, Places, Stages
<1>4. (Unmarked' => Unmarked) /\ ~TornDown' /\ stage' # "destroy"
  BY <1>1, <1>2 DEF Unmarked, TornDown, PlaceOK
<1>5. QED
  BY <1>1, <1>3, <1>4, ControlKeeps

(* A job that is made, of a kind that deploys nothing or in a test that    *)
(* then knows of it or has failed.                                         *)
LEMMA AppendKeeps ==
  ASSUME IInv, PlaceOK', MarkOK', pc \in {"upload", "create"},
         jobs' \in {jobs, Append(jobs, NewJob)}, UNCHANGED <<workspace, code, resources>>,
         UNCHANGED <<stage, options, TerraformTestStarted>>,
         Unmarked' => Unmarked /\ Kind(stage) # "APPLY",
         stage = "destroy" /\ pc' = "wait" => jobs' = Append(jobs, NewJob) /\ job' = Len(jobs) + 1,
         ~failed' => ~TornDown'
  PROVE  IInv'
<1>1. PlaceOK /\ ResourcesOK /\ jobs \in Seq(Job) /\ code \in Codes
  BY DEF IInv
<1>2. stage \in Stages /\ stage # "none" /\ workspace # "deleted"
  BY <1>1 DEF PlaceOK, Created, Stages
<1>3. NewJob \in Job /\ NewJob.kind = Kind(stage) /\ NewJob.status = "CREATED"
  BY <1>2, NewJobType
<1>4. jobs' \in Seq(Job)
  BY <1>1, <1>3
<1>5. Nothing /\ Kind(stage) # "APPLY" => Nothing'
  <2> HIDE DEF Job
  <2>1. SUFFICES ASSUME Nothing, Kind(stage) # "APPLY", NEW i \in 1 .. Len(jobs')
                 PROVE  jobs'[i].kind # "APPLY"
    BY DEF Nothing, NoApply
  <2>2. CASE jobs' = jobs
    BY <2>1, <2>2 DEF Nothing, NoApply
  <2>3. CASE jobs' = Append(jobs, NewJob)
    <3>1. Len(jobs') = Len(jobs) + 1 /\ Len(jobs) \in Nat
          /\ \A k \in 1 .. Len(jobs) + 1 :
                jobs'[k] = IF k = Len(jobs) + 1 THEN NewJob ELSE jobs[k]
      BY <1>1, <2>3
    <3>2. QED
      BY <1>3, <2>1, <3>1 DEF Nothing, NoApply
  <2>4. QED
    BY <2>2, <2>3
<1>6. ~TerraformTestStarted => stage = "upload" /\ Nothing /\ Kind(stage) # "APPLY"
  BY <1>1, <1>2, KindOf DEF PlaceOK, ResourcesOK
<1>7. stage' = "destroy" /\ pc' = "wait" => DestroyAsked'
  <2>1. SUFFICES ASSUME stage = "destroy", jobs' = Append(jobs, NewJob), job' = Len(jobs) + 1
                 PROVE  DestroyAsked'
    OBVIOUS
  <2>2. Len(jobs') = Len(jobs) + 1 /\ Len(jobs) \in Nat /\ jobs'[Len(jobs) + 1] = NewJob
    BY <1>1, <2>1
  <2>3. NewJob.kind = "DESTROY"
    BY <1>3, <2>1, KindOf
  <2>4. \A i \in job' + 1 .. Len(jobs') : FALSE
    BY <2>1, <2>2
  <2>5. QED
    BY <1>3, <2>1, <2>2, <2>3, <2>4 DEF DestroyAsked
<1>8. ResourcesOK'
  BY <1>1, <1>2, <1>5, <1>6, <1>7 DEF ResourcesOK, WorkspaceOutlivesResources
<1>9. QED
  BY <1>1, <1>4, <1>8 DEF IInv

LEMMA UploadKeeps == IInv /\ UploadTarToWorkspace => IInv'
<1> SUFFICES ASSUME IInv, UploadTarToWorkspace PROVE IInv'
  OBVIOUS
<1>1. /\ pc = "upload" /\ pc' \in {"find", "tearDown"}
      /\ jobs' \in {jobs, Append(jobs, NewJob)} /\ UNCHANGED <<workspace, code, resources>>
      /\ UNCHANGED <<stage, options, TerraformTestStarted, TerraformResourcesCreated>>
      /\ failed' = failed
  BY DEF UploadTarToWorkspace, Fine, Goto, ReturnError
<1>2. PlaceOK /\ MarkOK
  BY DEF IInv
<1>3. PlaceOK' /\ MarkOK'
  BY <1>1, <1>2 DEF PlaceOK, MarkOK, Places
<1>4. Unmarked' => Unmarked /\ Kind(stage) # "APPLY"
  BY <1>1, <1>2, KindOf DEF Unmarked, PlaceOK
<1>5. ~TornDown' /\ pc' # "wait"
  BY <1>1 DEF TornDown
<1>6. QED
  BY <1>1, <1>3, <1>4, <1>5, AppendKeeps

LEMMA FindKeeps == IInv /\ FindLatestJobByName => IInv'
<1> SUFFICES ASSUME IInv, FindLatestJobByName PROVE IInv'
  OBVIOUS
<1>1. /\ pc = "find" /\ pc' \in {"wait", "tearDown"} /\ stage' = stage /\ failed' = failed
      /\ UNCHANGED <<options, TerraformTestStarted, TerraformResourcesCreated>>
      /\ UNCHANGED <<workspace, jobs, resources, code>>
  BY DEF FindLatestJobByName, Fine, Goto, ReturnError, cloudVars
<1>2. PlaceOK /\ MarkOK
  BY DEF IInv
<1>3. PlaceOK' /\ MarkOK' /\ workspace # "deleted" /\ stage' # "destroy"
  BY <1>1, <1>2 DEF PlaceOK, MarkOK, Places
<1>4. (Unmarked' => Unmarked) /\ ~TornDown'
  BY <1>1, <1>2 DEF Unmarked, TornDown, PlaceOK
<1>5. QED
  BY <1>1, <1>3, <1>4, ControlKeeps

LEMMA UpdateKeeps == IInv /\ UpdateTestTemplateVars => IInv'
<1> SUFFICES ASSUME IInv, UpdateTestTemplateVars PROVE IInv'
  OBVIOUS
<1>1. /\ pc = "vars" /\ failed' = failed
      /\ \/ pc' = "create" /\ stage' = "plan" /\ TerraformTestStarted' = TRUE
         \/ pc' = "tearDown" /\ stage' = stage /\ UNCHANGED TerraformTestStarted
      /\ UNCHANGED <<options, TerraformResourcesCreated>>
      /\ UNCHANGED <<workspace, jobs, resources, code>>
  BY DEF UpdateTestTemplateVars, Fine, Goto, Start, ReturnError, cloudVars
<1>2. PlaceOK /\ MarkOK
  BY DEF IInv
<1>3. PlaceOK' /\ MarkOK' /\ workspace # "deleted" /\ stage' # "destroy"
  BY <1>1, <1>2 DEF PlaceOK, MarkOK, Places, Stages, Created
<1>4. (Unmarked' => Unmarked) /\ ~TornDown'
  BY <1>1, <1>2 DEF Unmarked, TornDown, PlaceOK
<1>5. QED
  BY <1>1, <1>3, <1>4, ControlKeeps

LEMMA CreateKeeps == IInv /\ CreateJob => IInv'
<1> SUFFICES ASSUME IInv, CreateJob PROVE IInv'
  OBVIOUS
<1>1. /\ pc = "create" /\ pc' = "wait" /\ stage' = stage /\ failed' = failed
      /\ jobs' = Append(jobs, NewJob) /\ job' = Len(jobs) + 1
      /\ UNCHANGED <<workspace, code, resources>>
      /\ UNCHANGED <<options, TerraformTestStarted>>
      /\ TerraformResourcesCreated' = (TerraformResourcesCreated \/ stage = "apply")
  BY DEF CreateJob, MarkResources
<1>2. PlaceOK /\ MarkOK
  BY DEF IInv
<1>3. PlaceOK' /\ MarkOK'
  BY <1>1, <1>2 DEF PlaceOK, MarkOK, Places, Created
<1>4. Unmarked' => Unmarked /\ Kind(stage) # "APPLY"
  <2>1. SUFFICES ASSUME Unmarked' PROVE Unmarked /\ Kind(stage) # "APPLY"
    OBVIOUS
  <2>2. ~failed /\ ~TerraformResourcesCreated /\ stage # "apply"
    BY <1>1, <2>1 DEF Unmarked
  <2>3. stage \in {"plan", "consistency", "destroy"}
    BY <1>1, <1>2, <2>2 DEF PlaceOK, MarkOK, Created
  <2>4. QED
    BY <1>1, <2>1, <2>2, <2>3, KindOf DEF Unmarked
<1>5. ~TornDown'
  BY <1>1 DEF TornDown
<1>6. QED
  BY <1>1, <1>3, <1>4, <1>5, AppendKeeps

LEMMA CreateFailsKeeps == IInv /\ CreateJobFails => IInv'
<1> SUFFICES ASSUME IInv, CreateJobFails PROVE IInv'
  OBVIOUS
<1>1. /\ pc = "create" /\ stage' = stage /\ jobs' \in {jobs, Append(jobs, NewJob)}
      /\ UNCHANGED <<workspace, code, resources>>
      /\ UNCHANGED <<options, TerraformTestStarted, TerraformResourcesCreated>>
      /\ \/ pc' = "create" /\ failed' = failed
         \/ failed' = TRUE /\ pc' = IF stage = "destroy" THEN "delete" ELSE "tearDown"
  BY DEF CreateJobFails, AssertFails, Goto, Fine
<1>2. PlaceOK /\ MarkOK
  BY DEF IInv
<1>3. PlaceOK' /\ MarkOK'
  BY <1>1, <1>2 DEF PlaceOK, MarkOK, Places, Created
<1>4. Unmarked' => Unmarked /\ Kind(stage) # "APPLY"
  <2>1. SUFFICES ASSUME Unmarked' PROVE Unmarked /\ Kind(stage) # "APPLY"
    OBVIOUS
  <2>2. /\ pc' = "create" /\ ~failed /\ ~TerraformResourcesCreated
        /\ stage \notin {"apply", "destroy"}
    BY <1>1, <2>1 DEF Unmarked
  <2>3. stage \in {"plan", "consistency"}
    BY <1>1, <1>2, <2>2 DEF PlaceOK, MarkOK, Created
  <2>4. QED
    BY <1>1, <2>1, <2>2, <2>3, KindOf DEF Unmarked
<1>5. (~failed' => ~TornDown') /\ pc' # "wait"
  BY <1>1 DEF TornDown
<1>6. QED
  BY <1>1, <1>3, <1>4, <1>5, AppendKeeps

(* An assertion that fails where a job is created or waited for.           *)
LEMMA RefuseKeeps ==
  ASSUME IInv, pc \in {"create", "wait", "preApply", "postApply", "check"}, UNCHANGED stage,
         UNCHANGED <<options, TerraformTestStarted, TerraformResourcesCreated>>,
         UNCHANGED <<workspace, jobs, resources, code>>,
         \/ stage # "destroy" /\ pc' = "tearDown" /\ failed' = failed
            /\ stage \in {"upload", "upgradeUpload"}
         \/ failed' = TRUE /\ pc' = IF stage = "destroy" THEN "delete" ELSE "tearDown"
  PROVE  IInv'
<1>1. PlaceOK /\ MarkOK
  BY DEF IInv
<1>2. PlaceOK' /\ MarkOK' /\ workspace # "deleted"
  BY <1>1 DEF PlaceOK, MarkOK, Places, Created
<1>3. (Unmarked' => Unmarked) /\ (~failed' => ~TornDown') /\ pc' # "wait"
  BY <1>1 DEF Unmarked, TornDown, PlaceOK
<1>4. QED
  BY <1>2, <1>3, ControlKeeps

LEMMA RefusalsKeep ==
  IInv /\ (GetRefreshTokenFails \/ WaitTimesOut \/ WaitFails \/ JobFailed) => IInv'
<1> SUFFICES ASSUME IInv, GetRefreshTokenFails \/ WaitTimesOut \/ WaitFails \/ JobFailed
             PROVE  IInv'
  OBVIOUS
<1>1. /\ pc \in {"create", "wait"} /\ stage' = stage
      /\ UNCHANGED <<options, TerraformTestStarted, TerraformResourcesCreated>>
      /\ UNCHANGED <<workspace, jobs, resources, code>>
      /\ \/ stage # "destroy" /\ pc' = "tearDown" /\ failed' = failed
            /\ stage \in {"upload", "upgradeUpload"}
         \/ failed' = TRUE /\ pc' = IF stage = "destroy" THEN "delete" ELSE "tearDown"
  BY DEF GetRefreshTokenFails, WaitTimesOut, WaitFails, JobFailed, Refuse, Upload,
         ReturnError, AssertFails, Goto, cloudVars
<1>2. QED
  BY <1>1, RefuseKeeps

LEMMA WaitLongerKeeps == IInv /\ WaitLonger => IInv'
<1> SUFFICES ASSUME IInv, WaitLonger PROVE IInv'
  OBVIOUS
<1>1. /\ pc = "wait" /\ UNCHANGED <<pc, stage, job, failed>>
      /\ UNCHANGED <<options, TerraformTestStarted, TerraformResourcesCreated>>
      /\ UNCHANGED <<workspace, jobs, resources, code>>
  BY DEF WaitLonger, cloudVars
<1>2. PlaceOK /\ MarkOK
  BY DEF IInv
<1>3. PlaceOK' /\ MarkOK' /\ workspace # "deleted"
  BY <1>1, <1>2 DEF PlaceOK, MarkOK
<1>4. (Unmarked' => Unmarked) /\ ~TornDown'
  BY <1>1 DEF Unmarked, TornDown
<1>5. QED
  BY <1>1, <1>3, <1>4, ControlKeeps

LEMMA JobCompletedKeeps == IInv /\ JobCompleted => IInv'
<1> SUFFICES ASSUME IInv, JobCompleted PROVE IInv'
  OBVIOUS
<1>1. /\ pc = "wait" /\ failed' = failed /\ jobs[job].status = "COMPLETED"
      /\ UNCHANGED <<options, TerraformTestStarted, TerraformResourcesCreated>>
      /\ UNCHANGED <<workspace, jobs, resources, code>>
  BY DEF JobCompleted, JobSuccess, Fine, cloudVars
<1>2. PlaceOK /\ MarkOK /\ ResourcesOK
  BY DEF IInv
<1>3. stage \in {"upload", "upgradeUpload"} \cup Created
  BY <1>1, <1>2 DEF PlaceOK, Stages
<1>4. \/ stage = "upload" /\ stage' = stage /\ pc' = "vars"
      \/ stage = "plan" /\ stage' = stage /\ pc' = "preApply"
      \/ stage = "apply" /\ stage' = stage /\ pc' = "postApply"
      \/ stage = "upgradeUpload" /\ stage' = "consistency" /\ pc' = "create"
      \/ stage = "consistency" /\ stage' = stage /\ pc' = "check"
      \/ stage = "upgradeApply" /\ stage' = stage /\ pc' = "tearDown"
      \/ stage = "destroy" /\ stage' = stage /\ pc' = "delete"
  BY <1>3 DEF JobCompleted, Goto, Start, Created
<1>5. PlaceOK' /\ MarkOK' /\ workspace # "deleted"
  BY <1>1, <1>2, <1>4 DEF PlaceOK, MarkOK, Places, Stages, Created
<1>6. (Unmarked' => Unmarked) /\ pc' # "wait"
  BY <1>1, <1>4 DEF Unmarked
<1>7. TornDown' => Idle
  <2>1. TornDown' => stage = "destroy"
    BY <1>4 DEF TornDown
  <2>2. stage = "destroy" => DestroyAsked
    BY <1>1, <1>2 DEF ResourcesOK
  <2>3. QED
    BY <1>1, <2>1, <2>2 DEF DestroyAsked
<1>8. QED
  BY <1>1, <1>5, <1>6, <1>7, ControlKeeps

LEMMA HookKeeps == IInv /\ (ApplyHook \/ CheckConsistency) => IInv'
<1> SUFFICES ASSUME IInv, ApplyHook \/ CheckConsistency PROVE IInv'
  OBVIOUS
<1>1. /\ UNCHANGED <<options, TerraformTestStarted, TerraformResourcesCreated>>
      /\ UNCHANGED <<workspace, jobs, resources, code>>
  BY DEF ApplyHook, CheckConsistency, cloudVars
<1>2. PlaceOK /\ MarkOK
  BY DEF IInv
<1>3. \/ pc \in {"preApply", "postApply", "check"} /\ stage' = stage /\ failed' = TRUE
         /\ pc' = IF stage = "destroy" THEN "delete" ELSE "tearDown"
      \/ /\ failed' = failed
         /\ \/ pc = "preApply" /\ stage' = "apply" /\ pc' = "create"
            \/ pc = "postApply" /\ stage' = stage /\ pc' = "validate"
            \/ pc = "postApply" /\ stage' = "consistency" /\ pc' = "create"
            \/ pc = "check" /\ stage' = "upgradeApply" /\ pc' = "create"
            \/ pc = "check" /\ stage' = stage /\ pc' = "tearDown"
  BY DEF ApplyHook, CheckConsistency, AssertFails, Fine, Goto, Start
<1>4. CASE failed' = failed /\ ~(failed' = TRUE)
  <2>1. \/ pc = "preApply" /\ stage' = "apply" /\ pc' = "create"
        \/ pc = "postApply" /\ stage' = stage /\ pc' = "validate"
        \/ pc = "postApply" /\ stage' = "consistency" /\ pc' = "create"
        \/ pc = "check" /\ stage' = "upgradeApply" /\ pc' = "create"
        \/ pc = "check" /\ stage' = stage /\ pc' = "tearDown"
    BY <1>3, <1>4
  <2>2. PlaceOK' /\ MarkOK' /\ workspace # "deleted"
    BY <1>1, <1>2, <1>4, <2>1 DEF PlaceOK, MarkOK, Places, Stages, Created
  <2>3. (Unmarked' => Unmarked) /\ ~TornDown' /\ pc' # "wait"
    BY <1>1, <1>2, <1>4, <2>1 DEF Unmarked, TornDown, PlaceOK, MarkOK
  <2>4. QED
    BY <1>1, <2>2, <2>3, ControlKeeps
<1>5. CASE failed' = TRUE
  <2>1. pc \in {"preApply", "postApply", "check"}
        /\ \/ stage' = stage /\ pc' = IF stage = "destroy" THEN "delete" ELSE "tearDown"
           \/ pc = "preApply" /\ stage' = "apply" /\ pc' = "create"
           \/ pc = "postApply" /\ stage' = stage /\ pc' = "validate"
           \/ pc = "postApply" /\ stage' = "consistency" /\ pc' = "create"
           \/ pc = "check" /\ stage' = "upgradeApply" /\ pc' = "create"
    BY <1>2, <1>3 DEF PlaceOK
  <2>2. PlaceOK' /\ MarkOK' /\ workspace # "deleted"
    BY <1>1, <1>2, <1>5, <2>1 DEF PlaceOK, MarkOK, Places, Stages, Created
  <2>3. ~Unmarked' /\ failed' /\ pc' # "wait"
    BY <1>5, <2>1 DEF Unmarked
  <2>4. QED
    BY <1>1, <2>2, <2>3, ControlKeeps
<1>6. QED
  BY <1>3, <1>4, <1>5

-----------------------------------------------------------------------------
LEMMA TearDownKeeps == IInv /\ TearDown => IInv'
<1> SUFFICES ASSUME IInv, TearDown PROVE IInv'
  OBVIOUS
<1>1. pc = "tearDown" /\ UNCHANGED <<options, TerraformTestStarted>>
      /\ UNCHANGED <<workspace, jobs, resources, code>>
  BY DEF TearDown, cloudVars
<1>2. PlaceOK /\ MarkOK /\ ResourcesOK
  BY DEF IInv
<1>3. workspace # "deleted" /\ stage # "destroy"
  BY <1>1, <1>2 DEF PlaceOK
<1>4. CASE /\ options.skipTearDown /\ pc' = "ended" /\ stage' = stage /\ failed' = failed
           /\ UNCHANGED TerraformResourcesCreated
  <2>1. PlaceOK' /\ MarkOK'
    BY <1>1, <1>2, <1>3, <1>4 DEF PlaceOK, MarkOK, Places
  <2>2. (Unmarked' => Unmarked) /\ ~TornDown'
    BY <1>1, <1>3, <1>4 DEF Unmarked, TornDown
  <2>3. QED
    BY <1>1, <1>3, <1>4, <2>1, <2>2, ControlKeeps
<1>5. CASE /\ failed' = TRUE /\ pc' = "ended" /\ stage' = stage
           /\ UNCHANGED TerraformResourcesCreated
  <2>1. PlaceOK' /\ MarkOK'
    BY <1>1, <1>2, <1>3, <1>5 DEF PlaceOK, MarkOK, Places
  <2>2. ~Unmarked' /\ failed'
    BY <1>5 DEF Unmarked
  <2>3. QED
    BY <1>1, <1>3, <1>5, <2>1, <2>2, ControlKeeps
<1>6. CASE /\ ~options.skipTearDown /\ failed' = failed /\ TerraformResourcesCreated' = FALSE
           /\ TerraformResourcesCreated /\ stage' = "destroy" /\ pc' = "create"
  <2>1. PlaceOK' /\ MarkOK'
    BY <1>1, <1>2, <1>6 DEF PlaceOK, MarkOK, Places, Stages, Created
  <2>2. ~Unmarked' /\ ~TornDown' /\ pc' # "wait"
    BY <1>6 DEF Unmarked, TornDown
  <2>3. QED
    BY <1>1, <1>3, <1>6, <2>1, <2>2, ControlKeeps
<1>7. CASE /\ ~options.skipTearDown /\ failed' = failed /\ TerraformResourcesCreated' = FALSE
           /\ ~TerraformResourcesCreated \/ failed
           /\ stage' = stage /\ pc' = "delete"
  <2>1. PlaceOK' /\ MarkOK'
    BY <1>1, <1>2, <1>3, <1>7 DEF PlaceOK, MarkOK, Places
  <2>2. ~Unmarked' /\ stage' # "destroy"
    BY <1>3, <1>7 DEF Unmarked
  <2>3. ~failed' => Idle
    <3>1. ~failed' => Unmarked
      BY <1>1, <1>3, <1>7 DEF Unmarked
    <3>2. QED
      BY <1>2, <3>1, NothingIsIdle DEF ResourcesOK
  <2>4. QED
    BY <1>1, <1>3, <1>7, <2>1, <2>2, <2>3, ControlKeeps
<1>8. QED
  BY <1>4, <1>5, <1>6, <1>7 DEF TearDown, Goto, Start, Fine

LEMMA DeleteKeeps == IInv /\ DeleteWorkspace => IInv'
<1> SUFFICES ASSUME IInv, DeleteWorkspace PROVE IInv'
  OBVIOUS
<1>1. /\ pc = "delete" /\ pc' = "ended" /\ stage' = stage /\ failed' \in {failed, TRUE}
      /\ UNCHANGED <<options, TerraformTestStarted, TerraformResourcesCreated>>
      /\ UNCHANGED <<jobs, resources, code>>
  BY DEF DeleteWorkspace, Goto
<1>2. PlaceOK /\ MarkOK /\ ResourcesOK
  BY DEF IInv
<1>3. PlaceOK' /\ MarkOK'
  BY <1>1, <1>2 DEF PlaceOK, MarkOK, Places
<1>4. /\ jobs' \in Seq(Job) /\ code' \in Codes /\ (Nothing => Nothing') /\ (Idle' <=> Idle)
      /\ (resources' \/ Applying') <=> (resources \/ Applying)
  BY <1>1, CloudStays
<1>5. ~options.skipTearDown /\ workspace # "deleted" /\ TornDown /\ TornDown' /\ ~Unmarked'
  BY <1>1, <1>2 DEF PlaceOK, TornDown, Unmarked
<1>6. ~failed' => Idle'
  BY <1>1, <1>2, <1>4, <1>5 DEF ResourcesOK
<1>7. ~TerraformTestStarted' => Nothing'
  BY <1>1, <1>2, <1>4 DEF ResourcesOK
<1>8. WorkspaceOutlivesResources'
  <2>1. SUFFICES ASSUME workspace' = "deleted", resources' \/ Applying'
                 PROVE  failed' /\ options.deleteOnFail
    BY <1>1 DEF WorkspaceOutlivesResources
  <2>2. ~TerraformTestStarted \/ ~failed \/ options.deleteOnFail
    BY <1>5, <2>1 DEF DeleteWorkspace, DeletesWorkspace
  <2>3. ~Idle /\ ~Nothing
    BY <1>4, <2>1, NothingIsIdle DEF Idle
  <2>4. failed /\ TerraformTestStarted
    BY <1>2, <1>5, <2>3 DEF ResourcesOK
  <2>5. QED
    BY <1>1, <2>2, <2>4
<1>9. QED
  BY <1>1, <1>3, <1>4, <1>5, <1>6, <1>7, <1>8 DEF IInv, ResourcesOK

LEMMA TestTearDownKeeps == IInv /\ TestTearDown => IInv'
<1> SUFFICES ASSUME IInv, TestTearDown PROVE IInv'
  OBVIOUS
<1>1. /\ pc = "ended" /\ options.skipTearDown /\ pc' = "tearDown" /\ stage' = stage
      /\ failed' \in {failed, TRUE}
      /\ UNCHANGED <<TerraformTestStarted, TerraformResourcesCreated>>
      /\ UNCHANGED <<workspace, jobs, resources, code>>
  BY DEF TestTearDown, Goto, cloudVars
<1>2. PlaceOK /\ MarkOK
  BY DEF IInv
<1>3. PlaceOK' /\ MarkOK' /\ workspace # "deleted" /\ stage # "destroy"
  BY <1>1, <1>2 DEF PlaceOK, MarkOK, Places
<1>4. ~failed' => ~failed
  BY <1>1
<1>5. (Unmarked' => Unmarked) /\ ~TornDown'
  BY <1>1, <1>3, <1>4 DEF Unmarked, TornDown
<1>6. QED
  BY <1>1, <1>3, <1>5, ControlKeeps

(* A job that ends deploys nothing unless it is an apply job that was made *)
(* before; where nothing is being deployed nothing will be.                *)
LEMMA JobEndsKeeps ==
  ASSUME IInv, NEW n \in 1 .. Len(jobs), NEW status \in {"COMPLETED", "FAILED"},
         JobEnds(n, status)
  PROVE  IInv'
<1>1. /\ workspace = "exists" /\ jobs[n].status = "CREATED"
      /\ \A i \in 1 .. n - 1 : jobs[i].status # "CREATED"
      /\ UNCHANGED workspace
      /\ UNCHANGED <<pc, stage, options, failed, job>>
      /\ UNCHANGED <<TerraformTestStarted, TerraformResourcesCreated>>
  BY DEF JobEnds, JobRuns, testVars
<1>2. PlaceOK /\ MarkOK /\ ResourcesOK /\ jobs \in Seq(Job) /\ code \in Codes
  BY DEF IInv
<1>3. /\ jobs' \in Seq(Job) /\ Len(jobs') = Len(jobs)
      /\ \A i \in 1 .. Len(jobs) : jobs'[i].kind = jobs[i].kind
      /\ \A i \in 1 .. Len(jobs) : jobs'[i].status = IF i = n THEN status ELSE jobs[i].status
  <2>1. /\ jobs[n] \in Job /\ Len(jobs) \in Nat /\ n \in DOMAIN jobs
        /\ jobs \in [1 .. Len(jobs) -> Job]
    BY <1>2
  <2>2. PICK c \in Codes :
          jobs' = [jobs EXCEPT ![n] = [kind |-> jobs[n].kind, status |-> status, code |-> c]]
    <3>1. jobs[n].code \in Codes
      BY <2>1 DEF Job
    <3>2. QED
      BY <1>2, <2>1, <3>1 DEF JobEnds
  <2>3. [kind |-> jobs[n].kind, status |-> status, code |-> c] \in Job
    BY <2>1 DEF Job
  <2>4. QED
    BY <1>2, <2>1, <2>2, <2>3
<1>4. code' \in Codes
  <2>1. jobs[n] \in Job
    BY <1>2
  <2>2. jobs[n].code \in Codes
    BY <2>1 DEF Job
  <2>3. QED
    BY <1>2, <2>2 DEF JobEnds
<1>5. jobs[n].kind \in Kinds
  <2>1. jobs[n] \in Job
    BY <1>2
  <2>2. QED
    BY <2>1 DEF Job
<1>6. jobs[n].kind # "APPLY" /\ ~resources => ~resources'
  BY <1>5 DEF JobEnds, Kinds
<1>7. Nothing => Nothing'
  BY <1>3, <1>6 DEF Nothing, NoApply
<1>8. Idle => Idle'
  <2>1. SUFFICES ASSUME Idle PROVE Idle'
    OBVIOUS
  <2>2. jobs[n].kind # "APPLY"
    BY <1>1, <2>1 DEF Idle, Applying
  <2>3. ~Applying'
    BY <1>3, <2>1 DEF Idle, Applying
  <2>4. QED
    BY <1>6, <2>1, <2>2, <2>3 DEF Idle
<1>9. DestroyAsked => DestroyAsked'
  <2>1. SUFFICES ASSUME DestroyAsked PROVE DestroyAsked'
    OBVIOUS
  <2>2. job' = job /\ job \in 1 .. Len(jobs) /\ Len(jobs) \in Nat /\ jobs[job].kind = "DESTROY"
        /\ \A i \in job + 1 .. Len(jobs) : jobs[i].kind # "APPLY"
    BY <1>1, <1>2, <2>1 DEF DestroyAsked
  <2>3. \A i \in job + 1 .. Len(jobs) : i \in 1 .. Len(jobs)
    BY <2>2
  <2>4. jobs'[job].status = "COMPLETED" => Idle'
    <3>1. CASE job # n
      BY <1>3, <1>8, <2>1, <2>2, <3>1 DEF DestroyAsked
    <3>2. CASE job = n /\ status = "COMPLETED"
      <4>1. ~resources'
        BY <2>2, <3>2 DEF JobEnds
      <4>2. ASSUME NEW i \in 1 .. Len(jobs'), jobs'[i].kind = "APPLY", jobs'[i].status = "CREATED"
            PROVE  FALSE
        <5>1. i \in 1 .. Len(jobs) /\ jobs[i].kind = "APPLY"
          BY <1>3, <4>2
        <5>2. i # n /\ jobs[i].status = "CREATED"
          BY <1>3, <2>2, <3>2, <4>2, <5>1
        <5>3. i \in 1 .. n - 1 \/ i \in n + 1 .. Len(jobs)
          BY <2>2, <5>1, <5>2
        <5>4. QED
          BY <1>1, <2>2, <3>2, <5>1, <5>2, <5>3
      <4>3. QED
        BY <4>1, <4>2 DEF Idle, Applying
    <3>3. CASE job = n /\ status # "COMPLETED"
      BY <1>3, <2>2, <3>3
    <3>4. QED
      BY <3>1, <3>2, <3>3
  <2>5. QED
    BY <1>3, <2>2, <2>3, <2>4 DEF DestroyAsked
<1>10. PlaceOK' /\ MarkOK'
  BY <1>1, <1>2 DEF PlaceOK, MarkOK
<1>11. (Unmarked' => Unmarked) /\ (TornDown' => TornDown)
  BY <1>1 DEF Unmarked, TornDown
<1>12. ResourcesOK'
  BY <1>1, <1>2, <1>7, <1>8, <1>9, <1>11 DEF ResourcesOK, WorkspaceOutlivesResources
<1>13. QED
  BY <1>3, <1>4, <1>10, <1>12 DEF IInv

LEMMA StutterKeeps == IInv /\ UNCHANGED schematicVars => IInv'
<1> SUFFICES ASSUME IInv, UNCHANGED schematicVars PROVE IInv'
  OBVIOUS
<1>1. /\ UNCHANGED <<pc, stage, options, failed, job, workspace>>
      /\ UNCHANGED <<TerraformTestStarted, TerraformResourcesCreated>>
      /\ UNCHANGED <<jobs, resources, code>>
  BY DEF schematicVars, testVars, cloudVars
<1>2. /\ jobs' \in Seq(Job) /\ code' \in Codes
      /\ Nothing => Nothing'
      /\ Idle' <=> Idle
      /\ (resources' \/ Applying') <=> (resources \/ Applying)
      /\ DestroyAsked => DestroyAsked'
  BY <1>1, CloudStays
<1>3. PlaceOK /\ MarkOK /\ ResourcesOK
  BY DEF IInv
<1>4. PlaceOK' /\ MarkOK'
  BY <1>1, <1>3 DEF PlaceOK, MarkOK
<1>5. (Unmarked' => Unmarked) /\ (TornDown' => TornDown)
  BY <1>1 DEF Unmarked, TornDown
<1>6. ResourcesOK'
  BY <1>1, <1>2, <1>3, <1>5 DEF ResourcesOK, WorkspaceOutlivesResources
<1>7. QED
  BY <1>2, <1>4, <1>6 DEF IInv

LEMMA NextIInv == IInv /\ [SchematicNext]_schematicVars => IInv'
<1>1. IInv /\ TestStep => IInv'
  BY SetupKeeps, CreateWorkspaceKeeps, ValidateKeeps, UploadKeeps, FindKeeps, UpdateKeeps,
     CreateKeeps, CreateFailsKeeps, RefusalsKeep, WaitLongerKeeps, JobCompletedKeeps,
     HookKeeps, TearDownKeeps, DeleteKeeps DEF TestStep
<1>2. QED
  BY <1>1, RefusalsKeep, TestTearDownKeeps, JobEndsKeeps, StutterKeeps DEF SchematicNext

(* The strengthened invariant holds throughout a Schematics test, whatever *)
(* the service answers and wherever the test ends.                         *)
THEOREM AlwaysIInv == SchematicSpec => []IInv
BY InitIInv, NextIInv, PTL DEF SchematicSpec

-----------------------------------------------------------------------------
(* A test that ends without a failure leaves nothing deployed and nothing  *)
(* that is still being deployed, whichever answers were lost.              *)
THEOREM GreenLeavesNothing == SchematicSpec => []PassLeavesNoResources
<1>1. IInv => PassLeavesNoResources
  BY DEF IInv, ResourcesOK, TornDown, Idle, PassLeavesNoResources
<1>2. QED
  BY <1>1, AlwaysIInv, PTL

(* The workspace is deleted only after what was deployed from it, unless   *)
(* the test has failed and was told to delete it nevertheless.             *)
THEOREM WorkspaceDeletedLast == SchematicSpec => []WorkspaceOutlivesResources
<1>1. IInv => WorkspaceOutlivesResources
  BY DEF IInv, ResourcesOK
<1>2. QED
  BY <1>1, AlwaysIInv, PTL

-----------------------------------------------------------------------------
(* What a passing test has planned.  No upload is still to run, and the    *)
(* code in the workspace is the branch's.                                  *)
NoUploadRuns ==
  \A i \in 1 .. Len(jobs) :
    jobs[i].kind = "TAR_WORKSPACE_UPLOAD" => jobs[i].status # "CREATED"
Settled == code = "branch" /\ NoUploadRuns

(* The newest job is the upload the test is waiting for.                   *)
LastUpload ==
  /\ Len(jobs) \in 1 .. Len(jobs)
  /\ jobs[Len(jobs)].kind = "TAR_WORKSPACE_UPLOAD"
  /\ jobs[Len(jobs)].code = Uploaded
  /\ jobs[Len(jobs)].status = "COMPLETED" => code = Uploaded /\ NoUploadRuns
AwaitsUpload == pc = "wait" /\ stage \in {"upload", "upgradeUpload"}

(* The plan the test is waiting for is made from the branch's code.        *)
PlanOfBranch ==
  /\ job \in 1 .. Len(jobs)
  /\ jobs[job].kind = "PLAN"
  /\ jobs[job].status = "COMPLETED" => jobs[job].code = "branch"

(* The last upload is behind the test: the only one, if it is no upgrade.  *)
BranchStage ==
  \/ stage \in {"consistency", "upgradeApply"}
  \/ ~options.upgrade /\ (pc = "vars" \/ stage \in {"plan", "apply"})

Through ==
  /\ pc \in {"tearDown", "delete", "ended"} \/ stage = "destroy"
  /\ TerraformTestStarted /\ ~failed /\ ~err

UpgradeOnly ==
  /\ stage = "upgradeUpload" \/ (pc = "validate" /\ TerraformTestStarted) => options.upgrade
  /\ pc = "preApply" => stage = "plan"
CheckedInv == pc = "check" \/ stage = "upgradeApply" \/ Through => checked = "branch"
UploadInv ==
  /\ pc = "find" \/ AwaitsUpload => LastUpload
  /\ AwaitsUpload => job = Len(jobs)
BranchInv ==
  /\ UpgradeOnly
  /\ ~lagged =>
       /\ UploadInv
       /\ BranchStage => Settled
       /\ stage = "consistency" /\ pc = "wait" => PlanOfBranch
       /\ CheckedInv

(* A step of the test that leaves the service alone and neither looks for  *)
(* an upload nor begins a stage.                                           *)
LEMMA BranchStays ==
  ASSUME BranchInv, UNCHANGED <<jobs, code, stage, options>>, UpgradeOnly',
         pc' \notin {"find", "check"}, pc' = "wait" => pc = "wait" /\ UNCHANGED job,
         pc' = "vars" => pc = "vars", lagged' = lagged,
         UNCHANGED checked, Through' => Through \/ pc = "check" \/ stage = "upgradeApply"
  PROVE  BranchInv'
<1>1. CASE lagged
  BY <1>1 DEF BranchInv
<1>2. CASE ~lagged
  <2>1. (Settled' <=> Settled) /\ (LastUpload' <=> LastUpload)
    BY DEF Settled, NoUploadRuns, LastUpload, Uploaded
  <2>2. BranchStage' => BranchStage
    BY DEF BranchStage
  <2>3. UploadInv'
    BY <1>2, <2>1 DEF BranchInv, UploadInv, AwaitsUpload
  <2>4. stage' = "consistency" /\ pc' = "wait" => PlanOfBranch'
    BY <1>2 DEF BranchInv, PlanOfBranch
  <2>5. CheckedInv'
    BY <1>2 DEF BranchInv, CheckedInv
  <2> QED
    BY <1>2, <2>1, <2>2, <2>3, <2>4, <2>5 DEF BranchInv
<1> QED
  BY <1>1, <1>2

LEMMA BranchRefused ==
  ASSUME IInv, BranchInv,
         GetRefreshTokenFails \/ WaitTimesOut \/ WaitFails \/ JobFailed
  PROVE  BranchInv'
<1>1. /\ UNCHANGED <<jobs, code, stage, options, lagged, checked>>
      /\ pc' \in {"tearDown", "delete"} /\ (failed' = TRUE \/ err' = TRUE)
  BY DEF GetRefreshTokenFails, WaitTimesOut, WaitFails, JobFailed, Refuse, Upload,
         ReturnError, AssertFails, Goto, cloudVars
<1>2. UpgradeOnly'
  BY <1>1 DEF BranchInv, UpgradeOnly
<1>3. ~Through'
  BY <1>1 DEF Through
<1> QED
  BY <1>1, <1>2, <1>3, BranchStays

(* Every step but those that make, find or finish a job or begin a stage.  *)
LEMMA BranchQuiet ==
  ASSUME IInv, BranchInv,
         \/ Setup \/ CreateTestWorkspace \/ WaitLonger \/ DeleteWorkspace \/ TestTearDown
         \/ UNCHANGED schematicVars
  PROVE  BranchInv'
<1>1. PlaceOK
  BY DEF IInv
<1>2. CASE Setup
  <2>1. /\ UNCHANGED <<jobs, code, stage, options, lagged, checked, TerraformTestStarted>>
        /\ pc' \in {"workspace", "tearDown", "ended"} /\ ~TerraformTestStarted
    BY <1>1, <1>2 DEF Setup, Fine, Goto, ReturnError, cloudVars, PlaceOK
  <2>2. UpgradeOnly' /\ ~Through'
    BY <2>1 DEF BranchInv, UpgradeOnly, Through
  <2> QED
    BY <2>1, <2>2, BranchStays
<1>3. CASE CreateTestWorkspace
  <2>1. /\ UNCHANGED <<jobs, code, stage, options, lagged, checked, TerraformTestStarted>>
        /\ pc' \in {"validate", "tearDown"} /\ ~TerraformTestStarted
    BY <1>1, <1>3 DEF CreateTestWorkspace, Fine, Goto, ReturnError, PlaceOK
  <2>2. UpgradeOnly' /\ ~Through'
    BY <2>1 DEF BranchInv, UpgradeOnly, Through
  <2> QED
    BY <2>1, <2>2, BranchStays
<1>4. CASE WaitLonger
  <2>1. /\ UNCHANGED <<jobs, code, stage, options, lagged, checked, pc, job>>
        /\ UNCHANGED <<failed, err, TerraformTestStarted>> /\ pc = "wait"
    BY <1>4 DEF WaitLonger, cloudVars
  <2>2. UpgradeOnly' /\ (Through' => Through)
    BY <2>1 DEF BranchInv, UpgradeOnly, Through
  <2> QED
    BY <2>1, <2>2, BranchStays
<1>5. CASE DeleteWorkspace
  <2>1. /\ UNCHANGED <<jobs, code, stage, options, lagged, checked, TerraformTestStarted>>
        /\ pc = "delete" /\ pc' = "ended" /\ failed' \in {failed, TRUE} /\ err' = err
    BY <1>5 DEF DeleteWorkspace, Goto
  <2>3. ~failed' => ~failed
    BY <2>1
  <2>2. UpgradeOnly' /\ (Through' => Through)
    BY <2>1, <2>3 DEF BranchInv, UpgradeOnly, Through
  <2> QED
    BY <2>1, <2>2, BranchStays
<1>6. CASE TestTearDown
  <2>1. /\ UNCHANGED <<jobs, code, stage, lagged, checked, TerraformTestStarted>>
        /\ options' = [options EXCEPT !.skipTearDown = FALSE]
        /\ pc = "ended" /\ pc' = "tearDown" /\ failed' \in {failed, TRUE} /\ err' = err
    BY <1>6 DEF TestTearDown, Goto, cloudVars
  <2>2. options'.upgrade = options.upgrade
    BY <2>1
  <2>7. ~failed' => ~failed
    BY <2>1
  <2>3. UpgradeOnly' /\ (Through' => Through)
    BY <2>1, <2>2, <2>7 DEF BranchInv, UpgradeOnly, Through
  <2>4. Settled' <=> Settled
    BY <2>1 DEF Settled, NoUploadRuns
  <2>5. (BranchStage' => BranchStage) /\ UploadInv'
    BY <2>1, <2>2 DEF BranchStage, UploadInv, AwaitsUpload
  <2>6. CheckedInv => CheckedInv'
    BY <2>1, <2>3 DEF CheckedInv
  <2> QED
    BY <2>1, <2>3, <2>4, <2>5, <2>6 DEF BranchInv
<1>7. CASE UNCHANGED schematicVars
  <2>1. /\ UNCHANGED <<jobs, code, stage, options, lagged, checked, pc, job>>
        /\ UNCHANGED <<failed, err, TerraformTestStarted>>
    BY <1>7 DEF schematicVars, testVars, cloudVars
  <2> QED
    BY <2>1 DEF BranchInv, UpgradeOnly, UploadInv, AwaitsUpload, LastUpload, Uploaded,
        BranchStage, Settled, NoUploadRuns, PlanOfBranch, CheckedInv, Through
<1> QED
  BY <1>2, <1>3, <1>4, <1>5, <1>6, <1>7

(* A job that is appended but is no upload leaves a settled code settled.  *)
LEMMA AppendSettles ==
  ASSUME IInv, jobs' \in {jobs, Append(jobs, NewJob)}, UNCHANGED code,
         stage \in Created, Settled
  PROVE  Settled'
<1>1. jobs \in Seq(Job) /\ NewJob \in Job /\ NewJob.kind = Kind(stage)
  BY NewJobType DEF IInv, Stages, Created
<1>2. Kind(stage) # "TAR_WORKSPACE_UPLOAD"
  BY KindOf DEF Created
<1>3. CASE jobs' = jobs
  BY <1>3 DEF Settled, NoUploadRuns
<1>4. CASE jobs' = Append(jobs, NewJob)
  <2> HIDE DEF Job
  <2>1. Len(jobs') = Len(jobs) + 1 /\ Len(jobs) \in Nat
        /\ \A k \in 1 .. Len(jobs) + 1 :
              jobs'[k] = IF k = Len(jobs) + 1 THEN NewJob ELSE jobs[k]
    BY <1>1, <1>4
  <2> QED
    BY <1>1, <1>2, <2>1 DEF Settled, NoUploadRuns
<1> QED
  BY <1>3, <1>4

LEMMA BranchCreate ==
  ASSUME IInv, BranchInv, CreateJob \/ CreateJobFails
  PROVE  BranchInv'
<1>1. /\ pc = "create" /\ stage' = stage /\ jobs' \in {jobs, Append(jobs, NewJob)}
      /\ UNCHANGED <<code, options, TerraformTestStarted, checked, lagged, err>>
      /\ \/ pc' = "wait" /\ failed' = failed /\ jobs' = Append(jobs, NewJob)
            /\ job' = Len(jobs) + 1
         \/ pc' = "create" /\ failed' = failed
         \/ pc' \in {"tearDown", "delete"} /\ failed' = TRUE
  BY DEF CreateJob, CreateJobFails, AssertFails, Fine, Goto
<1>2. stage \in Created /\ jobs \in Seq(Job)
  BY <1>1 DEF IInv, PlaceOK
<1>3. UpgradeOnly'
  BY <1>1 DEF BranchInv, UpgradeOnly
<1>4. SUFFICES ASSUME ~lagged
               PROVE  /\ UploadInv' /\ (BranchStage' => Settled')
                      /\ stage' = "consistency" /\ pc' = "wait" => PlanOfBranch'
                      /\ CheckedInv'
  BY <1>1, <1>3 DEF BranchInv
<1>5. UploadInv'
  BY <1>1, <1>2 DEF UploadInv, AwaitsUpload, Created
<1>6. BranchStage' => Settled'
  <2>1. BranchStage' => BranchStage
    BY <1>1 DEF BranchStage
  <2> QED
    BY <1>1, <1>2, <1>4, <2>1, AppendSettles DEF BranchInv
<1>7. stage' = "consistency" /\ pc' = "wait" => PlanOfBranch'
  <2>1. SUFFICES ASSUME stage = "consistency", jobs' = Append(jobs, NewJob),
                        job' = Len(jobs) + 1
                 PROVE  PlanOfBranch'
    BY <1>1
  <2>2. NewJob.kind = "PLAN" /\ NewJob.status = "CREATED" /\ NewJob \in Job
    BY <1>2, <2>1, KindOf, NewJobType DEF IInv, Stages, Created
  <2>3. Len(jobs') = Len(jobs) + 1 /\ Len(jobs) \in Nat /\ jobs'[Len(jobs) + 1] = NewJob
    BY <1>2, <2>1, <2>2
  <2> QED
    BY <2>1, <2>2, <2>3 DEF PlanOfBranch
<1>8. CheckedInv'
  <2>1. Through' => Through
    BY <1>1 DEF Through
  <2> QED
    BY <1>1, <1>4, <2>1 DEF BranchInv, CheckedInv
<1> QED
  BY <1>5, <1>6, <1>7, <1>8

LEMMA BranchUpload ==
  ASSUME IInv, BranchInv, UploadTarToWorkspace
  PROVE  BranchInv'
<1>1. /\ pc = "upload" /\ stage' = stage
      /\ UNCHANGED <<code, options, TerraformTestStarted, checked, lagged, failed>>
      /\ \/ pc' = "find" /\ jobs' = Append(jobs, NewJob)
         \/ pc' = "tearDown" /\ err' = TRUE
  BY DEF UploadTarToWorkspace, ReturnError, Fine, Goto
<1>2. stage \in {"upload", "upgradeUpload"} /\ jobs \in Seq(Job)
  BY <1>1 DEF IInv, PlaceOK
<1>3. UpgradeOnly'
  BY <1>1 DEF BranchInv, UpgradeOnly
<1>4. ~BranchStage' /\ stage' # "consistency"
  BY <1>1, <1>2 DEF BranchStage
<1>5. CheckedInv'
  BY <1>1, <1>2 DEF CheckedInv, Through
<1>6. UploadInv'
  <2>1. SUFFICES ASSUME jobs' = Append(jobs, NewJob) PROVE LastUpload'
    BY <1>1 DEF UploadInv, AwaitsUpload
  <2>2. NewJob \in Job /\ NewJob.kind = "TAR_WORKSPACE_UPLOAD" /\ NewJob.status = "CREATED"
    BY <1>2, KindOf, NewJobType DEF Stages
  <2>3. NewJob.code = Uploaded
    BY <1>2, KindOf DEF NewJob
  <2>4. Len(jobs') = Len(jobs) + 1 /\ Len(jobs) \in Nat /\ jobs'[Len(jobs) + 1] = NewJob
    BY <1>2, <2>1, <2>2
  <2>5. Uploaded' = Uploaded
    BY <1>1 DEF Uploaded
  <2> QED
    BY <2>2, <2>3, <2>4, <2>5 DEF LastUpload
<1> QED
  BY <1>3, <1>4, <1>5, <1>6 DEF BranchInv

LEMMA BranchFind ==
  ASSUME IInv, BranchInv, FindLatestJobByName
  PROVE  BranchInv'
<1>1. /\ pc = "find" /\ stage' = stage
      /\ UNCHANGED <<jobs, code, options, TerraformTestStarted, checked, failed>>
      /\ pc' = "wait" \/ (pc' = "tearDown" /\ err' = TRUE)
  BY DEF FindLatestJobByName, ReturnError, Fine, Goto, cloudVars
<1>2. stage \in {"upload", "upgradeUpload"} /\ jobs \in Seq(Job) /\ Len(jobs) \in Nat
  BY <1>1 DEF IInv, PlaceOK
<1>3. UpgradeOnly'
  BY <1>1 DEF BranchInv, UpgradeOnly
<1>4. ~BranchStage' /\ stage' # "consistency"
  BY <1>1, <1>2 DEF BranchStage
<1>5. CheckedInv'
  BY <1>1, <1>2 DEF CheckedInv, Through
<1>6. ~lagged' => UploadInv'
  <2>1. SUFFICES ASSUME ~lagged', pc' = "wait" PROVE LastUpload' /\ job' = Len(jobs)
    BY <1>1 DEF UploadInv, AwaitsUpload
  <2>2. PICK n \in {Len(jobs) - 1, Len(jobs)} :
          LET listed == {i \in 1 .. n : jobs[i].kind = "TAR_WORKSPACE_UPLOAD"} IN
          /\ listed # {} => job' = LatestJob(listed)
          /\ listed = {} => ReturnError
          /\ lagged' = (lagged \/ n < Len(jobs))
    BY DEF FindLatestJobByName
  <2>3. ~lagged /\ ~(n < Len(jobs))
    BY <2>1, <2>2
  <2>4. n = Len(jobs)
    BY <1>2, <2>3
  <2>5. LastUpload
    BY <1>1, <2>3 DEF BranchInv, UploadInv
  <2> DEFINE listed == {i \in 1 .. n : jobs[i].kind = "TAR_WORKSPACE_UPLOAD"}
  <2>6. Len(jobs) \in listed /\ \A k \in listed : k <= Len(jobs) /\ k \in Nat
    BY <1>2, <2>4, <2>5 DEF LastUpload
  <2>7. job' = LatestJob(listed)
    BY <2>2, <2>6
  <2>8. LatestJob(listed) = Len(jobs)
    <3> HIDE DEF listed
    <3>1. /\ LatestJob(listed) \in listed
          /\ \A k \in listed : k <= LatestJob(listed)
      BY <2>6 DEF LatestJob
    <3> QED
      BY <1>2, <2>6, <3>1
  <2>9. LastUpload' <=> LastUpload
    BY <1>1 DEF LastUpload, NoUploadRuns, Uploaded
  <2> QED
    BY <2>5, <2>7, <2>8, <2>9
<1> QED
  BY <1>3, <1>4, <1>5, <1>6 DEF BranchInv

(* The steps that begin a stage, or come to the teardown.                  *)
LEMMA BranchBegins ==
  ASSUME IInv, BranchInv,
         validateVariables \/ UpdateTestTemplateVars \/ ApplyHook \/ CheckConsistency
  PROVE  BranchInv'
<1>1. /\ UNCHANGED <<jobs, code, options, checked, lagged>>
      /\ pc \in {"validate", "vars", "preApply", "postApply", "check"}
  BY DEF validateVariables, UpdateTestTemplateVars, ApplyHook, CheckConsistency, cloudVars
<1>2. PlaceOK
  BY DEF IInv
<1>3. Settled' <=> Settled
  BY <1>1 DEF Settled, NoUploadRuns
<1>4. CASE validateVariables
  <2>1. /\ pc = "validate" /\ UNCHANGED TerraformTestStarted
        /\ \/ pc' = "tearDown" /\ stage' = stage /\ err' = TRUE
           \/ /\ pc' = "upload"
              /\ stage' = IF TerraformTestStarted THEN "upgradeUpload" ELSE "upload"
    BY <1>4 DEF validateVariables, Fine, Goto, Start, ReturnError
  <2>2. UpgradeOnly'
    BY <1>1, <2>1 DEF BranchInv, UpgradeOnly
  <2>3. ~AwaitsUpload' /\ pc' # "find" /\ pc' # "wait"
    BY <2>1 DEF AwaitsUpload
  <2>4. (BranchStage' => BranchStage) /\ ~Through'
    BY <1>1, <2>1 DEF BranchStage, Through
  <2>5. stage' = "upgradeApply" => stage = "upgradeApply"
    BY <2>1
  <2> QED
    BY <1>1, <1>3, <2>1, <2>2, <2>3, <2>4, <2>5 DEF BranchInv, UploadInv, CheckedInv
<1>5. CASE UpdateTestTemplateVars
  <2>1. /\ pc = "vars"
        /\ \/ pc' = "create" /\ stage' = "plan" /\ TerraformTestStarted' = TRUE
           \/ pc' = "tearDown" /\ stage' = stage /\ UNCHANGED TerraformTestStarted
              /\ err' = TRUE
    BY <1>5 DEF UpdateTestTemplateVars, Fine, Goto, Start, ReturnError
  <2>2. UpgradeOnly' /\ stage \in {"upload", "upgradeUpload"}
    BY <1>1, <1>2, <2>1 DEF BranchInv, UpgradeOnly, PlaceOK
  <2>3. ~AwaitsUpload' /\ pc' # "find" /\ pc' # "wait"
    BY <2>1 DEF AwaitsUpload
  <2>4. (BranchStage' => BranchStage) /\ ~Through' /\ stage' # "upgradeApply" /\ pc' # "check"
    BY <1>1, <2>1, <2>2 DEF BranchStage, Through
  <2> QED
    BY <1>1, <1>3, <2>2, <2>3, <2>4 DEF BranchInv, UploadInv, CheckedInv
<1>6. CASE ApplyHook
  <2>1. /\ UNCHANGED TerraformTestStarted
        /\ \/ pc' = (IF stage = "destroy" THEN "delete" ELSE "tearDown") /\ stage' = stage
              /\ failed' = TRUE
           \/ pc = "preApply" /\ stage' = "apply" /\ pc' = "create"
           \/ pc = "postApply" /\ options.upgrade /\ stage' = stage /\ pc' = "validate"
           \/ pc = "postApply" /\ ~options.upgrade /\ stage' = "consistency" /\ pc' = "create"
    BY <1>6 DEF ApplyHook, AssertFails, Fine, Goto, Start
  <2>2. /\ pc = "preApply" => stage = "plan"
        /\ pc = "postApply" => stage = "apply"
        /\ pc \in {"preApply", "postApply"}
    BY <1>2, <1>6 DEF BranchInv, UpgradeOnly, PlaceOK, ApplyHook
  <2>3. UpgradeOnly'
    BY <1>1, <2>1, <2>2 DEF BranchInv, UpgradeOnly
  <2>4. ~AwaitsUpload' /\ pc' # "find" /\ pc' # "wait"
    BY <2>1 DEF AwaitsUpload
  <2>5. BranchStage' => BranchStage
    BY <1>1, <2>1, <2>2 DEF BranchStage
  <2>6. ~Through' /\ stage' # "upgradeApply" /\ pc' # "check"
    BY <2>1, <2>2 DEF Through
  <2> QED
    BY <1>1, <1>3, <2>3, <2>4, <2>5, <2>6 DEF BranchInv, UploadInv, CheckedInv
<1>7. CASE CheckConsistency
  <2>1. /\ pc = "check" /\ UNCHANGED TerraformTestStarted
        /\ \/ pc' \in {"delete", "tearDown"} /\ stage' = stage
           \/ stage' = "upgradeApply" /\ pc' = "create"
    BY <1>7 DEF CheckConsistency, AssertFails, Fine, Goto, Start
  <2>2. stage = "consistency"
    BY <1>2, <2>1 DEF PlaceOK
  <2>3. UpgradeOnly'
    BY <2>1, <2>2 DEF UpgradeOnly
  <2>4. ~AwaitsUpload' /\ pc' # "find" /\ pc' # "wait" /\ BranchStage
    BY <2>1, <2>2 DEF AwaitsUpload, BranchStage
  <2>5. CheckedInv => CheckedInv'
    BY <1>1, <2>1 DEF CheckedInv
  <2> QED
    BY <1>1, <1>3, <2>3, <2>4, <2>5 DEF BranchInv, UploadInv
<1> QED
  BY <1>4, <1>5, <1>6, <1>7

LEMMA BranchCompleted ==
  ASSUME IInv, BranchInv, JobCompleted
  PROVE  BranchInv'
<1>1. /\ pc = "wait" /\ UNCHANGED <<jobs, code, options, lagged, failed, err>>
      /\ UNCHANGED TerraformTestStarted
      /\ jobs[job].status = "COMPLETED"
      /\ checked' = IF Kind(stage) = "PLAN" THEN jobs[job].code ELSE checked
  BY DEF JobCompleted, JobSuccess, Fine, cloudVars
<1>2. PlaceOK
  BY DEF IInv
<1>3. \/ stage = "upload" /\ stage' = stage /\ pc' = "vars"
      \/ stage = "plan" /\ stage' = stage /\ pc' = "preApply"
      \/ stage = "apply" /\ stage' = stage /\ pc' = "postApply"
      \/ stage = "upgradeUpload" /\ stage' = "consistency" /\ pc' = "create"
      \/ stage = "consistency" /\ stage' = stage /\ pc' = "check"
      \/ stage = "upgradeApply" /\ stage' = stage /\ pc' = "tearDown"
      \/ stage = "destroy" /\ stage' = stage /\ pc' = "delete"
  BY <1>1, <1>2 DEF JobCompleted, Goto, Start, Created, PlaceOK, Stages
<1>4. UpgradeOnly'
  BY <1>1, <1>3 DEF BranchInv, UpgradeOnly
<1>5. SUFFICES ASSUME ~lagged
               PROVE  UploadInv' /\ (BranchStage' => Settled') /\ CheckedInv'
  BY <1>1, <1>3, <1>4 DEF BranchInv
<1>6. UploadInv'
  BY <1>3 DEF UploadInv, AwaitsUpload
<1>7. BranchStage' => Settled'
  <2>1. Settled' <=> Settled
    BY <1>1 DEF Settled, NoUploadRuns
  <2>2. stage \in {"upload", "upgradeUpload"} => code = Uploaded /\ NoUploadRuns
    BY <1>1, <1>5 DEF BranchInv, UploadInv, AwaitsUpload, LastUpload
  <2>3. CASE BranchStage
    BY <1>5, <2>1, <2>3 DEF BranchInv
  <2>4. CASE ~BranchStage /\ BranchStage'
    <3>1. \/ stage = "upload" /\ ~options.upgrade
          \/ stage = "upgradeUpload"
      BY <1>1, <1>3, <2>4 DEF BranchStage
    <3>2. Uploaded = "branch"
      BY <3>1 DEF Uploaded
    <3> QED
      BY <2>1, <2>2, <3>1, <3>2 DEF Settled
  <2> QED
    BY <2>3, <2>4
<1>8. CheckedInv'
  <2>1. CASE stage = "consistency"
    <3>1. jobs[job].code = "branch"
      BY <1>1, <1>5, <2>1 DEF BranchInv, PlanOfBranch
    <3> QED
      BY <1>1, <2>1, <3>1, KindOf DEF CheckedInv
  <2>2. CASE stage \in {"upgradeApply", "destroy"}
    <3>1. checked' = checked
      BY <1>1, <2>2, KindOf
    <3>2. Through' => Through \/ stage = "upgradeApply"
      BY <1>1, <1>3, <2>2 DEF Through
    <3> QED
      BY <1>3, <1>5, <2>2, <3>1, <3>2 DEF BranchInv, CheckedInv
  <2>3. CASE stage \in {"upload", "plan", "apply", "upgradeUpload"}
    BY <1>3, <2>3 DEF CheckedInv, Through
  <2> QED
    BY <1>3, <2>1, <2>2, <2>3
<1> QED
  BY <1>6, <1>7, <1>8

LEMMA BranchTearDown ==
  ASSUME IInv, BranchInv, TearDown
  PROVE  BranchInv'
<1>1. /\ pc = "tearDown"
      /\ UNCHANGED <<jobs, code, options, checked, lagged, TerraformTestStarted, err>>
      /\ failed' = failed \/ failed' = TRUE
      /\ \/ pc' \in {"ended", "delete"} /\ stage' = stage
         \/ pc' = "create" /\ stage' = "destroy"
  BY DEF TearDown, Fine, Goto, Start, cloudVars
<1>2. ~failed' => ~failed
  BY <1>1
<1>3. UpgradeOnly' /\ (Through' => Through)
  BY <1>1, <1>2 DEF BranchInv, UpgradeOnly, Through
<1>4. (Settled' <=> Settled) /\ (BranchStage' => BranchStage)
  BY <1>1 DEF Settled, NoUploadRuns, BranchStage
<1>5. UploadInv' /\ pc' # "wait"
  BY <1>1 DEF UploadInv, AwaitsUpload
<1>6. CheckedInv => CheckedInv'
  BY <1>1, <1>3 DEF CheckedInv
<1> QED
  BY <1>1, <1>3, <1>4, <1>5, <1>6 DEF BranchInv

(* A job that ends: only an upload changes the code, and there is none to  *)
(* run once the code is settled; the jobs before it have all ended.        *)
LEMMA BranchJobEnds ==
  ASSUME IInv, BranchInv, NEW n \in 1 .. Len(jobs), NEW status \in {"COMPLETED", "FAILED"},
         JobEnds(n, status)
  PROVE  BranchInv'
<1>1. /\ jobs[n].status = "CREATED"
      /\ \A i \in 1 .. n - 1 : jobs[i].status # "CREATED"
      /\ UNCHANGED <<pc, stage, options, failed, err, job, checked, lagged>>
      /\ UNCHANGED TerraformTestStarted
      /\ code' = IF jobs[n].kind = "TAR_WORKSPACE_UPLOAD" /\ status = "COMPLETED"
                 THEN jobs[n].code ELSE code
  BY DEF JobEnds, JobRuns, testVars
<1>2. jobs \in Seq(Job) /\ Len(jobs) \in Nat
  BY DEF IInv
<1>3. /\ Len(jobs') = Len(jobs)
      /\ \A i \in 1 .. Len(jobs) : jobs'[i].kind = jobs[i].kind
      /\ \A i \in 1 .. Len(jobs) : jobs'[i].status = IF i = n THEN status ELSE jobs[i].status
      /\ \A i \in 1 .. Len(jobs) :
           jobs'[i].code = IF i = n /\ jobs[n].kind = "PLAN" THEN code ELSE jobs[i].code
  <2>1. jobs \in [1 .. Len(jobs) -> Job]
    BY <1>2
  <2>2. jobs' = [jobs EXCEPT ![n] =
                   [kind |-> jobs[n].kind, status |-> status,
                    code |-> IF jobs[n].kind = "PLAN" THEN code ELSE jobs[n].code]]
    BY <2>1 DEF JobEnds
  <2> QED
    BY <1>2, <2>1, <2>2
<1>4. Settled => Settled'
  BY <1>1, <1>3 DEF Settled, NoUploadRuns
<1>5. LastUpload => LastUpload'
  <2>1. SUFFICES ASSUME LastUpload PROVE LastUpload'
    OBVIOUS
  <2> DEFINE l == Len(jobs)
  <2>2. /\ l \in 1 .. l /\ Len(jobs') = l
        /\ jobs'[l].kind = "TAR_WORKSPACE_UPLOAD" /\ jobs'[l].code = Uploaded
    BY <1>3, <2>1 DEF LastUpload
  <2>3. Uploaded' = Uploaded
    BY <1>1 DEF Uploaded
  <2>4. CASE n = l
    <3>1. \A i \in 1 .. l : jobs'[i].status # "CREATED"
      BY <1>1, <1>2, <1>3, <2>4
    <3>2. jobs'[l].status = "COMPLETED" => code' = Uploaded
      BY <1>1, <1>3, <2>1, <2>4 DEF LastUpload
    <3> QED
      BY <2>2, <2>3, <3>1, <3>2 DEF LastUpload, NoUploadRuns
  <2>5. CASE n # l
    <3>1. jobs'[l].status = jobs[l].status
      BY <1>3, <2>2, <2>5
    <3>2. jobs[l].status = "COMPLETED" => code' = Uploaded /\ NoUploadRuns'
      BY <1>1, <1>3, <2>1 DEF LastUpload, NoUploadRuns
    <3> QED
      BY <2>2, <2>3, <3>1, <3>2 DEF LastUpload
  <2> QED
    BY <2>4, <2>5
<1>6. Settled /\ PlanOfBranch => PlanOfBranch'
  BY <1>1, <1>3 DEF Settled, PlanOfBranch
<1>7. (BranchStage' <=> BranchStage) /\ (Through' <=> Through) /\ (UpgradeOnly' <=> UpgradeOnly)
  BY <1>1 DEF BranchStage, Through, UpgradeOnly
<1>8. stage = "consistency" => BranchStage
  BY DEF BranchStage
<1>9. UploadInv => UploadInv'
  BY <1>1, <1>3, <1>5 DEF UploadInv, AwaitsUpload
<1>10. CheckedInv => CheckedInv'
  BY <1>1, <1>7 DEF CheckedInv
<1> QED
  BY <1>1, <1>4, <1>6, <1>7, <1>8, <1>9, <1>10 DEF BranchInv

LEMMA BranchStep == IInv /\ BranchInv /\ [SchematicNext]_schematicVars => BranchInv'
BY BranchRefused, BranchQuiet, BranchCreate, BranchUpload, BranchFind, BranchBegins,
   BranchCompleted, BranchTearDown, BranchJobEnds
DEF SchematicNext, TestStep

(* A Schematics test that passes has planned the code of the branch under  *)
(* test, for any number of retries, whatever jobs it does not know of, if  *)
(* the list of jobs has shown its uploads.                                 *)
THEOREM PassPlansTheBranch == SchematicSpec => []PassChecksTheBranch
<1>1. SchematicInit => BranchInv
  BY DEF SchematicInit, BranchInv, UpgradeOnly, UploadInv, AwaitsUpload, BranchStage,
     CheckedInv, Through
<1>2. BranchInv => PassChecksTheBranch
  BY DEF BranchInv, CheckedInv, Through, PassChecksTheBranch
<1>3. SchematicSpec => []IInv
  BY AlwaysIInv
<1> QED
  BY <1>1, <1>2, <1>3, BranchStep, PTL DEF SchematicSpec
=============================================================================
