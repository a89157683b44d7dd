------------------------- MODULE ProjectsTest_proof -------------------------
(***************************************************************************)
(* Proofs about ProjectsTest, for every number of attempts and every set   *)
(* of replies: its type invariant, and what must hold of the moment at     *)
(* which the project is deleted.                                           *)
(***************************************************************************)
EXTENDS ProjectsTest, TLAPS

(* The test has decided to delete its project.                             *)
Deleting == pc \in {"sleep", "delete"}

(* The test has no stack yet.                                              *)
SettingUp == pc \in {"setup", "catalog", "offering", "project", "stack"}

(* Nothing is deployed, or the undeployment has ended without an error, or *)
(* the resources were asked to be kept.                                    *)
Cleared == infra \in {"none", "left"} \/ opts.skipUndeploy

(* The inductive invariant.  A configuration that was never made has       *)
(* nothing deployed; once the undeployment has been decided and waited     *)
(* for, a test that has not failed has nothing left, and the decision to   *)
(* delete was taken by such a test.                                        *)
IInv ==
  /\ TypeOK
  /\ pc \in {"setup", "catalog"} => catalogs <= tries
  /\ ~configured \/ SettingUp => infra = "none"
  /\ pc \in {"predeploy", "deploy"} => configured
  /\ pc \in {"pipelines", "sleep", "delete"} => failed \/ Cleared
  /\ Deleting => ~failed
  /\ pc = "delete" => ~busy

-----------------------------------------------------------------------------
LEMMA InitIInv == Init => IInv
<1> SUFFICES ASSUME Init PROVE IInv
  OBVIOUS
<1>1. tries \in 0 .. Attempts - 1 /\ catalogs \in 0 .. Attempts /\ catalogs <= tries
  BY AttemptsAssumption DEF Init, NothingMade
<1>2. ResourcesTypeOK
  BY <1>1, Zenon DEF Init, NothingMade, ResourcesTypeOK
<1>3. TypeOK
  BY <1>2, Zenon DEF Init, TypeOK
<1>4. pc = "setup" /\ infra = "none"
  BY DEF Init, NothingMade
<1>5. QED
  BY <1>1, <1>3, <1>4 DEF IInv, Deleting, SettingUp

(* An attempt ends the step, ends the test, or counts one more failure and *)
(* stays where it is.                                                      *)
LEMMA AttemptEnds ==
  ASSUME TypeOK, NEW reply, NEW next, Attempt(reply, next)
  PROVE  /\ tries' \in 0 .. Attempts - 1
         /\ \/ pc' = pc /\ tries' = tries + 1 /\ reply # "ok"
            \/ pc' = next /\ reply = "ok"
            \/ pc' = "deferred"
         /\ \/ UNCHANGED testVars
            \/ failed' = TRUE /\ err' = TRUE /\ panicking' = panicking
<1>1. CASE reply = "ok" /\ tries' = 0 /\ Goto(next)
  BY <1>1, AttemptsAssumption DEF Goto
<1>2. CASE Retried(reply)
  BY <1>2, AttemptsAssumption
     DEF TypeOK, ResourcesTypeOK, Retried, AttemptLeft, testVars
<1>3. CASE GivesUp(reply) /\ ReturnError(TRUE)
  <2>1. tries' = 0 /\ pc' = "deferred" /\ err' = TRUE /\ panicking' = panicking
    BY <1>3 DEF GivesUp, ReturnError
  <2>2. failed' = TRUE
    BY <1>3, Zenon DEF ReturnError
  <2>3. QED
    BY <2>1, <2>2, AttemptsAssumption
<1>4. QED
  BY <1>1, <1>2, <1>3 DEF Attempt

(* A step after which the test's result is a BOOLEAN again.                *)
LEMMA ResultType ==
  ASSUME TypeOK
  PROVE  /\ UNCHANGED testVars =>
              failed' \in BOOLEAN /\ err' \in BOOLEAN /\ panicking' \in BOOLEAN
         /\ \A fail \in BOOLEAN : ReturnError(fail) =>
              failed' \in BOOLEAN /\ err' \in BOOLEAN /\ panicking' \in BOOLEAN
         /\ Panic =>
              failed' \in BOOLEAN /\ err' \in BOOLEAN /\ panicking' \in BOOLEAN
BY Zenon DEF TypeOK, ResourcesTypeOK, ReturnError, Panic, testVars

(* Each step of the test keeps the invariant.                              *)
LEMMA SetupKeeps ==
  ASSUME IInv, TestSetup
  PROVE  IInv'
<1>1. pc = "setup" /\ pc' \in {"catalog", "deferred"}
      /\ UNCHANGED <<opts, tries, cloudVars, configured, deployFailed, deployed, late>>
  BY DEF TestSetup, Goto, ReturnError
<1>2. failed' \in BOOLEAN /\ err' \in BOOLEAN /\ panicking' \in BOOLEAN
  BY ResultType DEF IInv, TestSetup, Goto
<1>3. TypeOK'
  BY <1>1, <1>2 DEF IInv, TypeOK, ResourcesTypeOK, cloudVars
<1>4. QED
  BY <1>1, <1>3 DEF IInv, Deleting, SettingUp, Cleared, cloudVars

LEMMA CatalogKeeps ==
  ASSUME IInv, SetupCatalog, UNCHANGED <<configured, deployFailed, deployed, late>>
  PROVE  IInv'
<1> USE DEF IInv
<1>1. /\ pc = "catalog"
      /\ UNCHANGED <<opts, current, project, infra, busy>>
  BY DEF SetupCatalog
<1>2. CASE UNCHANGED <<tries, catalogs>> /\ Goto("offering") /\ held' = ~opts.existing
  <2>1. failed' \in BOOLEAN /\ err' \in BOOLEAN /\ panicking' \in BOOLEAN
    BY <1>2, ResultType DEF Goto
  <2>2. held' \in BOOLEAN
    BY <1>2, Zenon
  <2>3. TypeOK'
    BY <1>1, <1>2, <2>1, <2>2 DEF TypeOK, ResourcesTypeOK, Goto
  <2>4. QED
    BY <1>1, <1>2, <2>3 DEF Goto, Deleting, SettingUp, Cleared
<1>3. ASSUME NEW reply \in Replies,
             Attempt(reply, "offering"),
             catalogs' = (IF reply \in {"ok", "lost"} THEN catalogs + 1 ELSE catalogs),
             held' = (reply = "ok")
      PROVE  IInv'
  <2>1. /\ tries' \in 0 .. Attempts - 1
        /\ \/ pc' = "catalog" /\ tries' = tries + 1 /\ reply # "ok"
           \/ pc' = "offering" \/ pc' = "deferred"
    BY <1>1, <1>3, AttemptEnds
  <2>2. failed' \in BOOLEAN /\ err' \in BOOLEAN /\ panicking' \in BOOLEAN
    <3>1. \/ UNCHANGED testVars
          \/ failed' = TRUE /\ err' = TRUE /\ panicking' = panicking
      BY <1>3, AttemptEnds
    <3>2. QED
      BY <3>1, Zenon DEF TypeOK, ResourcesTypeOK, testVars
  <2>3. held' \in BOOLEAN
    BY <1>3, Zenon
  <2>4. catalogs' \in 0 .. Attempts /\ (pc' = "catalog" => catalogs' <= tries')
    BY <1>1, <1>3, <2>1, AttemptsAssumption DEF TypeOK, ResourcesTypeOK
  <2>5. TypeOK'
    BY <1>1, <2>1, <2>2, <2>3, <2>4 DEF TypeOK, ResourcesTypeOK
  <2>6. QED
    BY <1>1, <2>1, <2>4, <2>5 DEF Deleting, SettingUp, Cleared
<1>4. QED
  BY <1>2, <1>3 DEF SetupCatalog

(* The other steps of the set-up that are tried again.                     *)
LEMMA TriedKeeps ==
  ASSUME IInv, NEW reply, NEW next \in {"project", "stack"}, Attempt(reply, next),
         pc \in {"offering", "project"},
         UNCHANGED <<opts, catalogs, held, infra, busy>>,
         project' \in BOOLEAN, current' \in {"nil", "noid", "id"},
         UNCHANGED <<configured, deployFailed, deployed, late>>
  PROVE  IInv'
<1>1. /\ tries' \in 0 .. Attempts - 1
      /\ pc' \in {"offering", "project", "stack", "deferred"}
  BY AttemptEnds DEF IInv
<1>2. failed' \in BOOLEAN /\ err' \in BOOLEAN /\ panicking' \in BOOLEAN
  <2>1. \/ UNCHANGED testVars
        \/ failed' = TRUE /\ err' = TRUE /\ panicking' = panicking
    BY AttemptEnds DEF IInv
  <2>2. QED
    BY <2>1, Zenon DEF IInv, TypeOK, ResourcesTypeOK, testVars
<1>3. TypeOK'
  BY <1>1, <1>2 DEF IInv, TypeOK, ResourcesTypeOK
<1>4. QED
  BY <1>1, <1>3 DEF IInv, Deleting, SettingUp, Cleared

LEMMA OfferingKeeps ==
  ASSUME IInv, SetupOffering, UNCHANGED <<configured, deployFailed, deployed, late>>
  PROVE  IInv'
<1>1. pc = "offering" /\ UNCHANGED <<opts, cloudVars>>
  BY DEF SetupOffering
<1>2. CASE \E reply \in Replies : Attempt(reply, "project")
  BY <1>1, <1>2, TriedKeeps DEF IInv, TypeOK, ResourcesTypeOK, cloudVars
<1>3. CASE Panic /\ UNCHANGED tries
  <2>1. failed' \in BOOLEAN /\ err' \in BOOLEAN /\ panicking' \in BOOLEAN
    BY <1>3, ResultType DEF IInv
  <2>2. pc' = "deferred"
    BY <1>3 DEF Panic
  <2>3. TypeOK'
    BY <1>1, <1>3, <2>1, <2>2 DEF IInv, TypeOK, ResourcesTypeOK, cloudVars
  <2>4. QED
    BY <1>1, <2>2, <2>3 DEF IInv, Deleting, SettingUp, Cleared, cloudVars
<1>4. QED
  BY <1>2, <1>3 DEF SetupOffering

LEMMA ProjectKeeps ==
  ASSUME IInv, SetupProject("stack"), UNCHANGED <<configured, deployFailed, deployed, late>>
  PROVE  IInv'
<1>1. pc = "project" /\ UNCHANGED <<opts, catalogs, held, infra, busy>>
  BY DEF SetupProject
<1>2. project' \in BOOLEAN
  <2>1. UNCHANGED <<project, current>> => project' = project
    OBVIOUS
  <2>2. ASSUME NEW reply, project' = (reply \in {"ok", "lost"})
        PROVE  project' \in BOOLEAN
    BY <2>2, SMT
  <2>3. QED
    BY <2>1, <2>2, Zenon DEF IInv, TypeOK, ResourcesTypeOK, SetupProject
<1>3. current' \in {"nil", "noid", "id"}
  <2>1. current \in {"nil", "noid", "id"}
    BY DEF IInv, TypeOK, ResourcesTypeOK
  <2>2. CASE \E reply \in Replies : current' = IF reply = "ok" THEN "id" ELSE current
    BY <2>1, <2>2
  <2>3. CASE current' = "noid"
    BY <2>3
  <2>4. CASE UNCHANGED <<project, current>>
    BY <2>1, <2>4
  <2>5. QED
    BY <2>2, <2>3, <2>4, Zenon DEF SetupProject
<1>4. \E reply : Attempt(reply, "stack")
  BY Zenon DEF SetupProject
<1>5. QED
  BY <1>1, <1>2, <1>3, <1>4, TriedKeeps

(* The steps that leave the cloud as it is, up to the end of the test.     *)
LEMMA QuietKeeps ==
  ASSUME IInv, UNCHANGED <<opts, tries, cloudVars, configured, late>>,
         deployFailed' \in BOOLEAN, deployed' \in BOOLEAN,
         failed' \in BOOLEAN, err' \in BOOLEAN, panicking' \in BOOLEAN,
         pc' \in {"deploy", "postdeploy", "finish", "deferred", "undeploy", "end"},
         pc' = "deploy" => configured
  PROVE  IInv'
<1>1. TypeOK'
  BY DEF IInv, TypeOK, ResourcesTypeOK, cloudVars
<1>2. QED
  BY <1>1 DEF IInv, Deleting, SettingUp, Cleared, cloudVars

LEMMA StackKeeps ==
  ASSUME IInv, ConfigureTestStack
  PROVE  IInv'
<1>1. /\ pc = "stack"
      /\ UNCHANGED <<opts, tries, cloudVars, deployFailed, deployed, late>>
      /\ pc' \in {"predeploy", "deferred"}
      /\ pc' = "predeploy" => configured'
  BY DEF ConfigureTestStack, Goto
<1>2. failed' \in BOOLEAN /\ err' \in BOOLEAN /\ panicking' \in BOOLEAN
  BY Zenon DEF IInv, TypeOK, ResourcesTypeOK, ConfigureTestStack, Goto, testVars
<1>3. configured' \in BOOLEAN
  BY Zenon DEF IInv, TypeOK, ConfigureTestStack
<1>4. TypeOK'
  BY <1>1, <1>2, <1>3 DEF IInv, TypeOK, ResourcesTypeOK, cloudVars
<1>5. QED
  BY <1>1, <1>4 DEF IInv, Deleting, SettingUp, Cleared, cloudVars

LEMMA HookKeeps ==
  ASSUME IInv, NEW next \in {"deploy", "finish"}, Hook(next),
         next = "deploy" => configured
  PROVE  IInv'
<1>1. /\ UNCHANGED <<opts, tries, cloudVars, configured, deployFailed, deployed, late>>
      /\ pc' = next \/ pc' = "deferred"
  BY DEF Hook, Goto, ReturnError, Panic
<1>2. failed' \in BOOLEAN /\ err' \in BOOLEAN /\ panicking' \in BOOLEAN
  BY ResultType DEF Hook, Goto, IInv
<1>3. QED
  BY <1>1, <1>2, QuietKeeps DEF IInv, TypeOK

LEMMA FinishKeeps ==
  ASSUME IInv, Finish
  PROVE  IInv'
<1>1. /\ UNCHANGED <<opts, tries, cloudVars, configured, deployFailed, deployed, late>>
      /\ pc' = "deferred"
  BY DEF Finish, Goto, ReturnError
<1>2. failed' \in BOOLEAN /\ err' \in BOOLEAN /\ panicking' \in BOOLEAN
  BY ResultType DEF Finish, Goto, IInv
<1>3. QED
  BY <1>1, <1>2, QuietKeeps DEF IInv, TypeOK

LEMMA DeployKeeps ==
  ASSUME IInv, Deploy
  PROVE  IInv'
<1>1. /\ pc = "deploy"
      /\ UNCHANGED <<opts, tries, configured, late>>
      /\ UNCHANGED <<catalogs, held, current, project>>
      /\ infra' \in {"none", "some"}
      /\ pc' = "postdeploy" \/ pc' = "deferred"
  BY DEF Deploy, DeployEnds, Goto, Panic
<1>2. failed' \in BOOLEAN /\ err' \in BOOLEAN /\ panicking' \in BOOLEAN
  BY ResultType DEF Deploy, Goto, IInv
<1>3. busy' \in BOOLEAN /\ deployed' \in BOOLEAN /\ deployFailed' \in BOOLEAN
  BY Zenon DEF IInv, TypeOK, Deploy, DeployEnds
<1>4. TypeOK'
  BY <1>1, <1>2, <1>3 DEF IInv, TypeOK, ResourcesTypeOK
<1>5. QED
  BY <1>1, <1>4 DEF IInv, Deleting, SettingUp, Cleared

LEMMA DeferredKeeps ==
  ASSUME IInv, Deferred
  PROVE  IInv'
<1>1. /\ UNCHANGED <<opts, tries, cloudVars, configured, deployFailed, deployed, late>>
      /\ pc' = "undeploy" \/ pc' = "end"
  BY DEF Deferred
<1>2. failed' \in BOOLEAN /\ err' \in BOOLEAN /\ panicking' \in BOOLEAN
  BY Zenon DEF IInv, TypeOK, ResourcesTypeOK, Deferred, testVars
<1>3. QED
  BY <1>1, <1>2, QuietKeeps DEF IInv, TypeOK

-----------------------------------------------------------------------------
(* The undeployment leaves a test that has not failed with nothing to keep *)
(* or with what it was asked to keep.                                      *)
LEMMA UndeployKeeps ==
  ASSUME IInv, Undeploy
  PROVE  IInv'
<1>1. pc = "undeploy" /\ UNCHANGED <<opts, tries, configured, deployFailed, deployed, late>>
  BY DEF Undeploy
<1>2. CASE /\ KeepsResources \/ ~configured
           /\ Goto("pipelines")
           /\ UNCHANGED cloudVars
  <2>1. TypeOK'
    BY <1>1, <1>2 DEF IInv, TypeOK, ResourcesTypeOK, cloudVars, Goto, testVars
  <2>2. failed \/ Cleared
    BY <1>2, Zenon DEF IInv, KeepsResources, Cleared
  <2>3. QED
    BY <1>1, <1>2, <2>1, <2>2
       DEF IInv, Deleting, SettingUp, Cleared, cloudVars, Goto, testVars
<1>3. ASSUME configured, NEW errors \in BOOLEAN,
             pc' = "pipelines",
             failed' = (failed \/ errors),
             UNCHANGED <<err, panicking>>,
             UndeployEnds(errors)
      PROVE  IInv'
  <2>1. /\ UNCHANGED <<catalogs, held, current, project>>
        /\ infra' \in {"none", "some", "left"}
        /\ errors \/ infra' # "some"
    BY <1>3 DEF UndeployEnds
  <2>2. failed' \in BOOLEAN /\ busy' \in BOOLEAN /\ (errors => failed')
    BY <1>3, Zenon DEF IInv, TypeOK, ResourcesTypeOK, UndeployEnds
  <2>3. TypeOK'
    BY <1>1, <1>3, <2>1, <2>2 DEF IInv, TypeOK, ResourcesTypeOK
  <2>4. QED
    BY <1>1, <1>3, <2>1, <2>2, <2>3 DEF IInv, Deleting, SettingUp, Cleared
<1>4. CASE /\ configured
           /\ pc' = "end" /\ panicking' = TRUE
           /\ UNCHANGED <<failed, err>>
           /\ UndeployEnds(TRUE)
  <2>1. /\ UNCHANGED <<catalogs, held, current, project>>
        /\ infra' \in {"none", "some", "left"}
    BY <1>4 DEF UndeployEnds
  <2>2. panicking' \in BOOLEAN /\ busy' \in BOOLEAN
    BY <1>4, Zenon DEF UndeployEnds
  <2>3. TypeOK'
    BY <1>1, <1>4, <2>1, <2>2 DEF IInv, TypeOK, ResourcesTypeOK
  <2>4. QED
    BY <1>1, <1>4, <2>3 DEF IInv, Deleting, SettingUp, Cleared
<1>5. QED
  BY <1>2, <1>3, <1>4 DEF Undeploy

(* Only a test that has not failed, and that finds the pipelines idle,     *)
(* comes to delete its project.                                            *)
LEMMA CheckPipelinesKeeps ==
  ASSUME IInv, CheckPipelines
  PROVE  IInv'
<1>1. /\ pc = "pipelines"
      /\ UNCHANGED <<opts, tries, cloudVars, configured, deployFailed, deployed, late>>
  BY DEF CheckPipelines
<1>2. CASE /\ UNCHANGED testVars
           /\ \/ pc' = "end"
              \/ DeletesProject /\ MayDelete /\ pc' = "delete"
              \/ DeletesProject /\ pc' = "sleep"
  <2>1. TypeOK'
    BY <1>1, <1>2 DEF IInv, TypeOK, ResourcesTypeOK, cloudVars, testVars
  <2>2. QED
    BY <1>1, <1>2, <2>1
       DEF IInv, Deleting, SettingUp, Cleared, cloudVars, testVars,
           DeletesProject, MayDelete
<1>3. CASE pc' = "end" /\ failed' = TRUE /\ UNCHANGED <<err, panicking>>
  <2>1. failed' \in BOOLEAN
    BY <1>3, Zenon
  <2>2. TypeOK'
    BY <1>1, <1>3, <2>1 DEF IInv, TypeOK, ResourcesTypeOK, cloudVars
  <2>3. QED
    BY <1>1, <1>3, <2>2 DEF IInv, Deleting, SettingUp, Cleared, cloudVars
<1>4. QED
  BY <1>2, <1>3, Zenon DEF CheckPipelines, Goto

LEMMA SleepKeeps ==
  ASSUME IInv, Sleep
  PROVE  IInv'
<1>1. /\ pc = "sleep" /\ pc' = "pipelines" /\ UNCHANGED testVars
      /\ UNCHANGED <<opts, tries, cloudVars, configured, deployFailed, deployed, late>>
  BY DEF Sleep, Goto
<1>2. TypeOK'
  BY <1>1 DEF IInv, TypeOK, ResourcesTypeOK, cloudVars, testVars
<1>3. QED
  BY <1>1, <1>2 DEF IInv, Deleting, SettingUp, Cleared, cloudVars, testVars

(* The deletion is tried again as long as it neither succeeds nor is given *)
(* up, and the test has not failed as long.                                *)
LEMMA DeleteKeeps ==
  ASSUME IInv, Delete
  PROVE  IInv'
<1>1. /\ pc = "delete"
      /\ UNCHANGED <<opts, catalogs, held, current, infra, busy>>
      /\ UNCHANGED <<configured, deployFailed, deployed, late>>
  BY DEF Delete, DeleteProject
<1>2. project' \in BOOLEAN
  <2>1. ASSUME NEW reply, project' = (project /\ reply \notin {"ok", "lost"})
        PROVE  project' \in BOOLEAN
    BY <2>1, Zenon
  <2>2. QED
    BY <2>1, Zenon DEF IInv, TypeOK, ResourcesTypeOK, Delete, DeleteProject
<1>3. CASE tries' = 0 /\ Goto("end")
  <2>1. tries' \in 0 .. Attempts - 1
    BY <1>3, AttemptsAssumption
  <2>2. TypeOK'
    BY <1>1, <1>2, <1>3, <2>1 DEF IInv, TypeOK, ResourcesTypeOK, Goto, testVars
  <2>3. QED
    BY <1>1, <1>3, <2>2 DEF IInv, Deleting, SettingUp, Cleared, Goto
<1>4. ASSUME NEW reply, Retried(reply)
      PROVE  IInv'
  <2>1. tries' \in 0 .. Attempts - 1 /\ UNCHANGED <<pc, testVars>>
    BY <1>4, AttemptsAssumption
       DEF IInv, TypeOK, ResourcesTypeOK, Retried, AttemptLeft
  <2>2. TypeOK'
    BY <1>1, <1>2, <2>1 DEF IInv, TypeOK, ResourcesTypeOK, testVars
  <2>3. QED
    BY <1>1, <2>1, <2>2 DEF IInv, Deleting, SettingUp, Cleared, testVars
<1>5. ASSUME NEW reply, GivesUp(reply), pc' = "end", DeletionFails,
             UNCHANGED <<err, panicking>>
      PROVE  IInv'
  <2>1. tries' \in 0 .. Attempts - 1
    BY <1>5, AttemptsAssumption DEF GivesUp
  <2>2. failed' \in BOOLEAN
    BY <1>5, Zenon DEF DeletionFails
  <2>3. TypeOK'
    BY <1>1, <1>2, <1>5, <2>1, <2>2 DEF IInv, TypeOK, ResourcesTypeOK
  <2>4. QED
    BY <1>1, <1>5, <2>3 DEF IInv, Deleting, SettingUp, Cleared
<1>6. QED
  BY <1>3, <1>4, <1>5, Zenon DEF Delete, DeleteProject

(* Time passes, a pipeline action ends, nothing happens.                   *)
LEMMA OtherKeeps ==
  ASSUME IInv, Deadline \/ ServiceMoves \/ UNCHANGED projectsVars
  PROVE  IInv'
<1>1. CASE Deadline
  <2>1. late' \in BOOLEAN /\ UNCHANGED vars
    BY <1>1, Zenon DEF Deadline
  <2>2. TypeOK'
    BY <1>1, <2>1
       DEF IInv, Deadline, TypeOK, ResourcesTypeOK, vars, testVars, cloudVars
  <2>3. QED
    BY <1>1, <2>1, <2>2
       DEF IInv, Deadline, Deleting, SettingUp, Cleared, vars, testVars, cloudVars
<1>2. CASE ServiceMoves
  <2>1. busy' = FALSE /\ busy' \in BOOLEAN
    BY <1>2, Zenon DEF ServiceMoves, PipelineEnds
  <2>2. TypeOK'
    BY <1>2, <2>1
       DEF IInv, ServiceMoves, PipelineEnds, TypeOK, ResourcesTypeOK, testVars
  <2>3. QED
    BY <1>2, <2>1, <2>2
       DEF IInv, ServiceMoves, PipelineEnds, Deleting, SettingUp, Cleared, testVars
<1>3. CASE UNCHANGED projectsVars
  BY <1>3 DEF IInv, projectsVars, vars, testVars, cloudVars, TypeOK,
              ResourcesTypeOK, Deleting, SettingUp, Cleared
<1>4. QED
  BY <1>1, <1>2, <1>3

LEMMA Step == IInv /\ [Next]_projectsVars => IInv'
<1> SUFFICES ASSUME IInv, [Next]_projectsVars PROVE IInv'
  OBVIOUS
<1>1. CASE TestSetup
  BY <1>1, SetupKeeps
<1>2. CASE SetupResources
  BY <1>2, CatalogKeeps, OfferingKeeps, ProjectKeeps DEF SetupResources
<1>3. CASE ConfigureTestStack
  BY <1>3, StackKeeps
<1>4. CASE PreDeployHook \/ PostDeployHook
  BY <1>4, HookKeeps DEF PreDeployHook, PostDeployHook, IInv
<1>5. CASE Deploy
  BY <1>5, DeployKeeps
<1>6. CASE Finish
  BY <1>6, FinishKeeps
<1>7. CASE Deferred
  BY <1>7, DeferredKeeps
<1>8. CASE Undeploy
  BY <1>8, UndeployKeeps
<1>9. CASE CheckPipelines
  BY <1>9, CheckPipelinesKeeps
<1>10. CASE Sleep
  BY <1>10, SleepKeeps
<1>11. CASE Delete
  BY <1>11, DeleteKeeps
<1>12. CASE Deadline \/ ServiceMoves \/ UNCHANGED projectsVars
  BY <1>12, OtherKeeps
<1>13. QED
  BY <1>1, <1>2, <1>3, <1>4, <1>5, <1>6, <1>7, <1>8, <1>9, <1>10, <1>11, <1>12
     DEF Next, Test, Terminated

LEMMA Invariance == Spec => []IInv
<1>1. QED
  BY InitIInv, Step, PTL DEF Spec

(* A project that exists stops existing only where the test deletes it.    *)
LEMMA OnlyDeleteDeletes ==
  ASSUME [Next]_projectsVars, project, ~project'
  PROVE  Delete
<1>1. ~UNCHANGED project
  OBVIOUS
<1>2. ~UNCHANGED cloudVars /\ ~UNCHANGED vars /\ ~UNCHANGED projectsVars
  BY <1>1 DEF cloudVars, vars, projectsVars
<1>3. ~SetupResources
  <2>1. ~SetupCatalog
    BY <1>1 DEF SetupCatalog
  <2>2. ~SetupOffering
    BY <1>2 DEF SetupOffering
  <2>3. ~UNCHANGED <<project, current>>
    BY <1>1
  <2>4. ~SetupProject("stack")
    BY <1>1, <2>3, Zenon DEF SetupProject
  <2>5. QED
    BY <2>1, <2>2, <2>4 DEF SetupResources
<1>4. ~TestSetup /\ ~ConfigureTestStack /\ ~PreDeployHook /\ ~PostDeployHook
  BY <1>2 DEF TestSetup, ConfigureTestStack, PreDeployHook, PostDeployHook, Hook
<1>5. ~Deploy
  BY <1>1 DEF Deploy, DeployEnds
<1>6. ~Finish /\ ~Deferred /\ ~CheckPipelines /\ ~Sleep
  BY <1>2 DEF Finish, Deferred, CheckPipelines, Sleep
<1>7. ~Undeploy
  BY <1>1, <1>2 DEF Undeploy, UndeployEnds
<1>8. ~Deadline
  BY <1>2 DEF Deadline
<1>9. ~ServiceMoves
  BY <1>1 DEF ServiceMoves, PipelineEnds
<1>10. QED
  BY <1>2, <1>3, <1>4, <1>5, <1>6, <1>7, <1>8, <1>9 DEF Next, Test, Terminated

-----------------------------------------------------------------------------
(* RunProjectsTest stays within its types, for every number of attempts of *)
(* RetryWithConfig: the attempts are counted and bounded, and so are the   *)
(* catalogs that lost answers leave behind.                                *)
THEOREM TypeCorrect == Spec => []TypeOK
<1>1. IInv => TypeOK
  BY DEF IInv
<1>2. QED
  BY <1>1, Invariance, PTL

(* TestTearDown deletes a project only when nothing of it is deployed, or  *)
(* its undeployment has ended without an error (resources may be left then *)
(* of a stack that was read as awaiting a member's deployment), or         *)
(* SkipUndeploy asked to keep them, although the test decides to undeploy, *)
(* to wait and to delete at different times.                               *)
THEOREM DeletedOnlyUndeployed == Spec => DeletesOnlyUndeployed
<1>1. IInv /\ [Next]_projectsVars
        => [project /\ ~project' => infra \in {"none", "left"} \/ opts.skipUndeploy]_vars
  <2> SUFFICES ASSUME IInv, [Next]_projectsVars, project, ~project'
               PROVE  infra \in {"none", "left"} \/ opts.skipUndeploy
    OBVIOUS
  <2>1. pc = "delete"
    BY OnlyDeleteDeletes DEF Delete
  <2>2. QED
    BY <2>1 DEF IInv, Deleting, Cleared
<1>2. QED
  BY <1>1, Invariance, PTL DEF Spec, DeletesOnlyUndeployed

(* TestTearDown keeps the project of a test that has failed, in its body,  *)
(* in a hook, or in the clean-up itself.                                   *)
THEOREM FailedKeepsProject == Spec => FailedTestKeepsProject
<1>1. IInv /\ [Next]_projectsVars => [project /\ ~project' => ~failed]_vars
  <2> SUFFICES ASSUME IInv, [Next]_projectsVars, project, ~project'
               PROVE  ~failed
    OBVIOUS
  <2>1. pc = "delete"
    BY OnlyDeleteDeletes DEF Delete
  <2>2. QED
    BY <2>1 DEF IInv, Deleting
<1>2. QED
  BY <1>1, Invariance, PTL DEF Spec, FailedTestKeepsProject

(* TestTearDown deletes a project only while none of its pipeline actions  *)
(* runs, although the loop that waits for them also ends at its deadline.  *)
THEOREM WaitsForPipelines == Spec => DeleteWaitsForPipelines
<1>1. IInv /\ [Next]_projectsVars => [project /\ ~project' => ~busy]_projectsVars
  <2> SUFFICES ASSUME IInv, [Next]_projectsVars, project, ~project'
               PROVE  ~busy
    OBVIOUS
  <2>1. pc = "delete"
    BY OnlyDeleteDeletes DEF Delete
  <2>2. QED
    BY <2>1 DEF IInv, Deleting
<1>2. QED
  BY <1>1, Invariance, PTL DEF Spec, DeleteWaitsForPipelines

-----------------------------------------------------------------------------
(* What a test that passes has done, for which another invariant is needed *)
(* and the types are not.                                                  *)
CleaningUp == pc \in {"undeploy", "pipelines", "sleep", "delete", "end"}

Places == SettingUp \/ CleaningUp
          \/ pc \in {"predeploy", "deploy", "postdeploy", "finish", "deferred"}

Troubled == failed \/ err \/ panicking

(* The project of a test that has not failed is known to it, if only       *)
(* without its ID, and is gone once the test has decided about it.         *)
ProjectKnown ==
  /\ pc \in {"setup", "catalog", "offering"} => ~project
  /\ project /\ current = "nil" => failed \/ pc = "project"
  /\ pc = "end" => failed \/ panicking \/ ~project \/ opts.skipDelete \/ opts.skipTearDown

(* Without an error, a panic or a failure there was a deployment.          *)
DeployCounted ==
  /\ pc \in {"postdeploy", "finish"} => deployed \/ deployFailed
  /\ pc = "deferred" \/ CleaningUp => deployed \/ Troubled

PassInv == Places /\ ProjectKnown /\ DeployCounted

LEMMA InitPassInv == Init => PassInv
BY DEF Init, NothingMade, PassInv, Places, SettingUp, CleaningUp, ProjectKnown, DeployCounted

(* A step before the clean-up goes on, or ends in the deferred function    *)
(* with an error, a failure or a panic.                                    *)
LEMMA BodyPasses ==
  ASSUME PassInv, UNCHANGED <<opts, project, current>>, failed => failed',
         \/ pc = "setup" /\ pc' = "catalog"
         \/ pc = "catalog" /\ pc' \in {"catalog", "offering"}
         \/ pc = "offering" /\ pc' \in {"offering", "project"}
         \/ pc = "stack" /\ pc' = "predeploy"
         \/ pc = "predeploy" /\ pc' = "deploy"
         \/ pc = "deploy" /\ pc' = "postdeploy" /\ (deployed' \/ deployFailed')
         \/ pc = "postdeploy" /\ pc' = "finish" /\ UNCHANGED <<deployed, deployFailed>>
         \/ pc = "finish" /\ pc' = "deferred" /\ UNCHANGED deployed /\ ~deployFailed
         \/ pc' = "deferred" /\ pc # "project" /\ (err' \/ failed' \/ panicking')
  PROVE  PassInv'
BY DEF PassInv, Places, SettingUp, CleaningUp, ProjectKnown, DeployCounted, Troubled

LEMMA TestStays == UNCHANGED testVars => failed' = failed /\ err' = err /\ panicking' = panicking
BY DEF testVars

LEMMA CloudStays == UNCHANGED cloudVars => current' = current /\ project' = project
BY DEF cloudVars

LEMMA StepEnds ==
  /\ \A place : Goto(place) => pc' = place /\ failed' = failed
  /\ \A fail \in BOOLEAN : ReturnError(fail) => pc' = "deferred" /\ err' /\ (failed => failed')
  /\ Panic => pc' = "deferred" /\ panicking' /\ failed' = failed
BY TestStays DEF Goto, ReturnError, Panic

LEMMA AttemptResult ==
  ASSUME NEW reply, NEW next, Attempt(reply, next)
  PROVE  /\ failed => failed'
         /\ \/ pc' = next /\ reply = "ok"
            \/ pc' = pc /\ reply # "ok"
            \/ pc' = "deferred" /\ err' /\ failed'
<1>1. CASE reply = "ok" /\ Goto(next)
  BY <1>1, StepEnds
<1>2. CASE Retried(reply)
  BY <1>2, TestStays DEF Retried
<1>3. CASE GivesUp(reply) /\ ReturnError(TRUE)
  BY <1>3 DEF GivesUp, ReturnError
<1>4. QED
  BY <1>1, <1>2, <1>3 DEF Attempt

LEMMA SetupPasses ==
  PassInv /\ (TestSetup \/ SetupCatalog \/ SetupOffering) => PassInv'
<1> SUFFICES ASSUME PassInv, TestSetup \/ SetupCatalog \/ SetupOffering PROVE PassInv'
  OBVIOUS
<1>1. /\ pc \in {"setup", "catalog", "offering"}
      /\ UNCHANGED <<opts, project, current>>
  BY CloudStays DEF TestSetup, SetupCatalog, SetupOffering
<1>2. PICK next : /\ \/ pc = "setup" /\ next = "catalog"
                     \/ pc = "catalog" /\ next = "offering"
                     \/ pc = "offering" /\ next = "project"
                  /\ \/ Goto(next)
                     \/ \E fail \in BOOLEAN : ReturnError(fail)
                     \/ pc # "setup" /\ \E reply : Attempt(reply, next)
                     \/ Panic
  BY DEF TestSetup, SetupCatalog, SetupOffering
<1>3. /\ failed => failed'
      /\ \/ pc' = next
         \/ pc' = pc /\ pc # "setup"
         \/ pc' = "deferred" /\ (err' \/ panicking')
  BY <1>2, StepEnds, AttemptResult
<1>4. QED
  BY <1>1, <1>2, <1>3, BodyPasses

LEMMA ProjectPasses == PassInv /\ SetupProject("stack") => PassInv'
<1> SUFFICES ASSUME PassInv, SetupProject("stack") PROVE PassInv'
  OBVIOUS
<1>1. pc = "project" /\ UNCHANGED opts
  BY DEF SetupProject
<1>2. PICK reply : Attempt(reply, "stack")
  BY Zenon DEF SetupProject
<1>3. /\ failed => failed'
      /\ pc' = "stack" \/ pc' = "project" \/ (pc' = "deferred" /\ err' /\ failed')
  BY <1>1, <1>2, AttemptResult
<1>4. pc' = "stack" => current' # "nil"
  <2>1. SUFFICES ASSUME pc' = "stack" PROVE current' # "nil"
    OBVIOUS
  <2>2. ASSUME NEW r, Attempt(r, "stack") PROVE r = "ok"
    BY <1>1, <2>1, <2>2, AttemptResult
  <2>3. CASE \E r \in Replies : Attempt(r, "stack") /\ current' = IF r = "ok" THEN "id" ELSE current
    BY <2>2, <2>3
  <2>4. CASE current' = "noid"
    BY <2>4
  <2>5. CASE \E r \in Replies \ {"ok", "lost"} : Attempt(r, "stack")
    BY <2>2, <2>5
  <2>6. QED
    BY <2>3, <2>4, <2>5, Zenon DEF SetupProject
<1>5. QED
  BY <1>1, <1>3, <1>4
     DEF PassInv, Places, SettingUp, CleaningUp, ProjectKnown, DeployCounted, Troubled

LEMMA BodyStepsPass ==
  PassInv /\ (ConfigureTestStack \/ PreDeployHook \/ PostDeployHook \/ Finish) => PassInv'
<1> SUFFICES ASSUME PassInv,
                    ConfigureTestStack \/ PreDeployHook \/ PostDeployHook \/ Finish
             PROVE  PassInv'
  OBVIOUS
<1>1. /\ UNCHANGED <<opts, project, current>> /\ UNCHANGED <<deployed, deployFailed>>
      /\ pc \in {"stack", "predeploy", "postdeploy", "finish"}
  BY CloudStays DEF ConfigureTestStack, PreDeployHook, PostDeployHook, Hook, Finish
<1>2. \/ pc = "stack" /\ Goto("predeploy")
      \/ pc = "stack" /\ pc' = "deferred" /\ failed' = TRUE
      \/ pc = "predeploy" /\ Goto("deploy")
      \/ pc = "postdeploy" /\ Goto("finish")
      \/ pc = "finish" /\ Goto("deferred") /\ ~deployFailed
      \/ \E fail \in BOOLEAN : ReturnError(fail)
      \/ Panic
  BY DEF ConfigureTestStack, PreDeployHook, PostDeployHook, Hook, Finish
<1>3. QED
  BY <1>1, <1>2, StepEnds, BodyPasses

LEMMA DeployPasses == PassInv /\ Deploy => PassInv'
<1> SUFFICES ASSUME PassInv, Deploy PROVE PassInv'
  OBVIOUS
<1>1. pc = "deploy" /\ UNCHANGED <<opts, project, current>>
  BY DEF Deploy, DeployEnds
<1>2. ASSUME NEW errors \in BOOLEAN, Goto("postdeploy"),
             deployFailed' = errors, deployed' = ~errors
      PROVE  PassInv'
  <2>1. deployed' \/ deployFailed'
    BY <1>2
  <2>2. QED
    BY <1>1, <1>2, <2>1, StepEnds, BodyPasses
<1>3. CASE Panic
  BY <1>1, <1>3, StepEnds, BodyPasses
<1>4. QED
  BY <1>2, <1>3, Zenon DEF Deploy

LEMMA DeferredPasses == PassInv /\ Deferred => PassInv'
<1> SUFFICES ASSUME PassInv, Deferred PROVE PassInv'
  OBVIOUS
<1>1. pc = "deferred" /\ UNCHANGED <<opts, project, current, deployed>>
  BY CloudStays DEF Deferred
<1>2. \/ opts.skipTearDown /\ pc' = "end" /\ UNCHANGED testVars
      \/ /\ failed \/ panicking => failed'
         /\ err' = err
         /\ (pc' = "end" /\ current = "nil") \/ pc' = "undeploy"
  BY DEF Deferred
<1>3. QED
  BY <1>1, <1>2, TestStays
     DEF PassInv, Places, SettingUp, CleaningUp, ProjectKnown, DeployCounted, Troubled

(* A step of the clean-up that leaves the project alone.                   *)
LEMMA CleanUpPasses ==
  PassInv /\ (Undeploy \/ CheckPipelines \/ Sleep) => PassInv'
<1> SUFFICES ASSUME PassInv, Undeploy \/ CheckPipelines \/ Sleep PROVE PassInv'
  OBVIOUS
<1>1. /\ UNCHANGED <<opts, project, current, deployed>>
      /\ pc \in {"undeploy", "pipelines", "sleep"}
  BY CloudStays DEF Undeploy, UndeployEnds, CheckPipelines, Sleep
<1>2. /\ failed => failed'
      /\ err' = err
      /\ panicking => panicking'
      /\ \/ pc' \in {"pipelines", "sleep", "delete"}
         \/ pc' = "end" /\ (failed' \/ panicking' \/ ~DeletesProject)
  <2>1. CASE Undeploy
    <3>1. \/ Goto("pipelines")
          \/ \E errors \in BOOLEAN : /\ pc' = "pipelines" /\ failed' = (failed \/ errors)
                                     /\ UNCHANGED <<err, panicking>>
          \/ pc' = "end" /\ panicking' = TRUE /\ UNCHANGED <<failed, err>>
      BY <2>1, Zenon DEF Undeploy
    <3>2. CASE Goto("pipelines")
      BY <3>2, TestStays DEF Goto
    <3>3. ASSUME NEW errors \in BOOLEAN, pc' = "pipelines",
                 failed' = (failed \/ errors), UNCHANGED <<err, panicking>>
          PROVE  <1>2!1 /\ <1>2!2 /\ <1>2!3 /\ <1>2!4
      <4>1. failed => failed'
        BY <3>3, Zenon
      <4>2. QED
        BY <3>3, <4>1
    <3>4. CASE pc' = "end" /\ panicking' = TRUE /\ UNCHANGED <<failed, err>>
      BY <3>4
    <3>5. QED
      BY <3>1, <3>2, <3>3, <3>4, Zenon
  <2>2. CASE CheckPipelines
    BY <2>2, TestStays DEF CheckPipelines, Goto
  <2>3. CASE Sleep
    BY <2>3, TestStays DEF Sleep, Goto
  <2>4. QED
    BY <2>1, <2>2, <2>3
<1>3. QED
  BY <1>1, <1>2
     DEF PassInv, Places, SettingUp, CleaningUp, ProjectKnown, DeployCounted, Troubled,
         DeletesProject

LEMMA DeletePasses == PassInv /\ Delete => PassInv'
<1> SUFFICES ASSUME PassInv, Delete PROVE PassInv'
  OBVIOUS
<1>1. pc = "delete" /\ UNCHANGED <<opts, current, deployed>>
  BY DEF Delete, DeleteProject
<1>2. /\ err' = err
      /\ panicking' = panicking
      /\ failed => failed'
      /\ project' => project
      /\ pc' = "delete" \/ (pc' = "end" /\ (~project' \/ failed'))
  <2>1. ASSUME NEW reply, project' = (project /\ reply \notin {"ok", "lost"}),
               reply = "ok", Goto("end")
        PROVE  <1>2!1 /\ <1>2!2 /\ <1>2!3 /\ <1>2!4 /\ <1>2!5
    <3>1. ~project'
      BY <2>1
    <3>2. pc' = "end" /\ failed' = failed /\ err' = err /\ panicking' = panicking
      BY <2>1, TestStays DEF Goto
    <3>3. QED
      BY <3>1, <3>2
  <2>2. ASSUME NEW reply, project' = (project /\ reply \notin {"ok", "lost"}), Retried(reply)
        PROVE  <1>2!1 /\ <1>2!2 /\ <1>2!3 /\ <1>2!4 /\ <1>2!5
    <3>1. project' => project
      BY <2>2
    <3>2. pc' = pc /\ failed' = failed /\ err' = err /\ panicking' = panicking
      BY <2>2, TestStays DEF Retried
    <3>3. QED
      BY <1>1, <3>1, <3>2
  <2>3. ASSUME NEW reply, project' = (project /\ reply \notin {"ok", "lost"}),
               pc' = "end", DeletionFails, UNCHANGED <<err, panicking>>
        PROVE  <1>2!1 /\ <1>2!2 /\ <1>2!3 /\ <1>2!4 /\ <1>2!5
    BY <2>3 DEF DeletionFails
  <2>4. QED
    BY <2>1, <2>2, <2>3, Zenon DEF Delete, DeleteProject
<1>3. QED
  BY <1>1, <1>2
     DEF PassInv, Places, SettingUp, CleaningUp, ProjectKnown, DeployCounted, Troubled

LEMMA OtherPasses == PassInv /\ (Deadline \/ ServiceMoves \/ UNCHANGED projectsVars) => PassInv'
<1> SUFFICES ASSUME PassInv, Deadline \/ ServiceMoves \/ UNCHANGED projectsVars PROVE PassInv'
  OBVIOUS
<1>1. /\ UNCHANGED <<opts, pc, failed, err, panicking, current, project>>
      /\ UNCHANGED <<deployed, deployFailed>>
  BY DEF Deadline, ServiceMoves, PipelineEnds, projectsVars, vars, testVars, cloudVars
<1>2. QED
  BY <1>1
     DEF PassInv, Places, SettingUp, CleaningUp, ProjectKnown, DeployCounted, Troubled

LEMMA AlwaysPassInv == Spec => []PassInv
<1>1. PassInv /\ [Next]_projectsVars => PassInv'
  BY SetupPasses, ProjectPasses, BodyStepsPass, DeployPasses, DeferredPasses, CleanUpPasses,
     DeletePasses, OtherPasses DEF Next, Test, SetupResources, Terminated
<1>2. QED
  BY <1>1, InitPassInv, PTL DEF Spec

(* A stack test that passes has deployed its stack: of all the early       *)
(* returns of RunProjectsTest none leaves it green.                        *)
THEOREM PassHasDeployed == Spec => []PassMeansDeployed
<1>1. PassInv => PassMeansDeployed
  BY DEF PassInv, DeployCounted, CleaningUp, Troubled, PassMeansDeployed
<1>2. QED
  BY <1>1, AlwaysPassInv, PTL

(* A stack test that passes leaves no project, although its creation and   *)
(* its deletion are tried again after answers that were lost.              *)
THEOREM NoProjectLeft == Spec => []GreenLeavesNoProject
<1>1. PassInv => GreenLeavesNoProject
  BY DEF PassInv, ProjectKnown, GreenLeavesNoProject
<1>2. QED
  BY <1>1, AlwaysPassInv, PTL
=============================================================================
