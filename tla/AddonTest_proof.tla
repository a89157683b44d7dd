-------------------------- MODULE AddonTest_proof --------------------------
(***************************************************************************)
(* Proofs about AddonTest, for every number of attempts and every set of   *)
(* replies: what a test that passes has done and left, when its project    *)
(* may be deleted, and that a shared catalog never is.                     *)
(***************************************************************************)
EXTENDS AddonTest, TLAPS

Places == {"setup", "catalog", "offering", "project", "add", "validate", "predeploy",
           "deploy", "postdeploy", "deferred", "preundeploy", "undeploy", "postundeploy",
           "project_teardown", "delete", "delete_catalog", "end"}

(* The clean-up, its end included, of a test that has one.                 *)
CleaningUp ==
  /\ pc \in {"preundeploy", "undeploy", "postundeploy", "project_teardown", "delete",
             "delete_catalog", "end"}
  /\ ~opts.skipTearDown

CleanedUp == pc = "end" /\ ~torn /\ ~opts.skipTearDown

(* Nothing is deployed, or the undeployment has ended without an error, or *)
(* the resources were asked to be kept.                                    *)
Cleared == infra \in {"none", "left"} \/ opts.skipUndeploy

Deployed == deployed \/ opts.skipInfra

(* The project of a test that has not failed is known to the test, and is  *)
(* gone once the test has decided about it.                                *)
ProjectOK ==
  /\ pc \in {"setup", "catalog", "offering"} => ~project
  /\ project /\ current = "nil" => failed \/ pc = "project"
  /\ pc = "delete_catalog" \/ CleanedUp => failed \/ ~project \/ opts.skipDelete

(* What the test waits for before it deletes the project.                  *)
UndeployOK ==
  /\ opts.skipInfra => infra = "none"
  /\ pc = "postundeploy" => failed
  /\ pc = "project_teardown" => failed \/ Cleared
  /\ pc = "delete" => ~failed /\ Cleared

(* Without an error, a panic or a failure there was a deployment.          *)
DeployOK ==
  /\ pc = "postdeploy" => Deployed
  /\ pc = "deferred" => err \/ panicking \/ Deployed
  /\ CleaningUp => failed \/ err \/ Deployed

IInv ==
  /\ pc \in Places
  /\ ProjectOK /\ UndeployOK /\ DeployOK
  /\ PassLeavesNoOwnCatalog

-----------------------------------------------------------------------------
LEMMA InitIInv == Init => IInv
<1> SUFFICES ASSUME Init PROVE IInv
  OBVIOUS
<1>1. pc = "setup" /\ ~project /\ infra = "none"
  BY DEF Init, NothingMade
<1>2. QED
  BY <1>1 DEF IInv, Places, ProjectOK, UndeployOK, DeployOK, CleaningUp, CleanedUp, Cleared,
              PassLeavesNoOwnCatalog

(* A step before the clean-up that leaves the project and its resources    *)
(* alone and goes on, returns an error or panics.                          *)
LEMMA BodyKeeps ==
  ASSUME IInv, UNCHANGED <<opts, project, current>>, UNCHANGED infra,
         pc \in {"setup", "catalog", "offering", "add", "validate", "predeploy", "postdeploy"},
         \/ pc' = "deferred" /\ (err' \/ panicking' \/ (pc = "postdeploy" /\ UNCHANGED deployed))
         \/ pc' \in Places /\ pc' = pc
         \/ pc = "setup" /\ pc' = "catalog"
         \/ pc = "catalog" /\ pc' = "offering"
         \/ pc = "offering" /\ pc' = "project"
         \/ pc = "add" /\ pc' = "validate"
         \/ pc = "validate" /\ pc' = "predeploy"
         \/ pc = "predeploy" /\ pc' = "deploy",
         UNCHANGED deployed, failed => failed'
  PROVE  IInv'
BY DEF IInv, Places, ProjectOK, UndeployOK, DeployOK, CleaningUp, CleanedUp, Cleared, Deployed,
       PassLeavesNoOwnCatalog

LEMMA TestSetupKeeps == IInv /\ TestSetup => IInv'
<1> SUFFICES ASSUME IInv, TestSetup PROVE IInv'
  OBVIOUS
<1>1. /\ pc = "setup" /\ UNCHANGED <<opts, project, current>> /\ UNCHANGED infra
      /\ UNCHANGED deployed /\ UNCHANGED catalogs
      /\ \/ pc' = "catalog" /\ failed' = failed
         \/ pc' = "deferred" /\ err' /\ (failed => failed')
  BY DEF TestSetup, Goto, ReturnError, cloudVars, testVars
<1>2. QED
  BY <1>1, BodyKeeps DEF IInv

LEMMA TestStays == UNCHANGED testVars => failed' = failed /\ err' = err /\ panicking' = panicking
BY DEF testVars

LEMMA CloudStays ==
  UNCHANGED cloudVars =>
    /\ catalogs' = catalogs /\ held' = held /\ current' = current
    /\ project' = project /\ infra' = infra
BY DEF cloudVars

(* How a step of the test's body ends.                                     *)
LEMMA StepEnds ==
  /\ \A fail \in BOOLEAN : ReturnError(fail) => pc' = "deferred" /\ err' /\ (failed => failed')
  /\ Panic => pc' = "deferred" /\ panicking' /\ failed' = failed
BY DEF ReturnError, Panic

(* What an attempt leaves: it ends the step, is tried again, or fails.     *)
LEMMA AttemptEnds ==
  ASSUME NEW reply, NEW next, Attempt(reply, next)
  PROVE  /\ failed => failed'
         /\ \/ pc' = next /\ reply = "ok"
            \/ pc' = pc /\ reply # "ok"
            \/ pc' = "deferred" /\ err' /\ failed'
<1>1. CASE reply = "ok" /\ Goto(next)
  BY <1>1, TestStays DEF Goto
<1>2. CASE Retried(reply)
  BY <1>2, TestStays DEF Retried
<1>3. CASE GivesUp(reply) /\ ReturnError(TRUE)
  BY <1>3 DEF GivesUp, ReturnError
<1>4. QED
  BY <1>1, <1>2, <1>3 DEF Attempt

LEMMA CatalogKeeps == IInv /\ SetupCatalog /\ UNCHANGED <<deployed, torn>> => IInv'
<1> SUFFICES ASSUME IInv, SetupCatalog, UNCHANGED <<deployed, torn>> PROVE IInv'
  OBVIOUS
<1>1. pc = "catalog" /\ UNCHANGED <<opts, project, current>> /\ UNCHANGED infra
  BY DEF SetupCatalog
<1>2. CASE Goto("offering")
  <2>1. pc' = "offering" /\ failed' = failed
    BY <1>2 DEF Goto, testVars
  <2>2. QED
    BY <1>1, <2>1, BodyKeeps DEF IInv
<1>3. ASSUME NEW reply \in Replies, Attempt(reply, "offering")
      PROVE  IInv'
  <2>1. /\ failed => failed'
        /\ pc' = "offering" \/ pc' = pc \/ (pc' = "deferred" /\ err')
    BY <1>3, AttemptEnds
  <2>2. QED
    BY <1>1, <2>1, BodyKeeps DEF IInv
<1>4. QED
  BY <1>2, <1>3 DEF SetupCatalog

LEMMA OfferingKeeps ==
  IInv /\ (UseSharedOffering \/ SetupOffering) /\ UNCHANGED <<deployed, torn>> => IInv'
<1> SUFFICES ASSUME IInv, UseSharedOffering \/ SetupOffering, UNCHANGED <<deployed, torn>>
             PROVE  IInv'
  OBVIOUS
<1>1. /\ pc = "offering" /\ UNCHANGED <<opts, project, current>> /\ UNCHANGED infra
      /\ UNCHANGED catalogs
  BY DEF UseSharedOffering, SetupOffering, cloudVars
<1>2. CASE Goto("project")
  <2>1. pc' = "project" /\ failed' = failed
    BY <1>2 DEF Goto, testVars
  <2>2. QED
    BY <1>1, <2>1, BodyKeeps DEF IInv
<1>3. ASSUME NEW reply \in Replies, Attempt(reply, "project") PROVE IInv'
  <2>1. /\ failed => failed'
        /\ pc' = "project" \/ pc' = pc \/ (pc' = "deferred" /\ err')
    BY <1>3, AttemptEnds
  <2>2. QED
    BY <1>1, <2>1, BodyKeeps DEF IInv
<1>4. CASE Panic
  <2>1. pc' = "deferred" /\ panicking' /\ failed' = failed
    BY <1>4 DEF Panic
  <2>2. QED
    BY <1>1, <2>1, BodyKeeps DEF IInv
<1>5. QED
  BY <1>2, <1>3, <1>4 DEF UseSharedOffering, SetupOffering

(* A project that the service has made for a test that does not fail is    *)
(* known to the test, if only without its ID.                              *)
LEMMA ProjectKeeps == IInv /\ SetupProject("add") /\ UNCHANGED <<deployed, torn>> => IInv'
<1> SUFFICES ASSUME IInv, SetupProject("add"), UNCHANGED <<deployed, torn>> PROVE IInv'
  OBVIOUS
<1>1. pc = "project" /\ UNCHANGED <<opts, catalogs, infra>>
  BY DEF SetupProject
<1>2. PICK reply : Attempt(reply, "add")
  BY Zenon DEF SetupProject
<1>3. /\ failed => failed'
      /\ \/ pc' = "add"
         \/ pc' = "project"
         \/ pc' = "deferred" /\ err' /\ failed'
  BY <1>1, <1>2, AttemptEnds
<1>4. pc' = "add" => current' # "nil"
  <2>1. SUFFICES ASSUME pc' = "add" PROVE current' # "nil"
    OBVIOUS
  <2>2. ASSUME NEW r, Attempt(r, "add") PROVE r = "ok"
    BY <1>1, <2>1, <2>2, AttemptEnds
  <2>3. CASE \E r \in Replies : Attempt(r, "add") /\ current' = IF r = "ok" THEN "id" ELSE current
    BY <2>2, <2>3
  <2>4. CASE current' = "noid"
    BY <2>4
  <2>5. CASE \E r \in Replies \ {"ok", "lost"} : Attempt(r, "add")
    BY <2>2, <2>5
  <2>6. QED
    BY <2>3, <2>4, <2>5, Zenon DEF SetupProject
<1>5. QED
  BY <1>1, <1>3, <1>4
     DEF IInv, Places, ProjectOK, UndeployOK, DeployOK, CleaningUp, CleanedUp, Cleared,
         Deployed, PassLeavesNoOwnCatalog

LEMMA QuietKeeps ==
  IInv /\ (AddToProject \/ Validate \/ PreDeployHook \/ PostDeployHook) => IInv'
<1> SUFFICES ASSUME IInv, AddToProject \/ Validate \/ PreDeployHook \/ PostDeployHook
             PROVE  IInv'
  OBVIOUS
<1>1. /\ UNCHANGED <<opts, project, current>> /\ UNCHANGED infra
      /\ UNCHANGED deployed /\ UNCHANGED catalogs
      /\ failed => failed'
      /\ \/ pc' = "deferred" /\ (err' \/ panicking')
            /\ pc \in {"add", "validate", "predeploy", "postdeploy"}
         \/ pc = "add" /\ pc' = "validate"
         \/ pc = "validate" /\ pc' = "predeploy"
         \/ pc = "predeploy" /\ pc' = "deploy"
         \/ pc = "postdeploy" /\ pc' = "deferred"
  <2>1. /\ UNCHANGED <<opts, tries, cloudVars, deployed, torn>>
        /\ pc \in {"add", "validate", "predeploy", "postdeploy"}
        /\ \/ Panic
           \/ \E fail \in BOOLEAN : ReturnError(fail)
           \/ pc = "add" /\ Goto("validate")
           \/ pc = "validate" /\ Goto("predeploy")
           \/ pc = "predeploy" /\ Goto("deploy")
           \/ pc = "postdeploy" /\ Goto("deferred")
    BY DEF AddToProject, Validate, PreDeployHook, PostDeployHook, Hook
  <2>2. UNCHANGED <<opts, project, current>> /\ UNCHANGED infra
        /\ UNCHANGED deployed /\ UNCHANGED catalogs
    BY <2>1, CloudStays
  <2>3. \A place : Goto(place) => pc' = place /\ failed' = failed
    BY TestStays DEF Goto
  <2>4. QED
    BY <2>1, <2>2, <2>3, StepEnds
<1>2. QED
  BY <1>1, BodyKeeps DEF IInv

LEMMA DeployKeeps == IInv /\ Deploy => IInv'
<1> SUFFICES ASSUME IInv, Deploy PROVE IInv'
  OBVIOUS
<1>1. pc = "deploy" /\ opts' = opts
  BY DEF Deploy
<1>2. /\ UNCHANGED <<project, current, catalogs>>
      /\ failed => failed'
      /\ opts.skipInfra => infra' = infra
      /\ \/ pc' = "postdeploy" /\ (opts.skipInfra \/ deployed')
         \/ pc' = "deferred" /\ (err' \/ panicking')
  <2>1. \A place : Goto(place) => pc' = place /\ failed' = failed
    BY TestStays DEF Goto
  <2>2. CASE opts.skipInfra /\ Goto("postdeploy") /\ UNCHANGED <<cloudVars, deployed>>
    BY <2>1, <2>2, CloudStays
  <2>3. CASE ~opts.skipInfra /\ Goto("postdeploy") /\ deployed' = TRUE /\ DeployEnds(FALSE)
    BY <2>1, <2>3 DEF DeployEnds
  <2>4. CASE ~opts.skipInfra /\ (ReturnError(TRUE) \/ Panic) /\ DeployEnds(TRUE)
    <3>1. UNCHANGED <<project, current, catalogs>>
      BY <2>4 DEF DeployEnds
    <3>2. /\ failed => failed'
          /\ pc' = "deferred" /\ (err' \/ panicking')
      <4>1. CASE ReturnError(TRUE)
        BY <4>1 DEF ReturnError
      <4>2. CASE Panic
        BY <4>2 DEF Panic
      <4>3. QED
        BY <2>4, <4>1, <4>2, Zenon
    <3>3. QED
      BY <2>4, <3>1, <3>2
  <2>5. QED
    BY <2>2, <2>3, <2>4, Zenon DEF Deploy
<1>3. QED
  BY <1>1, <1>2
     DEF IInv, Places, ProjectOK, UndeployOK, DeployOK, CleaningUp, CleanedUp, Cleared,
         Deployed, PassLeavesNoOwnCatalog

-----------------------------------------------------------------------------
LEMMA DeferredKeeps == IInv /\ Deferred => IInv'
<1> SUFFICES ASSUME IInv, Deferred PROVE IInv'
  OBVIOUS
<1>1. /\ pc = "deferred" /\ err' = err
      /\ UNCHANGED <<opts, catalogs, held, current, project, infra, deployed, torn>>
      /\ \/ opts.skipTearDown /\ pc' = "end" /\ failed' = failed
         \/ /\ ~opts.skipTearDown /\ failed' = (failed \/ panicking)
            /\ \/ pc' = "project_teardown" /\ (opts.skipUndeploy \/ failed)
               \/ pc' = "preundeploy"
  BY DEF Deferred, PanicFails, KeepsResources, cloudVars
<1>2. QED
  BY <1>1
     DEF IInv, Places, ProjectOK, UndeployOK, DeployOK, CleaningUp, CleanedUp, Cleared,
         Deployed, PassLeavesNoOwnCatalog

(* How a step of the clean-up ends.                                        *)
LEMMA ContinueEnds ==
  \A place : \A fail \in BOOLEAN :
    Continue(place, fail) =>
      /\ pc' = place
      /\ (failed \/ fail) => failed'
      /\ err' = err /\ torn' = torn
BY DEF Continue

LEMMA PanicEnds == TearDownPanics => pc' = "end" /\ torn' /\ failed' = failed /\ err' = err
BY TestStays DEF TearDownPanics

(* A hook of the clean-up, which goes on, fails or panics.                 *)
LEMMA HooksKeep == IInv /\ (PreUndeployHook \/ PostUndeployHook) => IInv'
<1> SUFFICES ASSUME IInv, PreUndeployHook \/ PostUndeployHook PROVE IInv'
  OBVIOUS
<1>1. /\ UNCHANGED <<opts, catalogs, held, current, project, infra, deployed>>
      /\ failed => failed'
      /\ err' = err
      /\ pc \in {"preundeploy", "postundeploy"}
      /\ \/ pc = "preundeploy" /\ pc' = "undeploy"
         \/ pc = "postundeploy" /\ pc' = "project_teardown"
         \/ pc' = "end" /\ torn'
  <2>1. /\ UNCHANGED <<opts, tries, cloudVars, deployed>>
        /\ \/ pc = "preundeploy" /\ \E fail \in BOOLEAN : Continue("undeploy", fail)
           \/ pc = "postundeploy" /\ \E fail \in BOOLEAN : Continue("project_teardown", fail)
           \/ pc \in {"preundeploy", "postundeploy"} /\ TearDownPanics
    BY DEF PreUndeployHook, PostUndeployHook
  <2>2. UNCHANGED <<opts, catalogs, held, current, project, infra, deployed>>
    BY <2>1, CloudStays
  <2>3. QED
    BY <2>1, <2>2, ContinueEnds, PanicEnds
<1>2. QED
  BY <1>1
     DEF IInv, Places, ProjectOK, UndeployOK, DeployOK, CleaningUp, CleanedUp, Cleared,
         Deployed, PassLeavesNoOwnCatalog

(* The undeployment leaves nothing, an error, or a test that had failed.   *)
LEMMA UndeployKeeps == IInv /\ Undeploy => IInv'
<1> SUFFICES ASSUME IInv, Undeploy PROVE IInv'
  OBVIOUS
<1>1. pc = "undeploy" /\ opts' = opts /\ deployed' = deployed
  BY DEF Undeploy
<1>2. /\ UNCHANGED <<catalogs, held, current, project>>
      /\ failed => failed'
      /\ err' = err
      /\ opts.skipInfra => infra' = infra
      /\ \/ pc' = "project_teardown" /\ (failed' \/ infra' \in {"none", "left"} \/ opts.skipInfra)
         \/ pc' = "postundeploy" /\ failed'
         \/ pc' = "end" /\ torn'
  <2>1. CASE opts.skipInfra /\ Continue("project_teardown", FALSE) /\ UNCHANGED cloudVars
    BY <2>1 DEF Continue, cloudVars
  <2>2. CASE ~opts.skipInfra /\ TearDownPanics /\ (UNCHANGED cloudVars \/ UndeployEnds(TRUE))
    BY <2>2 DEF TearDownPanics, UndeployEnds, cloudVars, testVars
  <2>3. ASSUME NEW fail \in BOOLEAN, ~opts.skipInfra,
               Continue(IF fail THEN "postundeploy" ELSE "project_teardown", fail),
               UNCHANGED <<catalogs, held, current, project>>,
               failed \/ fail \/ infra' \in {"none", "left"}
        PROVE  <1>2!1 /\ <1>2!2 /\ <1>2!3 /\ <1>2!4 /\ <1>2!5
    BY <2>3 DEF Continue
  <2>4. ASSUME NEW fail \in BOOLEAN, UndeployEnds(fail)
        PROVE  UNCHANGED <<catalogs, held, current, project>> /\ (fail \/ infra' \in {"none", "left"})
    BY <2>4 DEF UndeployEnds
  <2>5. QED
    BY <2>1, <2>2, <2>3, <2>4 DEF Undeploy, TriggersOnly
<1>3. QED
  BY <1>1, <1>2
     DEF IInv, Places, ProjectOK, UndeployOK, DeployOK, CleaningUp, CleanedUp, Cleared,
         Deployed, PassLeavesNoOwnCatalog

LEMMA DecideKeeps ==
  ASSUME IInv, pc = "project_teardown",
         Continue(IF DeletesProject THEN "delete" ELSE "delete_catalog", FALSE),
         UNCHANGED <<opts, tries, cloudVars>>, UNCHANGED deployed
  PROVE  IInv'
<1>1. /\ UNCHANGED <<opts, catalogs, held, current, project, infra, deployed, torn, err>>
      /\ failed <=> failed'
      /\ \/ pc' = "delete" /\ ~failed
         \/ pc' = "delete_catalog" /\ (opts.skipDelete \/ failed \/ current = "nil")
  <2>1. UNCHANGED <<opts, catalogs, held, current, project, infra, deployed>>
    BY CloudStays
  <2>2. UNCHANGED <<torn, err>> /\ (failed <=> failed')
    BY DEF Continue
  <2>3. pc' = IF DeletesProject THEN "delete" ELSE "delete_catalog"
    BY DEF Continue
  <2>4. QED
    BY <2>1, <2>2, <2>3 DEF DeletesProject
<1>2. QED
  BY <1>1
     DEF IInv, Places, ProjectOK, UndeployOK, DeployOK, CleaningUp, CleanedUp, Cleared,
         Deployed, PassLeavesNoOwnCatalog

(* The deletion ends without a project, is tried again, or fails the test. *)
LEMMA DeleteKeeps ==
  ASSUME IInv, pc = "delete", DeleteProject("delete_catalog"), UNCHANGED torn,
         UNCHANGED deployed
  PROVE  IInv'
<1>1. UNCHANGED <<opts, catalogs, held, current, infra, deployed, torn>>
  BY DEF DeleteProject
<1>2. /\ err' = err
      /\ failed => failed'
      /\ project' => project
      /\ \/ pc' = "delete" /\ failed' = failed
         \/ pc' = "delete_catalog" /\ (~project' \/ failed')
  <2>1. ASSUME NEW reply \in Replies, project' = (project /\ reply \notin {"ok", "lost"}),
               reply = "ok", Goto("delete_catalog")
        PROVE  <1>2!1 /\ <1>2!2 /\ <1>2!3 /\ <1>2!4
    BY <2>1 DEF Goto, testVars
  <2>2. ASSUME NEW reply \in Replies, project' = (project /\ reply \notin {"ok", "lost"}),
               Retried(reply)
        PROVE  <1>2!1 /\ <1>2!2 /\ <1>2!3 /\ <1>2!4
    BY <2>2 DEF Retried, testVars
  <2>3. ASSUME NEW reply \in Replies, project' = (project /\ reply \notin {"ok", "lost"}),
               pc' = "delete_catalog", DeletionFails, UNCHANGED <<err, panicking>>
        PROVE  <1>2!1 /\ <1>2!2 /\ <1>2!3 /\ <1>2!4
    BY <2>3 DEF DeletionFails
  <2>4. QED
    BY <2>1, <2>2, <2>3, Zenon DEF DeleteProject
<1>3. QED
  BY <1>1, <1>2
     DEF IInv, Places, ProjectOK, UndeployOK, DeployOK, CleaningUp, CleanedUp, Cleared,
         Deployed, PassLeavesNoOwnCatalog

LEMMA DeleteCatalogKeeps == IInv /\ DeleteCatalog => IInv'
<1> SUFFICES ASSUME IInv, DeleteCatalog PROVE IInv'
  OBVIOUS
<1>1. /\ pc = "delete_catalog" /\ pc' = "end"
      /\ UNCHANGED <<opts, current, project, infra, deployed, torn, err>>
      /\ failed => failed'
      /\ failed' \/ ~held' \/ opts.shared
  <2>1. /\ pc = "delete_catalog"
        /\ UNCHANGED <<opts, tries, current, project, infra, busy, deployed>>
    BY DEF DeleteCatalog
  <2>2. CASE ~OwnCatalog /\ Continue("end", FALSE) /\ UNCHANGED <<catalogs, held>>
    <3>1. pc' = "end" /\ (failed => failed') /\ UNCHANGED <<torn, err>>
      BY <2>2, ContinueEnds
    <3>2. QED
      BY <2>1, <2>2, <3>1 DEF OwnCatalog
  <2>3. ASSUME NEW reply \in Replies, OwnCatalog, Continue("end", reply # "ok"),
               held' = (reply \notin {"ok", "lost"})
        PROVE  <1>1
    <3>1. /\ pc' = "end" /\ (failed \/ reply # "ok" => failed')
          /\ UNCHANGED <<torn, err>>
      BY <2>3 DEF Continue
    <3>2. reply = "ok" => ~held'
      BY <2>3
    <3>3. QED
      BY <2>1, <2>3, <3>1, <3>2 DEF OwnCatalog
  <2>4. QED
    BY <2>2, <2>3 DEF DeleteCatalog
<1>2. QED
  BY <1>1
     DEF IInv, Places, ProjectOK, UndeployOK, DeployOK, CleaningUp, CleanedUp, Cleared,
         Deployed, PassLeavesNoOwnCatalog

(* A pipeline action ends, or nothing happens.                             *)
LEMMA OtherKeeps == IInv /\ (ServiceMoves \/ UNCHANGED addonVars) => IInv'
<1> SUFFICES ASSUME IInv, ServiceMoves \/ UNCHANGED addonVars PROVE IInv'
  OBVIOUS
<1>1. UNCHANGED <<opts, pc, failed, err, panicking, catalogs, held, current, project, infra,
                  deployed, torn>>
  BY DEF ServiceMoves, PipelineEnds, addonVars, vars, testVars, cloudVars
<1>2. QED
  BY <1>1
     DEF IInv, Places, ProjectOK, UndeployOK, DeployOK, CleaningUp, CleanedUp, Cleared,
         Deployed, PassLeavesNoOwnCatalog

LEMMA NextIInv == IInv /\ [Next]_addonVars => IInv'
<1> SUFFICES ASSUME IInv, [Next]_addonVars PROVE IInv'
  OBVIOUS
<1>1. CASE SetupResources
  BY <1>1, CatalogKeeps, OfferingKeeps, ProjectKeeps DEF SetupResources
<1>2. CASE ProjectTearDown
  BY <1>2, DecideKeeps, DeleteKeeps DEF ProjectTearDown
<1>3. QED
  BY <1>1, <1>2, TestSetupKeeps, QuietKeeps, DeployKeeps, DeferredKeeps, HooksKeep,
     UndeployKeeps, DeleteCatalogKeeps, OtherKeeps DEF Next, Test, Terminated

(* The strengthened invariant holds throughout runAddonTest and its two    *)
(* deferred functions, whatever fails or panics in between.                *)
THEOREM AlwaysIInv == Spec => []IInv
BY InitIInv, NextIInv, PTL DEF Spec

-----------------------------------------------------------------------------
(* A test that passes and returns no error has deployed its addon, unless  *)
(* it was told not to, whatever panicked meanwhile.                        *)
THEOREM PassHasDeployed == Spec => []PassMeansDeployed
<1>1. IInv => PassMeansDeployed
  BY DEF IInv, DeployOK, CleaningUp, Deployed, PassMeansDeployed
<1>2. QED
  BY <1>1, AlwaysIInv, PTL

(* A test that passes leaves no project, although its creation and its     *)
(* deletion are tried again after answers that were lost.                  *)
THEOREM NoProjectLeft == Spec => []PassLeavesNoProject
<1>1. IInv => PassLeavesNoProject
  BY DEF IInv, ProjectOK, CleanedUp, PassLeavesNoProject, GreenLeavesNoProject
<1>2. QED
  BY <1>1, AlwaysIInv, PTL

(* A test that passes holds no catalog of its own at its end.              *)
THEOREM NoOwnCatalogLeft == Spec => []PassLeavesNoOwnCatalog
<1>1. IInv => PassLeavesNoOwnCatalog
  BY DEF IInv
<1>2. QED
  BY <1>1, AlwaysIInv, PTL

(* A project that exists stops existing only where the test deletes it.    *)
LEMMA OnlyDeleteDeletes ==
  ASSUME [Next]_addonVars, project, ~project'
  PROVE  pc = "delete"
<1>1. ~UNCHANGED project
  OBVIOUS
<1>2. ~UNCHANGED cloudVars /\ ~UNCHANGED addonVars
  BY <1>1 DEF cloudVars, vars, addonVars
<1>3. ~SetupResources
  <2>1. ~SetupCatalog
    BY <1>1 DEF SetupCatalog
  <2>2. ~SetupOffering /\ ~UseSharedOffering
    BY <1>2 DEF SetupOffering, UseSharedOffering
  <2>3. ~UNCHANGED <<project, current>>
    BY <1>1
  <2>4. ~SetupProject("add")
    BY <1>1, <2>3, Zenon DEF SetupProject
  <2>5. QED
    BY <2>1, <2>2, <2>4 DEF SetupResources
<1>4. ~TestSetup /\ ~AddToProject /\ ~Validate /\ ~PreDeployHook /\ ~PostDeployHook
  BY <1>2 DEF TestSetup, AddToProject, Validate, PreDeployHook, PostDeployHook, Hook
<1>5. ~Deploy
  BY <1>1, <1>2 DEF Deploy, DeployEnds
<1>6. ~Deferred /\ ~PreUndeployHook /\ ~PostUndeployHook
  BY <1>2 DEF Deferred, PreUndeployHook, PostUndeployHook
<1>7. ~Undeploy
  BY <1>1, <1>2 DEF Undeploy, UndeployEnds
<1>8. ~DeleteCatalog /\ ~ServiceMoves
  BY <1>1 DEF DeleteCatalog, ServiceMoves, PipelineEnds
<1>9. ProjectTearDown
  BY <1>2, <1>3, <1>4, <1>5, <1>6, <1>7, <1>8 DEF Next, Test, Terminated
<1>10. QED
  BY <1>2, <1>9 DEF ProjectTearDown

(* The project is deleted only when nothing of it is deployed, or its      *)
(* undeployment has been waited for and has ended without an error         *)
(* (resources may be left then of a stack that was read as awaiting a      *)
(* member's deployment), or SkipUndeploy asked to keep them; a test that   *)
(* has failed does not wait for its undeployment, and keeps its project.   *)
THEOREM DeletedOnlyUndeployed == Spec => DeletesOnlyUndeployed
<1>1. IInv /\ [Next]_addonVars
        => [project /\ ~project' => infra \in {"none", "left"} \/ opts.skipUndeploy]_vars
  BY OnlyDeleteDeletes DEF IInv, UndeployOK, Cleared
<1>2. QED
  BY <1>1, AlwaysIInv, PTL DEF Spec, DeletesOnlyUndeployed

(* The project of a test that has failed is kept.                          *)
THEOREM FailedKeepsProject == Spec => FailedTestKeepsProject
<1>1. IInv /\ [Next]_addonVars => [project /\ ~project' => ~failed]_vars
  BY OnlyDeleteDeletes DEF IInv, UndeployOK
<1>2. QED
  BY <1>1, AlwaysIInv, PTL DEF Spec, FailedTestKeepsProject
=============================================================================
