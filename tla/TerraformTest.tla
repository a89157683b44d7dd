--------------------------- MODULE TerraformTest ---------------------------
(***************************************************************************)
(* A test that runs Terraform by itself: RunTest, RunTestPlan,             *)
(* RunTestConsistency and RunTestUpgrade of testhelper/tests.go, and the   *)
(* tear-down they share.  Nothing here is deferred but the removal of the  *)
(* directories: each way out has its own call of the tear-down, and a      *)
(* panic or a FailNow of a hook takes none of them.                        *)
(***************************************************************************)
Kinds == {"apply", "plan", "consistency", "upgrade"}

\* The options that are looked at.  A plan has no use for the others, and only an upgrade
\* for checkApply, CheckApplyResultForUpgrade.
TestOptions == [kind : Kinds,
                modified : BOOLEAN,          \* ModifiedTerraformVars
                checkApply : BOOLEAN,
                implicitRequired : BOOLEAN,  \* ImplicitDestroy with ImplicitRequired
                doNotDestroy : BOOLEAN,      \* DO_NOT_DESTROY_ON_FAILURE
                skipTearDown : BOOLEAN]

NoDir == "none"

VARIABLES test,        \* the options
          place,       \* the place in the code
          dir,         \* TerraformOptions.TerraformDir
          marked,      \* Testing.Failed()
          returned,    \* an error is returned
          deployed,    \* whether anything is deployed
          stateIn,     \* the directories that hold the state of what is deployed
          undone,      \* history: an apply that the test asks for did not succeed
          consistent   \* history: the last plan had nothing to change

terraformVars == <<test, place, dir, marked, returned, deployed, stateIn, undone,
                   consistent>>

TerraformInit ==
    /\ test \in {o \in TestOptions : /\ o.checkApply => o.kind = "upgrade"
                                     /\ o.modified => o.kind \in {"apply", "consistency"}}
    /\ place = "setup"
    /\ dir = NoDir
    /\ marked = FALSE /\ returned = FALSE
    /\ deployed = FALSE /\ stateIn = {}
    /\ undone = FALSE /\ consistent = FALSE

GoOn(next) == place' = next /\ UNCHANGED <<marked, returned>>

\* An error that is returned; with fails, an assertion has failed the test before.
GiveUp(next, fails) ==
    /\ place' = next
    /\ returned' = TRUE
    /\ marked' = (marked \/ fails)

\* FailNow, or a panic: what is deferred runs, and nothing else.
Aborts == place' = "return" /\ marked' = TRUE /\ UNCHANGED returned

Upgrades == test.kind = "upgrade"

\* testSetup, and for an upgrade the two directories, the branches and the clone of the base.
\* An upgrade may be skipped, and tears nothing down before it has begun to apply.
SetUp ==
    /\ place = "setup"
    /\ \/ GoOn(IF test.kind = "plan" THEN "plan" ELSE "preapply")
          /\ dir' = IF Upgrades THEN "base" ELSE "test"
       \/ ~Upgrades /\ Aborts /\ dir' = dir
       \/ Upgrades /\ (GiveUp("return", FALSE) \/ GoOn("skipped")) /\ dir' = dir
    /\ UNCHANGED <<test, deployed, stateIn, undone, consistent>>

\* A hook of the user.  Its error fails an upgrade test at once; the others return it, and
\* their tear-down does not know of it.
Hook(next) ==
    /\ GoOn(next) \/ GiveUp("teardown", Upgrades) \/ Aborts
    /\ UNCHANGED <<test, dir, deployed, stateIn, undone, consistent>>

PreApplyHook == place = "preapply" /\ Hook("apply")

\* The state is written where Terraform runs, as soon as anything exists.
Deploys ==
    /\ deployed' = TRUE
    /\ stateIn' = {dir}

\* An apply that fails may have deployed something.
DeploysInPart == Deploys \/ UNCHANGED <<deployed, stateIn>>

InitAndApply ==
    /\ place = "apply"
    /\ \/ GoOn(IF test.modified THEN "modify" ELSE "postapply") /\ Deploys /\ undone' = undone
       \/ GiveUp("teardown", TRUE) /\ DeploysInPart /\ undone' = TRUE
    /\ UNCHANGED <<test, dir, consistent>>

\* The error of the second apply is another variable: it fails the test, and is not returned.
FailureForgotten == UNCHANGED <<marked, returned>>
MarksTheFailure == marked' = TRUE /\ UNCHANGED returned

ModifiedApply ==
    /\ place = "modify"
    /\ place' = "postapply"
    /\ \/ UNCHANGED <<marked, returned, undone>>
       \/ MarksTheFailure /\ undone' = TRUE
    /\ Deploys
    /\ UNCHANGED <<test, dir, consistent>>

PostApplyHook ==
    /\ place = "postapply"
    /\ Hook(CASE test.kind = "apply" -> "teardown"
              [] test.kind = "consistency" -> "plan"
              [] test.kind = "upgrade" -> "move")

\* CleanTerraformDir, and then the state of the base branch is copied to the other directory,
\* where the test goes on even if the copy fails.
CleansAfterCopying(d) == stateIn' = stateIn
CopiesState(d) == stateIn' = stateIn \cup {d}

MoveState ==
    /\ place = "move"
    /\ dir' = "pr"
    /\ \/ GoOn("plan") /\ CopiesState("pr")
       \/ GiveUp("teardown", FALSE) /\ stateIn' = stateIn \ {"pr"}
    /\ UNCHANGED <<test, deployed, undone, consistent>>

\* runTestPlan: no file for the plan is an error that fails nothing but an upgrade.
Plan ==
    /\ place = "plan"
    /\ \/ GoOn(IF test.kind = "plan" THEN "teardown" ELSE "check") /\ consistent' \in BOOLEAN
       \/ GiveUp("teardown", Upgrades) /\ consistent' = FALSE
       \/ GiveUp("teardown", TRUE) /\ consistent' = FALSE
    /\ UNCHANGED <<test, dir, deployed, stateIn, undone>>

\* CheckConsistency fails the test for a change that it is not told to ignore.  For every
\* resource that is not ignored the plan is then made once more, to print it, and fails the
\* test with FailNow.
CheckConsistency ==
    /\ place = "check"
    /\ \/ /\ marked' = (marked \/ ~consistent)
          /\ place' = IF test.checkApply /\ ~marked' THEN "upgradeapply" ELSE "teardown"
          /\ UNCHANGED returned
       \/ Aborts
    /\ UNCHANGED <<test, dir, deployed, stateIn, undone, consistent>>

UpgradeApply ==
    /\ place = "upgradeapply"
    /\ \/ GoOn("teardown") /\ Deploys /\ undone' = undone
       \/ GiveUp("teardown", TRUE) /\ DeploysInPart /\ undone' = TRUE
    /\ UNCHANGED <<test, dir, consistent>>
-----------------------------------------------------------------------------
\* testTearDown.  Whether the test has failed is looked at once, before anything is done.
KeepsResources == marked /\ test.doNotDestroy

TearDown ==
    /\ place = "teardown"
    /\ GoOn(IF test.skipTearDown \/ KeepsResources THEN "return" ELSE "predestroy")
    /\ UNCHANGED <<test, dir, deployed, stateIn, undone, consistent>>

\* ImplicitDestroy: a resource that is not in the state fails the test where it is required,
\* and the destroy goes on.  CBR rules, and the hook, whose error is only logged.
PreDestroyHook ==
    /\ place = "predestroy"
    /\ \/ Aborts
       \/ /\ \/ marked' = marked
             \/ test.implicitRequired /\ marked' = TRUE
          /\ place' = "destroy"
          /\ UNCHANGED returned
    /\ UNCHANGED <<test, dir, deployed, stateIn, undone, consistent>>

\* Terraform destroys what is in the state it finds: where there is none it has nothing to
\* do, and succeeds.
Destroy ==
    /\ place = "destroy"
    /\ place' = "clean"
    /\ \/ /\ deployed' = (deployed /\ dir \notin stateIn)
          /\ UNCHANGED marked
       \/ /\ deployed' = deployed
          /\ marked' = TRUE
    /\ UNCHANGED <<test, dir, returned, stateIn, undone, consistent>>

\* The workspace is deleted, or FailNow; the hook after it; CleanTerraformDir, which removes
\* the state whether or not the destroy has succeeded.
CleanUp ==
    /\ place = "clean"
    /\ \/ GoOn("return") /\ stateIn' = stateIn \ {dir}
       \/ Aborts /\ stateIn' = stateIn
    /\ UNCHANGED <<test, dir, deployed, undone, consistent>>

\* What an upgrade test defers: its directories are removed unless the tear-down is skipped.
Return ==
    /\ place = "return"
    /\ place' = "ended"
    /\ stateIn' = IF Upgrades /\ ~test.skipTearDown THEN {} ELSE stateIn
    /\ UNCHANGED <<test, dir, marked, returned, deployed, undone, consistent>>

TerraformNext ==
    \/ SetUp
    \/ PreApplyHook \/ InitAndApply \/ ModifiedApply \/ PostApplyHook
    \/ MoveState \/ Plan \/ CheckConsistency \/ UpgradeApply
    \/ TearDown \/ PreDestroyHook \/ Destroy \/ CleanUp
    \/ Return

TerraformSpec == TerraformInit /\ [][TerraformNext]_terraformVars
-----------------------------------------------------------------------------
\* A test that has neither failed nor returned an error.
Passes == place = "ended" /\ ~marked /\ ~returned

\* A test that passes has applied all that it was asked to, the second apply whose error is
\* not returned included, has found nothing to change, and has destroyed what it made.
TerraformPassIsGenuine ==
    Passes => /\ ~undone
              /\ test.kind \in {"consistency", "upgrade"} => consistent
              /\ ~test.skipTearDown => ~deployed

\* Until it destroys what it has deployed, and where it was told to keep that, a test works in
\* the directory that holds the state: an upgrade which has changed its directory included,
\* but for one that returns an error, which may be that the state could not be copied.
StateIsAtHand ==
    /\ deployed
    /\ place \in {"clean", "return", "ended"} => test.skipTearDown
    /\ ~(Upgrades /\ returned)
    => dir \in stateIn
=============================================================================
