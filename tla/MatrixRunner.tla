---------------------------- MODULE MatrixRunner ----------------------------
(***************************************************************************)
(* The parallel matrix runner of testaddons: runAddonTestMatrix in         *)
(* src/testaddons/tests.go.                                                *)
(*                                                                         *)
(* The parent test creates one parallel subtest per test case.  The first  *)
(* subtest to take sharedMutex creates a catalog and imports the offering  *)
(* for all of them; every subtest then runs one addon test and appends its *)
(* result to a report all of them share.  Two clean-up functions of the    *)
(* parent print the report and delete the shared catalog; the second one   *)
(* is registered by a goroutine nobody waits for.                          *)
(*                                                                         *)
(* A subtest is identified with its test case and a catalog with the       *)
(* subtest that created it.  The addon test itself (runAddonTest) is two   *)
(* steps here: what its set-up does to catalogs, and how it ends.  Delays  *)
(* order nothing, so a subtest starts at any time.  Go's testing package   *)
(* is external: it runs at most MaxParallel subtests, none before the      *)
(* parent's function returned, and the clean-ups, last registered first,   *)
(* once all the subtests are over.                                         *)
(***************************************************************************)
EXTENDS Integers, Sequences, FiniteSets

CONSTANTS
  Tests,           \* matrix.TestCases
  NoTest,          \* nil: no holder, no shared options, no catalog
  MaxParallel,     \* the -parallel flag of go test
  CreateReplies,   \* what CreateCatalog may return: "ok", "err", "incomplete"
  ImportReplies,   \* what checking the branch and importing it may return
  DeleteReplies,   \* what DeleteCatalog may return: "ok", "err"
  Abrupt,          \* how a user's function may end: "panic", "goexit"
  Outcomes,        \* how runAddonTest may end once it is set up
  UseExisting      \* the sets of subtests that may have CatalogUseExisting

(* "pass": nil, test not failed.  "failed": an error, Testing.Fail called. *)
(* "error": an error alone.  "failed_nil": Testing.Fail alone.             *)
AllOutcomes == {"pass", "failed", "error", "failed_nil"}

ASSUME NoTestAssumption == NoTest \notin Tests
ASSUME TestsAssumption == IsFiniteSet(Tests)
ASSUME MaxParallelAssumption == MaxParallel \in Nat \ {0}
ASSUME InputsAssumption ==
  /\ CreateReplies \subseteq {"ok", "err", "incomplete"}
  /\ ImportReplies \subseteq {"ok", "err"}
  /\ DeleteReplies \subseteq {"ok", "err"}
  /\ Abrupt \subseteq {"panic", "goexit"}
  /\ Outcomes \subseteq AllOutcomes
  /\ UseExisting \subseteq SUBSET Tests

VARIABLES
  collects,     \* options.CollectResults && PermutationTestReport != nil
  existing,     \* the subtests with CatalogUseExisting
  pc,           \* where each subtest is
  parent,       \* where the parent test is
  registrar,    \* the goroutine that registers the shared clean-up
  cleanups,     \* the parent's clean-up functions, a stack
  sharedMutex,  \* the subtest that holds sharedMutex
  shared,       \* the subtest whose options are sharedCatalogOptions
  catalog,      \* testOptions.catalog of each subtest
  offering,     \* whether testOptions.offering is set
  incomplete,   \* catalogs returned without an ID or a label
  cloud,        \* the catalogs that exist in the account
  failed,       \* the subtests that are marked as failed
  err,          \* whether a subtest's runAddonTest returned an error
  resultMutex,  \* the subtest that holds resultMutex
  report,       \* the shared PermutationTestReport
  snapshot,     \* the report as a subtest read it under resultMutex
  resultWg,     \* the counter of the WaitGroup
  printed,      \* the number of results in the printed report, per print
  parentFailed  \* the parent test is marked as failed

subtestVars == <<catalog, offering, incomplete, cloud, shared, sharedMutex>>
reportVars == <<resultMutex, report, snapshot>>
wgVars == <<collects, existing, resultWg>>
parentVars == <<parent, registrar, cleanups, printed, parentFailed>>
vars == <<pc, subtestVars, failed, err, reportVars, wgVars, parentVars>>

EmptyReport == [results |-> <<>>, passed |-> 0, failed |-> 0]

(* The places of a subtest, in the order of the code.                      *)
Section == {"section", "validate", "create", "import"}
Running == {"prepare", "lock"} \cup Section
             \cup {"setup", "run", "collect", "append", "exit"}
Places == {"none", "parallel", "ended"} \cup Running

-----------------------------------------------------------------------------
(* The state in which the parent enters its loop: the report's clean-up is *)
(* registered, nothing is shared yet.                                      *)
Init ==
  /\ collects \in BOOLEAN
  /\ existing \in UseExisting
  /\ pc = [t \in Tests |-> "none"]
  /\ parent = "loop"
  /\ registrar = "none"
  /\ cleanups = IF collects THEN <<"report">> ELSE <<>>
  /\ sharedMutex = NoTest
  /\ shared = NoTest
  /\ catalog = [t \in Tests |-> NoTest]
  /\ offering = [t \in Tests |-> FALSE]
  /\ incomplete = {}
  /\ cloud = {}
  /\ failed = {}
  /\ err = [t \in Tests |-> FALSE]
  /\ resultMutex = NoTest
  /\ report = EmptyReport
  /\ snapshot = [t \in Tests |-> EmptyReport]
  /\ resultWg = 0
  /\ printed = <<>>
  /\ parentFailed = FALSE

(* The catalog of sharedCatalogOptions.                                    *)
SharedCatalog == IF shared = NoTest THEN NoTest ELSE catalog[shared]

(* Each mutex has at most one holder.                                      *)
SharedFreeAlways == TRUE
SharedFree == sharedMutex = NoTest
ResultsFreeAlways == TRUE
ResultsFree == resultMutex = NoTest

(* sharedMutex.Unlock(), which every way out of the section calls itself.  *)
KeepShared == UNCHANGED sharedMutex
UnlockShared == sharedMutex' = NoTest

Goto(t, place) == pc' = [pc EXCEPT ![t] = place]

(* require.NoError ends the goroutine through FailNow; so do a panic and   *)
(* its recover: the test fails and only the deferred functions still run.  *)
FailNow(t) == failed' = failed \cup {t} /\ Goto(t, "exit")

-----------------------------------------------------------------------------
(* The parent's loop: one Add and one Run per test case.                   *)
CreateSubtest(t) ==
  /\ parent = "loop"
  /\ pc[t] = "none"
  /\ resultWg' = IF collects THEN resultWg + 1 ELSE resultWg
  /\ Goto(t, "parallel")
  /\ UNCHANGED <<collects, existing, subtestVars, failed, err, reportVars,
                 parentVars>>

(* The parent's function ends by starting the goroutine that registers the *)
(* clean-up of the shared catalog.                                         *)
ParentReturn ==
  /\ parent = "loop"
  /\ \A t \in Tests : pc[t] # "none"
  /\ parent' = "returned"
  /\ registrar' = "started"
  /\ UNCHANGED <<pc, subtestVars, failed, err, reportVars, wgVars,
                 cleanups, printed, parentFailed>>

RegisterSharedCleanup_DeletesAtOnce ==
  /\ registrar = "started"
  /\ registrar' = "registered"
  /\ cloud' = cloud \ {SharedCatalog}
  /\ UNCHANGED <<pc, catalog, offering, incomplete, shared, sharedMutex,
                 failed, err, reportVars, wgVars, parent, cleanups, printed,
                 parentFailed>>

RegisterSharedCleanup ==
  /\ registrar = "started"
  /\ registrar' = "registered"
  /\ cleanups' = Append(cleanups, "shared")
  /\ UNCHANGED <<pc, subtestVars, failed, err, reportVars, wgVars,
                 parent, printed, parentFailed>>

-----------------------------------------------------------------------------
(* t.Parallel returns and the stagger delay has passed.                    *)
Start(t) ==
  /\ parent = "returned"
  /\ pc[t] = "parallel"
  /\ Cardinality({u \in Tests : pc[u] \in Running}) < MaxParallel
  /\ Goto(t, "prepare")
  /\ UNCHANGED <<subtestVars, failed, err, reportVars, wgVars, parentVars>>

(* The copy of the options, the user's BaseSetupFunc and AddonConfigFunc,  *)
(* the cloud client (require.NoError), the merge of the inputs.            *)
Prepare(t) ==
  /\ pc[t] = "prepare"
  /\ \/ Goto(t, "lock") /\ UNCHANGED failed
     \/ Abrupt # {} /\ FailNow(t)
  /\ UNCHANGED <<subtestVars, err, reportVars, wgVars, parentVars>>

LockShared(t) ==
  /\ pc[t] = "lock"
  /\ SharedFree
  /\ sharedMutex' = t
  /\ Goto(t, "section")
  /\ UNCHANGED <<catalog, offering, incomplete, cloud, shared, failed, err,
                 reportVars, wgVars, parentVars>>

(* The first subtest publishes its own options before it has anything to   *)
(* share ...                                                               *)
BecomeCreator(t) ==
  /\ pc[t] = "section"
  /\ shared = NoTest
  /\ shared' = t
  /\ Goto(t, "validate")
  /\ UNCHANGED <<catalog, offering, incomplete, cloud, sharedMutex, failed,
                 err, reportVars, wgVars, parentVars>>

(* ... and the others take what those options hold by then, nil included.  *)
TakeShared(t) ==
  /\ pc[t] = "section"
  /\ shared # NoTest
  /\ catalog' = [catalog EXCEPT ![t] = catalog[shared]]
  /\ offering' = [offering EXCEPT ![t] = offering[shared]]
  /\ UnlockShared
  /\ Goto(t, "setup")
  /\ UNCHANGED <<incomplete, cloud, shared, failed, err, reportVars,
                 wgVars, parentVars>>

(* PrepareOfferingImport, before anything is created.                      *)
ValidateBranch(t) ==
  /\ pc[t] = "validate"
  /\ \/ /\ Goto(t, "create")
        /\ UNCHANGED <<sharedMutex, failed>>
     \/ /\ "err" \in ImportReplies
        /\ UnlockShared
        /\ FailNow(t)
  /\ UNCHANGED <<catalog, offering, incomplete, cloud, shared, err,
                 reportVars, wgVars, parentVars>>

(* With CatalogUseExisting nothing is created and nothing imported.        *)
UseExistingCatalog(t) ==
  /\ pc[t] = "create"
  /\ t \in existing
  /\ UnlockShared
  /\ Goto(t, "setup")
  /\ UNCHANGED <<catalog, offering, incomplete, cloud, shared, failed, err,
                 reportVars, wgVars, parentVars>>

(* CreateCatalog.  A catalog without an ID is only warned about; the       *)
(* import's arguments then dereference the nil ID, and the panic leaves    *)
(* the section with sharedMutex held.                                      *)
CreateShared(t) ==
  /\ pc[t] = "create"
  /\ t \notin existing
  /\ \/ /\ "ok" \in CreateReplies
        /\ catalog' = [catalog EXCEPT ![t] = t]
        /\ cloud' = cloud \cup {t}
        /\ Goto(t, "import")
        /\ UNCHANGED <<incomplete, sharedMutex, failed>>
     \/ /\ "incomplete" \in CreateReplies
        /\ catalog' = [catalog EXCEPT ![t] = t]
        /\ cloud' = cloud \cup {t}
        /\ incomplete' = incomplete \cup {t}
        /\ FailNow(t)
        /\ UNCHANGED sharedMutex
     \/ /\ "err" \in CreateReplies
        /\ UnlockShared
        /\ FailNow(t)
        /\ UNCHANGED <<catalog, cloud, incomplete>>
  /\ UNCHANGED <<offering, shared, err, reportVars, wgVars, parentVars>>

ImportShared(t) ==
  /\ pc[t] = "import"
  /\ UnlockShared
  /\ \/ /\ "ok" \in ImportReplies
        /\ offering' = [offering EXCEPT ![t] = TRUE]
        /\ Goto(t, "setup")
        /\ UNCHANGED failed
     \/ /\ "err" \in ImportReplies
        /\ FailNow(t)
        /\ UNCHANGED offering
  /\ UNCHANGED <<catalog, incomplete, cloud, shared, err, reportVars,
                 wgVars, parentVars>>

-----------------------------------------------------------------------------
(* runAddonTest returns e; its deferred functions have failed the test or  *)
(* not, and kept the catalog: SharedCatalog is true in a matrix.           *)
Return(t, e, fails) ==
  /\ err' = [err EXCEPT ![t] = e]
  /\ failed' = IF fails THEN failed \cup {t} ELSE failed
  /\ Goto(t, "collect")

(* A subtest without a catalog creates its own.                            *)
SetUpOwn(t) ==
  \/ /\ "err" \in CreateReplies
     /\ Return(t, TRUE, TRUE)
     /\ UNCHANGED <<catalog, offering, incomplete, cloud>>
  \/ /\ "incomplete" \in CreateReplies
     /\ catalog' = [catalog EXCEPT ![t] = t]
     /\ cloud' = cloud \cup {t}
     /\ incomplete' = incomplete \cup {t}
     /\ \E fails \in BOOLEAN : Return(t, FALSE, fails)
     /\ UNCHANGED offering
  \/ /\ "ok" \in CreateReplies
     /\ catalog' = [catalog EXCEPT ![t] = t]
     /\ cloud' = cloud \cup {t}
     /\ \/ /\ "ok" \in ImportReplies
           /\ offering' = [offering EXCEPT ![t] = TRUE]
           /\ Goto(t, "run")
           /\ UNCHANGED <<err, failed>>
        \/ /\ "err" \in ImportReplies
           /\ Return(t, TRUE, TRUE)
           /\ UNCHANGED offering
     /\ UNCHANGED incomplete

(* testSetup: a subtest without a catalog creates its own (SetupCatalog),  *)
(* one without an offering imports it (setupOffering), where an incomplete *)
(* catalog panics again; that panic is recovered inside runAddonTest, which *)
(* fails the test unless SkipTestTearDown is set.  With CatalogUseExisting *)
(* SetupCatalog returns nil, for a catalog that is shared too: the import  *)
(* panics then.                                                            *)
SetUp(t) ==
  /\ pc[t] = "setup"
  /\ \/ /\ "err" \in ImportReplies
        /\ Return(t, TRUE, TRUE)
        /\ UNCHANGED <<catalog, offering, incomplete, cloud>>
     \/ /\ t \in existing
        /\ catalog' = [catalog EXCEPT ![t] = NoTest]
        /\ \/ offering[t] /\ Goto(t, "run") /\ UNCHANGED <<err, failed>>
           \/ ~offering[t] /\ \E fails \in BOOLEAN : Return(t, FALSE, fails)
        /\ UNCHANGED <<offering, incomplete, cloud>>
     \/ t \notin existing /\ catalog[t] = NoTest /\ SetUpOwn(t)
     \/ /\ t \notin existing
        /\ catalog[t] # NoTest
        /\ offering[t] \/ "ok" \in ImportReplies
        /\ offering' = [offering EXCEPT ![t] = TRUE]
        /\ Goto(t, "run")
        /\ UNCHANGED <<catalog, incomplete, cloud, err, failed>>
  /\ UNCHANGED <<shared, sharedMutex, reportVars, wgVars, parentVars>>

(* The rest of runAddonTest.  A panic in it is recovered in it; a FailNow  *)
(* in a user's hook is not and ends the subtest.                           *)
RunTest(t) ==
  /\ pc[t] = "run"
  /\ \/ \E o \in Outcomes : Return(t, o \in {"failed", "error"},
                                      o \in {"failed", "failed_nil"})
     \/ "goexit" \in Abrupt /\ FailNow(t) /\ UNCHANGED err
  /\ UNCHANGED <<subtestVars, reportVars, wgVars, parentVars>>

-----------------------------------------------------------------------------
(* The shared report is read, extended and written back under resultMutex. *)
LockResults(t) ==
  /\ pc[t] = "collect"
  /\ collects
  /\ ResultsFree
  /\ resultMutex' = t
  /\ snapshot' = [snapshot EXCEPT ![t] = report]
  /\ Goto(t, "append")
  /\ UNCHANGED <<subtestVars, failed, err, report, wgVars, parentVars>>

(* Result collection is skipped, with a warning.                           *)
SkipResults(t) ==
  /\ pc[t] = "collect"
  /\ ~collects
  /\ Goto(t, "exit")
  /\ UNCHANGED <<subtestVars, failed, err, reportVars, wgVars, parentVars>>

(* collectTestResult: passed is testError == nil && !Testing.Failed().     *)
Passed(t) == ~err[t] /\ t \notin failed

Extended(r, t) == Append(r.results, [test |-> t, passed |-> Passed(t)])

CountedNet(r, t, passes) ==
  [results |-> Extended(r, t),
   passed |-> r.passed + (IF passes THEN 1 ELSE 0),
   failed |-> r.failed + (IF passes THEN -1 ELSE 1)]

Counted(r, t, passes) ==
  [results |-> Extended(r, t),
   passed |-> r.passed + (IF passes THEN 1 ELSE 0),
   failed |-> r.failed + (IF passes THEN 0 ELSE 1)]

WithResultCountedByError(r, t) == Counted(r, t, ~err[t])
WithResult(r, t) == Counted(r, t, Passed(t))

AppendResult(t) ==
  /\ pc[t] = "append"
  /\ report' = WithResult(snapshot[t], t)
  /\ resultMutex' = NoTest
  /\ snapshot' = [snapshot EXCEPT ![t] = EmptyReport]
  /\ Goto(t, "exit")
  /\ UNCHANGED <<subtestVars, failed, err, wgVars, parentVars>>

(* The deferred resultWg.Done(); the subtest is over.                      *)
Exit_DoneUnlessFailed(t) ==
  /\ pc[t] = "exit"
  /\ resultWg' = IF collects /\ t \notin failed THEN resultWg - 1 ELSE resultWg
  /\ Goto(t, "ended")
  /\ UNCHANGED <<collects, existing, subtestVars, failed, err, reportVars,
                 parentVars>>

Exit(t) ==
  /\ pc[t] = "exit"
  /\ resultWg' = IF collects THEN resultWg - 1 ELSE resultWg
  /\ Goto(t, "ended")
  /\ UNCHANGED <<collects, existing, subtestVars, failed, err, reportVars,
                 parentVars>>

-----------------------------------------------------------------------------
(* All the subtests are over: the parent runs its clean-ups.  A failed     *)
(* subtest has failed its parent.                                          *)
StartCleanups ==
  /\ parent = "returned"
  /\ \A t \in Tests : pc[t] = "ended"
  /\ parent' = "cleanup"
  /\ parentFailed' = (failed # {})
  /\ UNCHANGED <<pc, subtestVars, failed, err, reportVars, wgVars,
                 registrar, cleanups, printed>>

Top == cleanups[Len(cleanups)]
Pop == cleanups' = SubSeq(cleanups, 1, Len(cleanups) - 1)

(* The report's clean-up waits for resultWg or 30 seconds, whichever comes *)
(* first: it always goes on.                                               *)
Errorf_Never == UNCHANGED parentFailed
Errorf == parentFailed' = (parentFailed \/ report.failed > 0)

PrintReport ==
  /\ parent = "cleanup"
  /\ cleanups # <<>>
  /\ Top = "report"
  /\ Pop
  /\ printed' = Append(printed, Len(report.results))
  /\ Errorf
  /\ UNCHANGED <<pc, subtestVars, failed, err, reportVars, wgVars,
                 parent, registrar>>

(* CleanupSharedResources: deletes the catalog of the shared options, if   *)
(* there is one.  An error is logged.  An incomplete catalog panics; the   *)
(* remaining clean-ups still run and the test binary fails.                *)
CleanupShared ==
  /\ parent = "cleanup"
  /\ cleanups # <<>>
  /\ Top = "shared"
  /\ Pop
  /\ \/ /\ SharedCatalog = NoTest
        /\ UNCHANGED <<cloud, parentFailed>>
     \/ /\ SharedCatalog \in incomplete
        /\ parentFailed' = TRUE
        /\ UNCHANGED cloud
     \/ /\ SharedCatalog \in Tests \ incomplete
        /\ \/ "ok" \in DeleteReplies /\ cloud' = cloud \ {SharedCatalog}
           \/ "err" \in DeleteReplies /\ UNCHANGED cloud
        /\ UNCHANGED parentFailed
  /\ UNCHANGED <<pc, catalog, offering, incomplete, shared, sharedMutex,
                 failed, err, reportVars, wgVars, parent, registrar,
                 printed>>

(* A clean-up registered after this point never runs.                      *)
ParentEnd ==
  /\ parent = "cleanup"
  /\ cleanups = <<>>
  /\ parent' = "done"
  /\ UNCHANGED <<pc, subtestVars, failed, err, reportVars, wgVars,
                 registrar, cleanups, printed, parentFailed>>

(* The end: nothing is left to do, which is not a deadlock.                *)
Terminated ==
  /\ parent = "done"
  /\ registrar = "registered"
  /\ UNCHANGED vars

-----------------------------------------------------------------------------
SharedSection(t) ==
  \/ LockShared(t) \/ BecomeCreator(t) \/ TakeShared(t)
  \/ ValidateBranch(t) \/ UseExistingCatalog(t) \/ CreateShared(t)
  \/ ImportShared(t)

Subtest(t) ==
  \/ Start(t) \/ Prepare(t) \/ SharedSection(t) \/ SetUp(t) \/ RunTest(t)
  \/ LockResults(t) \/ SkipResults(t) \/ AppendResult(t) \/ Exit(t)

Parent ==
  \/ ParentReturn \/ StartCleanups \/ PrintReport \/ CleanupShared
  \/ ParentEnd \/ (\E t \in Tests : CreateSubtest(t))

Next ==
  \/ \E t \in Tests : Subtest(t)
  \/ Parent
  \/ RegisterSharedCleanup
  \/ Terminated

Spec == Init /\ [][Next]_vars

(* Go schedules every goroutine that can run; a mutex is handed over.      *)
Fairness ==
  /\ \A t \in Tests : WF_vars(Subtest(t))
  /\ WF_vars(Parent)
  /\ WF_vars(RegisterSharedCleanup)

FairSpec == Spec /\ Fairness

-----------------------------------------------------------------------------
Results == [test : Tests, passed : BOOLEAN]
Reports == [results : Seq(Results), passed : Nat, failed : Nat]

(* Every variable holds a value of its kind.  (For TLC, which cannot       *)
(* enumerate Seq, membership in Seq is enough.)                            *)
TypeOK ==
  /\ collects \in BOOLEAN
  /\ existing \subseteq Tests
  /\ pc \in [Tests -> Places]
  /\ parent \in {"loop", "returned", "cleanup", "done"}
  /\ registrar \in {"none", "started", "registered"}
  /\ cleanups \in Seq({"report", "shared"})
  /\ sharedMutex \in Tests \cup {NoTest}
  /\ shared \in Tests \cup {NoTest}
  /\ catalog \in [Tests -> Tests \cup {NoTest}]
  /\ offering \in [Tests -> BOOLEAN]
  /\ incomplete \subseteq Tests
  /\ cloud \subseteq Tests
  /\ failed \subseteq Tests
  /\ err \in [Tests -> BOOLEAN]
  /\ resultMutex \in Tests \cup {NoTest}
  /\ report \in Reports
  /\ snapshot \in [Tests -> Reports]
  /\ resultWg \in Int
  /\ printed \in Seq(Nat)
  /\ parentFailed \in BOOLEAN

(* At most one subtest is between sharedMutex.Lock and the matching        *)
(* Unlock, so the shared catalog and offering have one writer.             *)
SharedSectionExclusive ==
  \A t, u \in Tests : pc[t] \in Section /\ pc[u] \in Section => t = u

(* Once the creator has a catalog, no subtest ever creates another one:    *)
(* what "one catalog for all test cases" rests on when the creation works. *)
NoSecondCatalog == SharedCatalog # NoTest => cloud \subseteq {SharedCatalog}

PassedResults(r) == {i \in DOMAIN r.results : r.results[i].passed}

(* The counters of the report agree with its list of results, in which no  *)
(* test case appears twice.                                                *)
ReportConsistent ==
  /\ report.passed = Cardinality(PassedResults(report))
  /\ report.passed + report.failed = Len(report.results)
  /\ \A i, j \in DOMAIN report.results :
       report.results[i].test = report.results[j].test => i = j

(* Results are only ever added to the report, at its end: no concurrent    *)
(* append loses the result of another subtest.                             *)
NoLostResult ==
  [][\/ report' = report
     \/ \E t \in Tests : report'.results = Extended(report, t)]_vars

(* The report is printed once, with every result that is ever collected,   *)
(* and its clean-up had nothing left to wait for.                          *)
PrintedReportFinal ==
  printed # <<>> => printed = <<Len(report.results)>> /\ resultWg = 0

(* When results are collected, a test case that ended in an error or in a  *)
(* failure fails the parent test.                                          *)
FailuresFailTheParent ==
  parent = "done" /\ collects /\ (\E t \in Tests : err[t] \/ t \in failed)
    => parentFailed

(* The matrix always comes to its end, if no catalog without an ID is      *)
(* returned: no order of the subtests blocks them on a mutex for ever.     *)
MatrixEnds == <>(parent = "done" \/ incomplete # {})

(* The shared catalog, as SharedResource describes it: it is created once, *)
(* it is there while a subtest that took it runs, and it is deleted only   *)
(* when all of those are over.                                             *)
SharedStatus ==
  IF SharedCatalog = NoTest THEN "absent"
  ELSE IF SharedCatalog \in cloud THEN "live" ELSE "deleted"
SharedUsers ==
  {t \in Tests : /\ SharedCatalog # NoTest
                 /\ catalog[t] = SharedCatalog
                 /\ pc[t] # "ended"}

Resource == INSTANCE SharedResource WITH
  Users <- Tests, status <- SharedStatus, users <- SharedUsers
ImplementsSharedResource == Resource!Spec

-----------------------------------------------------------------------------
(* What comments and documents say of the runner, and the code does not    *)
(* do: checked by runs that expect a violation.                            *)

(* docs/projects/addons/matrix-testing.md:17: one catalog for all the test *)
(* cases instead of N.                                                     *)
OneCatalogForAll == Cardinality(cloud) <= 1

(* runAddonTestMatrix's comments: errors of test cases are collected and   *)
(* reported, so a matrix with an error does not pass.                      *)
ErrorsFailTheMatrix ==
  parent = "done" /\ (\E t \in Tests : err[t]) => parentFailed
=============================================================================
