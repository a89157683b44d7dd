------------------------- MODULE MatrixRunner_proof -------------------------
(***************************************************************************)
(* Proofs about MatrixRunner, for any set of test cases, any parallelism   *)
(* and any set of replies and outcomes.                                    *)
(***************************************************************************)
EXTENDS MatrixRunner, SequenceTheorems, FiniteSetTheorems, TLAPS

(* What is left of a stack of S when its top is taken off is a stack of S. *)
LEMMA PopType ==
  ASSUME NEW S, NEW s \in Seq(S), s # <<>>
  PROVE  SubSeq(s, 1, Len(s) - 1) \in Seq(S)
BY SubSeqProperties

(* What setting up does to a subtest and to the catalogs: a subtest        *)
(* without one may create its own, and one with CatalogUseExisting gives   *)
(* up what it shares.                                                      *)
LEMMA SetUpDoes ==
  ASSUME TypeOK, NEW t \in Tests, SetUp(t)
  PROVE  /\ pc[t] = "setup"
         /\ \E place \in {"run", "collect"} : pc' = [pc EXCEPT ![t] = place]
         /\ pc'[t] = "run" => err' = err
         /\ \E e \in BOOLEAN : err' \in {err, [err EXCEPT ![t] = e]}
         /\ failed' \in {failed, failed \cup {t}}
         /\ offering' \in {offering, [offering EXCEPT ![t] = TRUE]}
         /\ incomplete' \in {incomplete, incomplete \cup {t}}
         /\ \/ UNCHANGED <<catalog, cloud>>
            \/ /\ t \in existing
               /\ catalog' = [catalog EXCEPT ![t] = NoTest] /\ cloud' = cloud
            \/ /\ t \notin existing /\ catalog[t] = NoTest
               /\ catalog' = [catalog EXCEPT ![t] = t] /\ cloud' = cloud \cup {t}
         /\ UNCHANGED <<shared, sharedMutex, reportVars, wgVars, parentVars>>
<1> USE DEF TypeOK, Goto
<1>1. /\ pc[t] = "setup"
      /\ UNCHANGED <<shared, sharedMutex, reportVars, wgVars, parentVars>>
  BY DEF SetUp
<1>2. ASSUME NEW e \in BOOLEAN, NEW fails \in BOOLEAN, Return(t, e, fails)
      PROVE  /\ pc' = [pc EXCEPT ![t] = "collect"]
             /\ err' = [err EXCEPT ![t] = e]
             /\ failed' \in {failed, failed \cup {t}}
  BY <1>2 DEF Return
<1>3. CASE Return(t, TRUE, TRUE) /\ UNCHANGED <<catalog, offering, incomplete, cloud>>
  BY <1>1, <1>2, <1>3
<1>4. CASE /\ t \in existing
           /\ catalog' = [catalog EXCEPT ![t] = NoTest]
           /\ \/ offering[t] /\ Goto(t, "run") /\ UNCHANGED <<err, failed>>
              \/ ~offering[t] /\ \E fails \in BOOLEAN : Return(t, FALSE, fails)
           /\ UNCHANGED <<offering, incomplete, cloud>>
  BY <1>1, <1>2, <1>4
<1>5. CASE t \notin existing /\ catalog[t] = NoTest /\ SetUpOwn(t)
  <2>1. CASE /\ catalog' = [catalog EXCEPT ![t] = t]
             /\ cloud' = cloud \cup {t}
             /\ incomplete' = incomplete \cup {t}
             /\ \E fails \in BOOLEAN : Return(t, FALSE, fails)
             /\ UNCHANGED offering
    BY <1>1, <1>2, <1>5, <2>1
  <2>2. CASE /\ catalog' = [catalog EXCEPT ![t] = t]
             /\ cloud' = cloud \cup {t}
             /\ \/ /\ offering' = [offering EXCEPT ![t] = TRUE]
                   /\ Goto(t, "run")
                   /\ UNCHANGED <<err, failed>>
                \/ Return(t, TRUE, TRUE) /\ UNCHANGED offering
             /\ UNCHANGED incomplete
    BY <1>1, <1>2, <1>5, <2>2
  <2> QED
    BY <1>3, <1>5, <2>1, <2>2 DEF SetUpOwn
<1>6. CASE /\ offering' = [offering EXCEPT ![t] = TRUE]
           /\ Goto(t, "run")
           /\ UNCHANGED <<catalog, incomplete, cloud, err, failed>>
  BY <1>1, <1>6
<1> HIDE DEF TypeOK, Goto
<1> QED
  BY <1>3, <1>4, <1>5, <1>6, Zenon DEF SetUp

(* Every variable keeps a value of its kind, whatever the subtests, the    *)
(* parent and the registering goroutine of runAddonTestMatrix do.          *)
THEOREM TypeCorrect == Spec => []TypeOK
<1> USE NoTestAssumption, InputsAssumption
    DEF TypeOK, Places, Running, Section
<1>1. Init => TypeOK
  <2> SUFFICES ASSUME Init PROVE TypeOK
    OBVIOUS
  <2>1. EmptyReport \in Reports
    BY DEF EmptyReport, Reports
  <2>2. cleanups \in Seq({"report", "shared"}) /\ printed \in Seq(Nat)
    <3>1. <<"report">> \in Seq({"report", "shared"})
      OBVIOUS
    <3>2. <<>> \in Seq({"report", "shared"}) /\ <<>> \in Seq(Nat)
      OBVIOUS
    <3>3. cleanups = <<"report">> \/ cleanups = <<>>
      BY DEF Init
    <3>4. printed = <<>>
      BY DEF Init
    <3> QED
      BY ONLY <3>1, <3>2, <3>3, <3>4
  <2>3. snapshot \in [Tests -> Reports] /\ report \in Reports
    BY <2>1 DEF Init
  <2>4. /\ pc \in [Tests -> Places] /\ offering \in [Tests -> BOOLEAN]
        /\ catalog \in [Tests -> Tests \cup {NoTest}]
        /\ err \in [Tests -> BOOLEAN]
    BY DEF Init
  <2>5. parentFailed \in BOOLEAN
    BY Zenon DEF Init
  <2>9. resultWg \in Int
    BY DEF Init
  <2>8. /\ parent \in {"loop", "returned", "cleanup", "done"}
        /\ registrar \in {"none", "started", "registered"}
        /\ sharedMutex \in Tests \cup {NoTest}
        /\ shared \in Tests \cup {NoTest}
        /\ resultMutex \in Tests \cup {NoTest}
    BY DEF Init
  <2>6. incomplete \subseteq Tests /\ cloud \subseteq Tests /\ failed \subseteq Tests
    BY DEF Init
  <2>7. collects \in BOOLEAN /\ existing \subseteq Tests
    BY InputsAssumption DEF Init
  <2> QED
    BY <2>2, <2>3, <2>4, <2>5, <2>6, <2>7, <2>8, <2>9, Zenon
<1>2. TypeOK /\ [Next]_vars => TypeOK'
  <2> SUFFICES ASSUME TypeOK, [Next]_vars PROVE TypeOK'
    OBVIOUS
  <2> USE DEF subtestVars, reportVars, wgVars, parentVars, Goto, FailNow
  <2>1. ASSUME NEW t \in Tests, CreateSubtest(t) PROVE TypeOK'
    BY <2>1 DEF CreateSubtest
  <2>2. CASE ParentReturn
    BY <2>2 DEF ParentReturn
  <2>3. CASE RegisterSharedCleanup
    BY <2>3 DEF RegisterSharedCleanup
  <2>4. ASSUME NEW t \in Tests, Start(t) PROVE TypeOK'
    BY <2>4 DEF Start
  <2>5. ASSUME NEW t \in Tests, Prepare(t) PROVE TypeOK'
    BY <2>5 DEF Prepare
  <2>6. ASSUME NEW t \in Tests, LockShared(t) PROVE TypeOK'
    BY <2>6 DEF LockShared
  <2>7. ASSUME NEW t \in Tests, BecomeCreator(t) PROVE TypeOK'
    BY <2>7 DEF BecomeCreator
  <2>8. ASSUME NEW t \in Tests, TakeShared(t) PROVE TypeOK'
    BY <2>8 DEF TakeShared, UnlockShared
  <2>9. ASSUME NEW t \in Tests, ValidateBranch(t) PROVE TypeOK'
    BY <2>9 DEF ValidateBranch, UnlockShared
  <2>10. ASSUME NEW t \in Tests, CreateShared(t) PROVE TypeOK'
    <3>1. /\ \E place \in {"import", "exit"} : pc' = [pc EXCEPT ![t] = place]
          /\ failed' \in {failed, failed \cup {t}}
          /\ sharedMutex' \in {sharedMutex, NoTest}
          /\ catalog' \in {catalog, [catalog EXCEPT ![t] = t]}
          /\ cloud' \in {cloud, cloud \cup {t}}
          /\ incomplete' \in {incomplete, incomplete \cup {t}}
      BY <2>10 DEF CreateShared, UnlockShared
    <3>2. UNCHANGED <<offering, shared, err, reportVars, wgVars, parentVars>>
      BY <2>10 DEF CreateShared
    <3>3. /\ pc' \in [Tests -> Places] /\ failed' \subseteq Tests
          /\ sharedMutex' \in Tests \cup {NoTest}
          /\ catalog' \in [Tests -> Tests \cup {NoTest}]
          /\ cloud' \subseteq Tests /\ incomplete' \subseteq Tests
      BY <3>1
    <3> QED
      BY <3>2, <3>3
  <2>11. ASSUME NEW t \in Tests, ImportShared(t) PROVE TypeOK'
    <3>1. offering' = offering \/ offering' = [offering EXCEPT ![t] = TRUE]
      BY <2>11 DEF ImportShared
    <3>2. t \in Tests /\ offering \in [Tests -> BOOLEAN]
      OBVIOUS
    <3>3. offering' \in [Tests -> BOOLEAN]
      BY ONLY <3>1, <3>2
    <3>4. pc' \in [Tests -> Places] /\ failed' \subseteq Tests
      BY <2>11 DEF ImportShared
    <3> QED
      BY <2>11, <3>3, <3>4 DEF ImportShared, UnlockShared
  <2>12. ASSUME NEW t \in Tests, SetUp(t) PROVE TypeOK'
    <3>1. /\ pc' \in [Tests -> Places] /\ err' \in [Tests -> BOOLEAN]
          /\ failed' \subseteq Tests /\ incomplete' \subseteq Tests
          /\ cloud' \subseteq Tests
      BY <2>12, SetUpDoes
    <3>2. /\ catalog' \in {catalog, [catalog EXCEPT ![t] = NoTest],
                          [catalog EXCEPT ![t] = t]}
          /\ offering' \in {offering, [offering EXCEPT ![t] = TRUE]}
      BY <2>12, SetUpDoes
    <3>3. /\ t \in Tests
          /\ catalog \in [Tests -> Tests \cup {NoTest}]
          /\ offering \in [Tests -> BOOLEAN]
      OBVIOUS
    <3>4. /\ catalog' \in [Tests -> Tests \cup {NoTest}]
          /\ offering' \in [Tests -> BOOLEAN]
      BY ONLY <3>2, <3>3
    <3>5. UNCHANGED <<shared, sharedMutex, reportVars, wgVars, parentVars>>
      BY <2>12, SetUpDoes
    <3> QED
      BY <3>1, <3>4, <3>5
  <2>13. ASSUME NEW t \in Tests, RunTest(t) PROVE TypeOK'
    <3>1. ASSUME NEW e \in BOOLEAN, NEW f \in BOOLEAN, Return(t, e, f)
          PROVE  /\ err' \in [Tests -> BOOLEAN] /\ failed' \subseteq Tests
                 /\ pc' \in [Tests -> Places]
      BY <3>1 DEF Return
    <3>2. ASSUME NEW o \in Outcomes
          PROVE  /\ (o \in {"failed", "error"}) \in BOOLEAN
                 /\ (o \in {"failed", "failed_nil"}) \in BOOLEAN
      OBVIOUS
    <3>3. /\ err' \in [Tests -> BOOLEAN] /\ failed' \subseteq Tests
          /\ pc' \in [Tests -> Places]
      BY <2>13, <3>1, <3>2 DEF RunTest
    <3> QED
      BY <2>13, <3>3 DEF RunTest
  <2>14. ASSUME NEW t \in Tests, LockResults(t) PROVE TypeOK'
    BY <2>14 DEF LockResults
  <2>15. ASSUME NEW t \in Tests, SkipResults(t) PROVE TypeOK'
    BY <2>15 DEF SkipResults
  <2>16. ASSUME NEW t \in Tests, AppendResult(t) PROVE TypeOK'
    <3>1. WithResult(snapshot[t], t) \in Reports
      <4>1. Passed(t) \in BOOLEAN
        BY DEF Passed
      <4>2. [test |-> t, passed |-> Passed(t)] \in Results
        BY <4>1 DEF Results
      <4>3. snapshot[t] \in Reports
        OBVIOUS
      <4> HIDE DEF TypeOK
      <4> QED
        BY <4>2, <4>3 DEF WithResult, Counted, Extended, Reports
    <3>2. EmptyReport \in Reports
      BY DEF EmptyReport, Reports
    <3> QED
      BY <2>16, <3>1, <3>2 DEF AppendResult
  <2>17. ASSUME NEW t \in Tests, Exit(t) PROVE TypeOK'
    BY <2>17 DEF Exit
  <2>18. CASE StartCleanups
    BY <2>18 DEF StartCleanups
  <2>19. CASE PrintReport
    <3>1. cleanups' \in Seq({"report", "shared"})
      BY <2>19, PopType DEF PrintReport, Pop
    <3>2. printed' \in Seq(Nat) /\ parentFailed' \in BOOLEAN
      BY <2>19 DEF PrintReport, Errorf, Reports
    <3> QED
      BY <2>19, <3>1, <3>2 DEF PrintReport
  <2>20. CASE CleanupShared
    <3>1. cleanups' \in Seq({"report", "shared"})
      BY <2>20, PopType DEF CleanupShared, Pop
    <3>2. cloud' \subseteq Tests /\ parentFailed' \in BOOLEAN
      BY <2>20 DEF CleanupShared
    <3> QED
      BY <2>20, <3>1, <3>2 DEF CleanupShared
  <2>21. CASE ParentEnd
    BY <2>21 DEF ParentEnd
  <2>22. CASE UNCHANGED vars
    BY <2>22 DEF vars
  <2>23. ASSUME NEW t \in Tests, UseExistingCatalog(t) PROVE TypeOK'
    BY <2>23 DEF UseExistingCatalog, UnlockShared
  <2> QED
    BY <2>1, <2>2, <2>3, <2>4, <2>5, <2>6, <2>7, <2>8, <2>9, <2>10, <2>11,
       <2>12, <2>13, <2>14, <2>15, <2>16, <2>17, <2>18, <2>19, <2>20,
       <2>21, <2>22, <2>23
    DEF Next, Subtest, SharedSection, Parent, Terminated
<1> QED
  BY <1>1, <1>2, PTL DEF Spec

-----------------------------------------------------------------------------
(* Whoever is in the section holds the mutex.  (Its holder may be outside: *)
(* the creator whose catalog has no ID leaves without unlocking.)          *)
LockInv == \A t \in Tests : pc[t] \in Section => sharedMutex = t

(* The fate of the shared catalog.  A subtest that has not been through    *)
(* the section has no catalog; while the creator has created nothing,      *)
(* nothing exists; and a subtest about to set up holds what the creator    *)
(* has, who by then is done with the section and, if it is the subtest     *)
(* itself, has a catalog or uses an existing one, and then never has one.  *)
Fresh == {"none", "parallel", "prepare", "lock", "section"}

CatalogInv ==
  /\ shared = NoTest => cloud = {}
  /\ \A t \in Tests :
       /\ pc[t] \in Fresh => catalog[t] = NoTest /\ shared # t
       /\ pc[t] \in {"validate", "create"} =>
            shared = t /\ catalog[t] = NoTest /\ cloud = {}
       /\ pc[t] = "import" => shared = t /\ catalog[t] # NoTest
       /\ pc[t] = "setup" =>
            /\ shared # NoTest
            /\ pc[shared] \notin {"validate", "create"}
            /\ catalog[t] = catalog[shared]
            /\ t = shared => catalog[t] # NoTest \/ t \in existing
  /\ shared # NoTest => catalog[shared] \in {NoTest, shared}
  /\ shared \in existing => catalog[shared] = NoTest

(* A subtest enters the section with the mutex and nobody else takes it    *)
(* from it.                                                                *)
LEMMA LockStep == TypeOK /\ LockInv /\ [Next]_vars => LockInv'
<1> SUFFICES ASSUME TypeOK, LockInv, [Next]_vars PROVE LockInv'
  OBVIOUS
<1>0. pc \in [Tests -> Places]
  BY DEF TypeOK
<1> USE <1>0, NoTestAssumption
    DEF LockInv, Section, subtestVars, reportVars, wgVars, parentVars, Goto,
        FailNow
<1>1. ASSUME NEW t \in Tests, CreateSubtest(t) PROVE LockInv'
  BY <1>1 DEF CreateSubtest
<1>2. ASSUME NEW t \in Tests, Start(t) PROVE LockInv'
  BY <1>2 DEF Start
<1>3. ASSUME NEW t \in Tests, Prepare(t) PROVE LockInv'
  BY <1>3 DEF Prepare
<1>4. ASSUME NEW t \in Tests, LockShared(t) PROVE LockInv'
  BY <1>4 DEF LockShared, SharedFree
<1>5. ASSUME NEW t \in Tests, BecomeCreator(t) PROVE LockInv'
  BY <1>5 DEF BecomeCreator
<1>6. ASSUME NEW t \in Tests, TakeShared(t) PROVE LockInv'
  BY <1>6 DEF TakeShared, UnlockShared
<1>7. ASSUME NEW t \in Tests, ValidateBranch(t) PROVE LockInv'
  BY <1>7 DEF ValidateBranch, UnlockShared
<1>8. ASSUME NEW t \in Tests, CreateShared(t) PROVE LockInv'
  BY <1>8 DEF CreateShared, UnlockShared
<1>9. ASSUME NEW t \in Tests, ImportShared(t) PROVE LockInv'
  BY <1>9 DEF ImportShared, UnlockShared
<1>10. ASSUME NEW t \in Tests, SetUp(t) PROVE LockInv'
  BY <1>10, SetUpDoes
<1>11. ASSUME NEW t \in Tests, RunTest(t) PROVE LockInv'
  BY <1>11 DEF RunTest, Return
<1>12. ASSUME NEW t \in Tests, LockResults(t) PROVE LockInv'
  BY <1>12 DEF LockResults
<1>13. ASSUME NEW t \in Tests, SkipResults(t) PROVE LockInv'
  BY <1>13 DEF SkipResults
<1>14. ASSUME NEW t \in Tests, AppendResult(t) PROVE LockInv'
  BY <1>14 DEF AppendResult
<1>15. ASSUME NEW t \in Tests, Exit(t) PROVE LockInv'
  BY <1>15 DEF Exit
<1>16. CASE ParentReturn
  BY <1>16 DEF ParentReturn
<1>17. CASE RegisterSharedCleanup
  BY <1>17 DEF RegisterSharedCleanup
<1>18. CASE StartCleanups
  BY <1>18 DEF StartCleanups
<1>19. CASE PrintReport
  BY <1>19 DEF PrintReport
<1>20. CASE CleanupShared
  BY <1>20 DEF CleanupShared
<1>21. CASE ParentEnd
  BY <1>21 DEF ParentEnd
<1>22. CASE UNCHANGED vars
  BY <1>22 DEF vars
<1>23. ASSUME NEW t \in Tests, UseExistingCatalog(t) PROVE LockInv'
  BY <1>23 DEF UseExistingCatalog, UnlockShared
<1> QED
  BY <1>1, <1>2, <1>3, <1>4, <1>5, <1>6, <1>7, <1>8, <1>9, <1>10,
     <1>11, <1>12, <1>13, <1>14, <1>15, <1>16, <1>17, <1>18, <1>19,
     <1>20, <1>21, <1>22, <1>23
  DEF Next, Subtest, SharedSection, Parent, Terminated

(* At most one subtest at a time is between the Lock and the Unlock of     *)
(* sharedMutex, for any number of test cases.                              *)
THEOREM SectionExclusive == Spec => []SharedSectionExclusive
<1>1. Init => LockInv
  BY DEF Init, LockInv, Section
<1>2. TypeOK /\ LockInv => SharedSectionExclusive
  BY DEF LockInv, SharedSectionExclusive
<1> QED
  BY <1>1, <1>2, LockStep, TypeCorrect, PTL DEF Spec

SharingInv == CatalogInv /\ NoSecondCatalog

(* The section publishes the creator's options before it creates anything, *)
(* yet every subtest that leaves the section finds it settled whether      *)
(* there is a shared catalog.                                              *)
LEMMA SharingStep ==
  TypeOK /\ LockInv /\ SharingInv /\ [Next]_vars => SharingInv'
<1> SUFFICES ASSUME TypeOK, LockInv, SharingInv, [Next]_vars
             PROVE  SharingInv'
  OBVIOUS
<1>0. /\ pc \in [Tests -> Places]
      /\ catalog \in [Tests -> Tests \cup {NoTest}]
      /\ shared \in Tests \cup {NoTest}
      /\ cloud \subseteq Tests
  BY DEF TypeOK
<1> USE <1>0, NoTestAssumption
    DEF SharingInv, CatalogInv, NoSecondCatalog, SharedCatalog, Fresh,
        subtestVars, reportVars, wgVars, parentVars, Goto, FailNow
<1>1. ASSUME NEW t \in Tests, CreateSubtest(t) PROVE SharingInv'
  BY <1>1 DEF CreateSubtest
<1>2. ASSUME NEW t \in Tests, Start(t) PROVE SharingInv'
  BY <1>2 DEF Start
<1>3. ASSUME NEW t \in Tests, Prepare(t) PROVE SharingInv'
  BY <1>3 DEF Prepare
<1>4. ASSUME NEW t \in Tests, LockShared(t) PROVE SharingInv'
  BY <1>4 DEF LockShared, SharedFree
<1>5. ASSUME NEW t \in Tests, RunTest(t) PROVE SharingInv'
  BY <1>5 DEF RunTest, Return
<1>6. ASSUME NEW t \in Tests, LockResults(t) PROVE SharingInv'
  BY <1>6 DEF LockResults
<1>7. ASSUME NEW t \in Tests, SkipResults(t) PROVE SharingInv'
  BY <1>7 DEF SkipResults
<1>8. ASSUME NEW t \in Tests, AppendResult(t) PROVE SharingInv'
  BY <1>8 DEF AppendResult
<1>9. ASSUME NEW t \in Tests, Exit(t) PROVE SharingInv'
  BY <1>9 DEF Exit
<1>10. ASSUME NEW t \in Tests, BecomeCreator(t) PROVE SharingInv'
  BY <1>10 DEF BecomeCreator, LockInv, Section
<1>11. ASSUME NEW t \in Tests, TakeShared(t) PROVE SharingInv'
  BY <1>11 DEF TakeShared, LockInv, Section, UnlockShared
<1>12. ASSUME NEW t \in Tests, ValidateBranch(t) PROVE SharingInv'
  BY <1>12 DEF ValidateBranch, LockInv, Section, UnlockShared
<1>13. ASSUME NEW t \in Tests, CreateShared(t) PROVE SharingInv'
  BY <1>13 DEF CreateShared, LockInv, Section, UnlockShared
<1>14. ASSUME NEW t \in Tests, ImportShared(t) PROVE SharingInv'
  BY <1>14 DEF ImportShared, LockInv, Section, UnlockShared
<1>15. ASSUME NEW t \in Tests, SetUp(t) PROVE SharingInv'
  <2>1. /\ pc[t] = "setup" /\ UNCHANGED <<shared, sharedMutex, existing>>
        /\ \E place \in {"run", "collect"} : pc' = [pc EXCEPT ![t] = place]
        /\ \/ UNCHANGED <<catalog, cloud>>
           \/ /\ t \in existing
              /\ catalog' = [catalog EXCEPT ![t] = NoTest] /\ cloud' = cloud
           \/ /\ t \notin existing /\ catalog[t] = NoTest
              /\ catalog' = [catalog EXCEPT ![t] = t] /\ cloud' = cloud \cup {t}
    BY <1>15, SetUpDoes
  <2> QED
    BY <2>1
<1>16. CASE ParentReturn
  BY <1>16 DEF ParentReturn
<1>17. CASE RegisterSharedCleanup
  BY <1>17 DEF RegisterSharedCleanup
<1>18. CASE StartCleanups
  BY <1>18 DEF StartCleanups
<1>19. CASE PrintReport
  BY <1>19 DEF PrintReport
<1>20. CASE CleanupShared
  BY <1>20 DEF CleanupShared
<1>21. CASE ParentEnd
  BY <1>21 DEF ParentEnd
<1>22. CASE UNCHANGED vars
  BY <1>22 DEF vars
<1>23. ASSUME NEW t \in Tests, UseExistingCatalog(t) PROVE SharingInv'
  BY <1>23 DEF UseExistingCatalog, UnlockShared, LockInv, Section
<1> QED
  BY <1>1, <1>2, <1>3, <1>4, <1>5, <1>6, <1>7, <1>8, <1>9, <1>10,
     <1>11, <1>12, <1>13, <1>14, <1>15, <1>16, <1>17, <1>18, <1>19,
     <1>20, <1>21, <1>22, <1>23
  DEF Next, Subtest, SharedSection, Parent, Terminated

(* Once the creator has a catalog no subtest creates another one, for any  *)
(* number of test cases and whatever the cloud answers.                    *)
THEOREM OneCatalogOnceShared == Spec => []NoSecondCatalog
<1>1. Init => SharingInv
  BY NoTestAssumption, InputsAssumption
  DEF Init, SharingInv, CatalogInv, NoSecondCatalog, SharedCatalog, Fresh
<1>2. Init => LockInv
  BY DEF Init, LockInv, Section
<1>3. SharingInv => NoSecondCatalog
  BY DEF SharingInv
<1> QED
  BY <1>1, <1>2, <1>3, LockStep, SharingStep, TypeCorrect, PTL DEF Spec
-----------------------------------------------------------------------------
(* The shared report.  Every step of a subtest but three leaves the report *)
(* alone, moves that subtest only, and ends in no place of those three.    *)
Quiet(t) ==
  /\ UNCHANGED <<reportVars, wgVars, parentVars>>
  /\ pc[t] \notin {"none", "append", "exit", "ended"}
  /\ pc[t] = "collect" => ~collects /\ pc'[t] = "exit"
  /\ \E place \in Running \ {"append"} : pc' = [pc EXCEPT ![t] = place]
  /\ pc'[t] # "collect" => err' = err
  /\ \A u \in Tests \ {t} : err'[u] = err[u]

LEMMA QuietStep ==
  ASSUME TypeOK, NEW t \in Tests, Subtest(t)
  PROVE  Quiet(t) \/ LockResults(t) \/ AppendResult(t) \/ Exit(t)
<1>0. pc \in [Tests -> Places] /\ err \in [Tests -> BOOLEAN]
  BY DEF TypeOK
<1> USE <1>0
    DEF Quiet, Running, Section, subtestVars, reportVars, wgVars, parentVars, Goto,
        FailNow
<1>1. CASE Start(t)
  BY <1>1 DEF Start
<1>2. CASE Prepare(t)
  BY <1>2 DEF Prepare
<1>3. CASE LockShared(t)
  BY <1>3 DEF LockShared
<1>4. CASE BecomeCreator(t)
  BY <1>4 DEF BecomeCreator
<1>5. CASE TakeShared(t)
  BY <1>5 DEF TakeShared
<1>6. CASE ValidateBranch(t)
  BY <1>6 DEF ValidateBranch
<1>7. CASE CreateShared(t)
  BY <1>7 DEF CreateShared
<1>8. CASE ImportShared(t)
  BY <1>8 DEF ImportShared
<1>9. CASE SetUp(t)
  <2>1. /\ pc[t] = "setup" /\ UNCHANGED <<reportVars, wgVars, parentVars>>
        /\ \E place \in {"run", "collect"} : pc' = [pc EXCEPT ![t] = place]
        /\ pc'[t] = "run" => err' = err
        /\ \E e \in BOOLEAN : err' \in {err, [err EXCEPT ![t] = e]}
    BY <1>9, SetUpDoes
  <2> QED
    BY <2>1
<1>10. CASE RunTest(t)
  BY <1>10 DEF RunTest, Return
<1>11. CASE SkipResults(t)
  BY <1>11 DEF SkipResults
<1>12. CASE UseExistingCatalog(t)
  BY <1>12 DEF UseExistingCatalog
<1> QED
  BY <1>1, <1>2, <1>3, <1>4, <1>5, <1>6, <1>7, <1>8, <1>9, <1>10, <1>11, <1>12
  DEF Subtest, SharedSection

(* What appending a result to a report does to its list.                   *)
LEMMA ExtendedIs ==
  ASSUME NEW r \in Reports, NEW t \in Tests
  PROVE  /\ Extended(r, t) \in Seq(Results)
         /\ DOMAIN r.results = 1 .. Len(r.results) /\ Len(r.results) \in Nat
         /\ Len(Extended(r, t)) = Len(r.results) + 1
         /\ DOMAIN Extended(r, t) = 1 .. Len(r.results) + 1
         /\ \A i \in 1 .. Len(r.results) : Extended(r, t)[i] = r.results[i]
         /\ Extended(r, t)[Len(r.results) + 1].test = t
         /\ Extended(r, t)[Len(r.results) + 1].passed <=> Passed(t)
<1> DEFINE e == [test |-> t, passed |-> Passed(t)]
<1>1. e \in Results
  BY DEF Passed, Results
<1>2. r.results \in Seq(Results)
  BY DEF Reports
<1>4. e.test = t
  OBVIOUS
<1>5. e.passed <=> Passed(t)
  BY Zenon
<1> HIDE DEF e
<1>3. /\ Append(r.results, e) \in Seq(Results)
      /\ Len(Append(r.results, e)) = Len(r.results) + 1
      /\ \A i \in 1 .. Len(r.results) : Append(r.results, e)[i] = r.results[i]
      /\ Append(r.results, e)[Len(r.results) + 1] = e
      /\ DOMAIN r.results = 1 .. Len(r.results) /\ Len(r.results) \in Nat
      /\ DOMAIN Append(r.results, e) = 1 .. Len(r.results) + 1
  BY <1>1, <1>2
<1>6. Extended(r, t) = Append(r.results, e)
  BY DEF Extended, e
<1> QED
  BY <1>3, <1>4, <1>5, <1>6

(* The counters agree with the list.                                       *)
CountersAgree(r) ==
  /\ r.passed = Cardinality(PassedResults(r))
  /\ r.passed + r.failed = Len(r.results)

LEMMA CountersStillAgree ==
  ASSUME NEW r \in Reports, NEW t \in Tests, CountersAgree(r)
  PROVE  CountersAgree(WithResult(r, t))
<1> DEFINE s == WithResult(r, t)
           n == Len(r.results)
           old == PassedResults(r)
<1>1. /\ s.results = Extended(r, t)
      /\ s.passed = r.passed + (IF Passed(t) THEN 1 ELSE 0)
      /\ s.failed = r.failed + (IF Passed(t) THEN 0 ELSE 1)
      /\ r.passed \in Nat /\ r.failed \in Nat
  BY DEF WithResult, Counted, Reports
<1>2. old \subseteq 1 .. n /\ n \in Nat
  BY ExtendedIs DEF PassedResults
<1>3. IsFiniteSet(old)
  <2>1. IsFiniteSet(1 .. n)
    BY <1>2, FS_Interval
  <2> HIDE DEF old, n
  <2> QED
    BY <1>2, <2>1, FS_Subset
<1>4. PassedResults(s) = IF Passed(t) THEN old \cup {n + 1} ELSE old
  <2>1. PassedResults(s) = {i \in 1 .. n + 1 : Extended(r, t)[i].passed}
    BY <1>1, ExtendedIs DEF PassedResults
  <2>2. \A i \in 1 .. n : Extended(r, t)[i].passed <=> r.results[i].passed
    BY ExtendedIs
  <2>3. Extended(r, t)[n + 1].passed <=> Passed(t)
    BY ExtendedIs
  <2>4. old = {i \in 1 .. n : r.results[i].passed}
    BY ExtendedIs DEF PassedResults
  <2>5. 1 .. n + 1 = (1 .. n) \cup {n + 1}
    BY <1>2
  <2> HIDE DEF old, n, s
  <2>6. CASE Passed(t)
    BY <2>1, <2>2, <2>3, <2>4, <2>5, <2>6
  <2>7. CASE ~Passed(t)
    BY <2>1, <2>2, <2>3, <2>4, <2>5, <2>7
  <2> QED
    BY <2>6, <2>7
<1>5. n + 1 \notin old
  BY <1>2
<1>6. s.passed = Cardinality(PassedResults(s))
  <2>1. CASE Passed(t)
    <3>1. Cardinality(old \cup {n + 1}) = Cardinality(old) + 1
      BY <1>3, <1>5, FS_AddElement
    <3> QED
      BY <2>1, <3>1, <1>1, <1>4 DEF CountersAgree
  <2>2. CASE ~Passed(t)
    BY <2>2, <1>1, <1>4 DEF CountersAgree
  <2> QED
    BY <2>1, <2>2
<1>7. s.passed + s.failed = Len(s.results)
  <2>1. Len(s.results) = n + 1
    BY <1>1, ExtendedIs
  <2>2. r.passed + r.failed = n
    BY DEF CountersAgree
  <2> HIDE DEF s, n
  <2>3. CASE Passed(t)
    BY <1>1, <1>2, <2>1, <2>2, <2>3
  <2>4. CASE ~Passed(t)
    BY <1>1, <1>2, <2>1, <2>2, <2>4
  <2> QED
    BY <2>3, <2>4
<1> QED
  BY <1>6, <1>7 DEF CountersAgree

(* Whoever is about to write the report holds resultMutex, and has read    *)
(* the report as it still is; a result in it is one of a subtest that has  *)
(* been there, of which there is no second one.                            *)
ReportInv ==
  /\ \A t \in Tests : pc[t] = "append" => resultMutex = t /\ snapshot[t] = report
  /\ CountersAgree(report)
  /\ \A i \in DOMAIN report.results :
       /\ pc[report.results[i].test] \in {"exit", "ended"}
       /\ \A j \in DOMAIN report.results :
            report.results[i].test = report.results[j].test => i = j

LEMMA ResultTests ==
  ASSUME TypeOK
  PROVE  \A i \in DOMAIN report.results : report.results[i].test \in Tests
<1>1. report.results \in Seq(Results)
  BY DEF TypeOK, Reports
<1>2. \A i \in DOMAIN report.results : report.results[i] \in Results
  BY <1>1
<1> QED
  BY <1>2 DEF Results

(* A report that stays as it is, while no subtest that has been there      *)
(* comes back.                                                             *)
LEMMA ReportUntouched ==
  ASSUME TypeOK, ReportInv, report' = report,
         \A t \in Tests : pc[t] \in {"exit", "ended"} => pc'[t] \in {"exit", "ended"},
         \A t \in Tests : pc'[t] = "append" => resultMutex' = t /\ snapshot'[t] = report
  PROVE  ReportInv'
BY ResultTests DEF ReportInv, CountersAgree, PassedResults

LEMMA AppendStep ==
  ASSUME TypeOK, ReportInv, NEW t \in Tests, AppendResult(t)
  PROVE  /\ ReportInv' /\ report' = WithResult(report, t)
<1>1. report \in Reports /\ pc \in [Tests -> Places] /\ resultMutex = t /\ pc[t] = "append"
  BY DEF TypeOK, ReportInv, AppendResult
<1>2. report' = WithResult(report, t) /\ pc' = [pc EXCEPT ![t] = "exit"]
  BY DEF ReportInv, AppendResult, Goto
<1>3. report'.results = Extended(report, t)
  BY <1>2 DEF WithResult, Counted
<1>4. CountersAgree(report)'
  <2>1. CountersAgree(WithResult(report, t))
    BY <1>1, CountersStillAgree DEF ReportInv
  <2> QED
    BY <1>2, <2>1 DEF CountersAgree, PassedResults
<1>5. \A u \in Tests : pc'[u] # "append"
  BY <1>1, <1>2 DEF ReportInv
<1>6. \A i \in DOMAIN report.results : report.results[i].test # t
  BY <1>1 DEF ReportInv
<1> DEFINE n == Len(report.results)
<1>7. /\ DOMAIN report.results = 1 .. n /\ n \in Nat
      /\ DOMAIN report'.results = 1 .. n + 1
      /\ \A i \in 1 .. n : report'.results[i] = report.results[i]
      /\ report'.results[n + 1].test = t
  <2>1. /\ DOMAIN report.results = 1 .. n /\ n \in Nat
        /\ DOMAIN Extended(report, t) = 1 .. n + 1
        /\ \A i \in 1 .. n : Extended(report, t)[i] = report.results[i]
        /\ Extended(report, t)[n + 1].test = t
    BY <1>1, ExtendedIs
  <2> QED
    BY <1>3, <2>1
<1>8. \A i \in 1 .. n : /\ report.results[i].test \in Tests \ {t}
                        /\ pc[report.results[i].test] \in {"exit", "ended"}
  BY <1>6, <1>7, ResultTests DEF ReportInv
<1> HIDE DEF n
<1>9. ASSUME NEW i \in 1 .. n + 1
      PROVE  pc'[report'.results[i].test] \in {"exit", "ended"}
  <2>1. CASE i = n + 1
    BY <2>1, <1>1, <1>2, <1>7
  <2>2. CASE i \in 1 .. n
    BY <2>2, <1>1, <1>2, <1>7, <1>8
  <2> QED
    BY <2>1, <2>2, <1>7
<1>10. ASSUME NEW i \in 1 .. n + 1, NEW j \in 1 .. n + 1,
              report'.results[i].test = report'.results[j].test
       PROVE  i = j
  <2>1. CASE i \in 1 .. n /\ j \in 1 .. n
    BY <2>1, <1>10, <1>7 DEF ReportInv
  <2>2. CASE i = n + 1 /\ j \in 1 .. n
    BY <2>2, <1>10, <1>7, <1>8
  <2>3. CASE i \in 1 .. n /\ j = n + 1
    BY <2>3, <1>10, <1>7, <1>8
  <2> QED
    BY <2>1, <2>2, <2>3, <1>7
<1> QED
  BY <1>2, <1>4, <1>5, <1>7, <1>9, <1>10 DEF ReportInv

LEMMA ReportStep == TypeOK /\ ReportInv /\ [Next]_vars => ReportInv'
<1> SUFFICES ASSUME TypeOK, ReportInv, [Next]_vars PROVE ReportInv'
  OBVIOUS
<1>0. pc \in [Tests -> Places] /\ snapshot \in [Tests -> Reports]
  BY DEF TypeOK
<1>1. ASSUME NEW t \in Tests, Quiet(t) PROVE ReportInv'
  <2>1. /\ UNCHANGED <<report, resultMutex, snapshot>>
        /\ pc[t] \notin {"exit", "ended"}
        /\ pc' = [pc EXCEPT ![t] = pc'[t]] /\ pc'[t] # "append"
    BY <1>0, <1>1 DEF Quiet, reportVars
  <2> QED
    BY <1>0, <2>1, ReportUntouched DEF ReportInv
<1>2. ASSUME NEW t \in Tests, LockResults(t) PROVE ReportInv'
  BY <1>0, <1>2, ReportUntouched, NoTestAssumption
  DEF LockResults, ResultsFree, Goto, ReportInv
<1>3. ASSUME NEW t \in Tests, AppendResult(t) PROVE ReportInv'
  BY <1>3, AppendStep
<1>4. ASSUME NEW t \in Tests, Exit(t) PROVE ReportInv'
  BY <1>0, <1>4, ReportUntouched DEF Exit, reportVars, Goto, ReportInv
<1>5. ASSUME NEW t \in Tests, CreateSubtest(t) PROVE ReportInv'
  BY <1>0, <1>5, ReportUntouched DEF CreateSubtest, reportVars, Goto, ReportInv
<1>6. CASE UNCHANGED <<pc, reportVars>>
  BY <1>6, ReportUntouched DEF reportVars, ReportInv
<1> QED
  BY <1>1, <1>2, <1>3, <1>4, <1>5, <1>6, QuietStep
  DEF Next, Parent, ParentReturn, RegisterSharedCleanup, StartCleanups, PrintReport,
      CleanupShared, ParentEnd, Terminated, vars, reportVars

LEMMA AlwaysReportInv == Spec => []ReportInv
<1>1. Init => ReportInv
  <2> SUFFICES ASSUME Init PROVE ReportInv
    OBVIOUS
  <2>1. report.results = <<>> /\ report.passed = 0 /\ report.failed = 0
    BY DEF Init, EmptyReport
  <2>2. DOMAIN report.results = {} /\ Len(report.results) = 0
    BY <2>1
  <2>3. PassedResults(report) = {}
    BY <2>2 DEF PassedResults
  <2>4. CountersAgree(report)
    BY <2>1, <2>2, <2>3, FS_EmptySet DEF CountersAgree
  <2>5. \A t \in Tests : pc[t] = "none"
    BY DEF Init
  <2> QED
    BY <2>2, <2>4, <2>5 DEF ReportInv
<1> QED
  BY <1>1, ReportStep, TypeCorrect, PTL DEF Spec

(* The counters of the report agree with its list of results, and no test  *)
(* case is in it twice, for any number of subtests that append to it.      *)
THEOREM ReportCounts == Spec => []ReportConsistent
<1>1. ReportInv => ReportConsistent
  BY DEF ReportInv, CountersAgree, ReportConsistent
<1> QED
  BY <1>1, AlwaysReportInv, PTL

(* No result is lost: what a subtest writes back is the report as it still *)
(* is, with one result more.                                               *)
THEOREM ResultsKept == Spec => NoLostResult
<1> DEFINE Kept == \/ report' = report
                   \/ \E t \in Tests : report'.results = Extended(report, t)
<1>1. TypeOK /\ ReportInv /\ [Next]_vars => Kept
  <2> SUFFICES ASSUME TypeOK, ReportInv, [Next]_vars PROVE Kept
    OBVIOUS
  <2>1. ASSUME NEW t \in Tests, AppendResult(t) PROVE Kept
    BY <2>1, AppendStep DEF WithResult, Counted
  <2>2. ASSUME NEW t \in Tests, Quiet(t) \/ LockResults(t) \/ Exit(t) \/ CreateSubtest(t)
        PROVE  Kept
    BY <2>2 DEF Quiet, LockResults, Exit, CreateSubtest, reportVars
  <2>3. CASE UNCHANGED reportVars
    BY <2>3 DEF reportVars
  <2> QED
    BY <2>1, <2>2, <2>3, QuietStep
    DEF Next, Parent, ParentReturn, RegisterSharedCleanup, StartCleanups, PrintReport,
        CleanupShared, ParentEnd, Terminated, vars
<1>2. TypeOK /\ ReportInv /\ [Next]_vars => [Kept]_vars
  BY <1>1
<1> QED
  BY <1>2, AlwaysReportInv, TypeCorrect, PTL DEF Spec, NoLostResult

-----------------------------------------------------------------------------
(* The end of the matrix.  A test case that ended in an error has counted  *)
(* one result as failed, if results are collected ...                      *)
ErrorsCounted ==
  \A t \in Tests :
    /\ pc[t] \notin {"collect", "append", "exit", "ended"} => ~err[t]
    /\ pc[t] \in {"exit", "ended"} /\ collects /\ err[t] => report.failed > 0

(* ... the WaitGroup counts the test cases that are not over ...           *)
Alive == {t \in Tests : pc[t] \notin {"none", "ended"}}
WaitGroupExact == resultWg = IF collects THEN Cardinality(Alive) ELSE 0

(* ... and the clean-up that prints the report is registered once, before  *)
(* the other one, and fails the parent for a failed result.                *)
ReportPending == cleanups \in {<<"report">>, <<"report", "shared">>}
CleanupsKnown ==
  /\ ReportPending \/ cleanups \in {<<>>, <<"shared">>}
  /\ registrar # "registered" => cleanups \in {<<>>, <<"report">>}
  /\ parent = "loop" => registrar = "none"

OverInv ==
  /\ parent \in {"cleanup", "done"} =>
       /\ \A t \in Tests : pc[t] = "ended"
       /\ failed # {} => parentFailed
  /\ parent = "done" => ~ReportPending
  /\ collects /\ ~ReportPending =>
       /\ parent \in {"cleanup", "done"}
       /\ report.failed > 0 => parentFailed
  /\ printed # <<>> =>
       /\ ~ReportPending
       /\ parent \in {"cleanup", "done"}
       /\ printed = <<Len(report.results)>>

EndInv == ErrorsCounted /\ WaitGroupExact /\ CleanupsKnown /\ OverInv

LEMMA ErrorsCountedStep ==
  TypeOK /\ ReportInv /\ ErrorsCounted /\ [Next]_vars => ErrorsCounted'
<1> SUFFICES ASSUME TypeOK, ReportInv, ErrorsCounted, [Next]_vars
             PROVE  ErrorsCounted'
  OBVIOUS
<1>0. pc \in [Tests -> Places] /\ err \in [Tests -> BOOLEAN]
  BY DEF TypeOK
<1>1. ASSUME NEW t \in Tests, Quiet(t) PROVE ErrorsCounted'
  <2> PICK place \in Running \ {"append"} : pc' = [pc EXCEPT ![t] = place]
    BY <1>1 DEF Quiet
  <2>1. UNCHANGED <<collects, report>>
    BY <1>1 DEF Quiet, reportVars, wgVars
  <2>2. pc'[t] = place /\ \A u \in Tests \ {t} : pc'[u] = pc[u] /\ err'[u] = err[u]
    BY <1>0, <1>1 DEF Quiet
  <2>3. ASSUME NEW u \in Tests \ {t}
        PROVE  /\ pc'[u] \notin {"collect", "append", "exit", "ended"} => ~err'[u]
               /\ pc'[u] \in {"exit", "ended"} /\ collects' /\ err'[u] => report'.failed > 0
    BY <2>1, <2>2 DEF ErrorsCounted
  <2>4. /\ pc'[t] \notin {"collect", "append", "exit", "ended"} => ~err'[t]
        /\ pc'[t] \in {"exit", "ended"} /\ collects' /\ err'[t] => report'.failed > 0
    <3>1. /\ pc[t] \notin {"append", "exit", "ended"}
          /\ pc[t] = "collect" => ~collects /\ pc'[t] = "exit"
          /\ pc'[t] # "collect" => err' = err
      BY <1>1 DEF Quiet
    <3>2. pc[t] # "collect" => ~err[t]
      BY <3>1 DEF ErrorsCounted
    <3>3. CASE pc[t] = "collect"
      BY <2>1, <2>2, <3>1, <3>3
    <3>4. CASE pc'[t] = "collect"
      BY <3>4
    <3>5. CASE pc[t] # "collect" /\ pc'[t] # "collect"
      <4>1. ~err'[t]
        BY <3>1, <3>2, <3>5
      <4> QED
        BY <4>1
    <3> QED
      BY <3>3, <3>4, <3>5
  <2> QED
    BY <2>3, <2>4 DEF ErrorsCounted
<1>2. ASSUME NEW t \in Tests, LockResults(t) PROVE ErrorsCounted'
  BY <1>0, <1>2 DEF LockResults, ErrorsCounted, Goto, wgVars
<1>3. ASSUME NEW t \in Tests, AppendResult(t) PROVE ErrorsCounted'
  <2>1. /\ pc' = [pc EXCEPT ![t] = "exit"] /\ UNCHANGED <<collects, err>>
    BY <1>3 DEF AppendResult, Goto, wgVars
  <2>2. report'.failed = report.failed + (IF Passed(t) THEN 0 ELSE 1)
    BY <1>3, AppendStep DEF WithResult, Counted
  <2>3. report.failed \in Nat
    BY DEF TypeOK, Reports
  <2>4. CASE err[t]
    BY <1>0, <2>1, <2>2, <2>3, <2>4 DEF ErrorsCounted, Passed
  <2>5. CASE ~err[t]
    <3>1. report'.failed >= report.failed
      BY <2>2, <2>3
    <3>2. report.failed > 0 => report'.failed > 0
      BY <2>2, <2>3
    <3> QED
      BY <1>0, <2>1, <2>5, <3>2 DEF ErrorsCounted
  <2> QED
    BY <2>4, <2>5
<1>4. ASSUME NEW t \in Tests, Exit(t) PROVE ErrorsCounted'
  BY <1>0, <1>4 DEF Exit, ErrorsCounted, reportVars, Goto
<1>5. ASSUME NEW t \in Tests, CreateSubtest(t) PROVE ErrorsCounted'
  BY <1>0, <1>5 DEF CreateSubtest, ErrorsCounted, reportVars, Goto
<1>6. CASE UNCHANGED <<pc, err, reportVars, wgVars>>
  BY <1>6 DEF ErrorsCounted, reportVars, wgVars
<1> QED
  BY <1>1, <1>2, <1>3, <1>4, <1>5, <1>6, QuietStep
  DEF Next, Parent, ParentReturn, RegisterSharedCleanup, StartCleanups, PrintReport,
      CleanupShared, ParentEnd, Terminated, vars

LEMMA WaitGroupStep == TypeOK /\ WaitGroupExact /\ [Next]_vars => WaitGroupExact'
<1> SUFFICES ASSUME TypeOK, WaitGroupExact, [Next]_vars PROVE WaitGroupExact'
  OBVIOUS
<1>0. pc \in [Tests -> Places]
  BY DEF TypeOK
<1>1. IsFiniteSet(Alive)
  BY TestsAssumption, FS_Subset DEF Alive
<1>2. ASSUME Alive' = Alive, UNCHANGED wgVars PROVE WaitGroupExact'
  BY <1>2 DEF WaitGroupExact, wgVars
<1>3. ASSUME NEW t \in Tests, Quiet(t) \/ LockResults(t) \/ AppendResult(t)
      PROVE  Alive' = Alive /\ UNCHANGED wgVars
  <2>1. /\ pc[t] \notin {"none", "ended"} /\ UNCHANGED wgVars
        /\ \E place \in Running : pc' = [pc EXCEPT ![t] = place]
    BY <1>3 DEF Quiet, LockResults, AppendResult, Goto, Running
  <2>2. "none" \notin Running /\ "ended" \notin Running
    BY DEF Running, Section
  <2> QED
    BY <1>0, <2>1, <2>2 DEF Alive
<1>4. ASSUME NEW t \in Tests, Exit(t) PROVE WaitGroupExact'
  <2>1. Alive' = Alive \ {t} /\ t \in Alive
    BY <1>0, <1>4 DEF Exit, Goto, Alive
  <2>2. Cardinality(Alive') = Cardinality(Alive) - 1
    BY <1>1, <2>1, FS_RemoveElement
  <2>3. Cardinality(Alive) \in Nat
    BY <1>1, FS_CardinalityType
  <2> QED
    BY <1>4, <2>2, <2>3 DEF Exit, WaitGroupExact
<1>5. ASSUME NEW t \in Tests, CreateSubtest(t) PROVE WaitGroupExact'
  <2>1. Alive' = Alive \cup {t} /\ t \notin Alive
    BY <1>0, <1>5 DEF CreateSubtest, Goto, Alive
  <2>2. Cardinality(Alive') = Cardinality(Alive) + 1
    BY <1>1, <2>1, FS_AddElement
  <2> QED
    BY <1>5, <2>2 DEF CreateSubtest, WaitGroupExact
<1>6. CASE UNCHANGED <<pc, wgVars>>
  BY <1>2, <1>6 DEF Alive
<1> QED
  BY <1>2, <1>3, <1>4, <1>5, <1>6, QuietStep
  DEF Next, Parent, ParentReturn, RegisterSharedCleanup, StartCleanups, PrintReport,
      CleanupShared, ParentEnd, Terminated, vars

(* What popping and registering a clean-up leaves.                         *)
LEMMA Popped ==
  /\ SubSeq(<<"report">>, 1, Len(<<"report">>) - 1) = <<>>
  /\ SubSeq(<<"shared">>, 1, Len(<<"shared">>) - 1) = <<>>
  /\ SubSeq(<<"report", "shared">>, 1, Len(<<"report", "shared">>) - 1) = <<"report">>
  /\ <<"report">>[Len(<<"report">>)] = "report"
  /\ <<"shared">>[Len(<<"shared">>)] = "shared"
  /\ <<"report", "shared">>[Len(<<"report", "shared">>)] = "shared"
<1>1. Len(<<"report">>) = 1 /\ Len(<<"shared">>) = 1 /\ Len(<<"report", "shared">>) = 2
  OBVIOUS
<1>2. \A s \in Seq({"report", "shared"}) : SubSeq(s, 1, 0) = <<>>
  OBVIOUS
<1>3. /\ <<"report">> \in Seq({"report", "shared"})
      /\ <<"shared">> \in Seq({"report", "shared"})
      /\ <<"report", "shared">> \in Seq({"report", "shared"})
  OBVIOUS
<1>4. SubSeq(<<"report", "shared">>, 1, 1) = <<"report">>
  <2>1. ASSUME NEW s \in Seq({"report", "shared"}), Len(s) = 2, s[1] = "report"
        PROVE  SubSeq(s, 1, 1) = <<"report">>
    <3>1. /\ SubSeq(s, 1, 1) \in Seq({"report", "shared"})
          /\ Len(SubSeq(s, 1, 1)) = 1
          /\ SubSeq(s, 1, 1)[1] = "report"
      BY <2>1, SubSeqProperties
    <3>2. /\ <<"report">> \in Seq({"report", "shared"})
          /\ Len(<<"report">>) = 1
          /\ <<"report">>[1] = "report"
      OBVIOUS
    <3> DEFINE a == SubSeq(s, 1, 1)
               b == <<"report">>
    <3>3. \A i \in 1 .. Len(a) : a[i] = b[i]
      BY <3>1, <3>2
    <3>4. a \in Seq({"report", "shared"}) /\ b \in Seq({"report", "shared"}) /\ Len(a) = Len(b)
      BY <3>1, <3>2
    <3> HIDE DEF a, b
    <3>5. a = b
      BY <3>3, <3>4, SeqEqual
    <3> QED
      BY <3>5 DEF a, b
  <2>2. <<"report", "shared">>[1] = "report"
    OBVIOUS
  <2> QED
    BY <1>1, <1>3, <2>1, <2>2, Zenon
<1>5. /\ <<"report">>[1] = "report" /\ <<"shared">>[1] = "shared"
      /\ <<"report", "shared">>[2] = "shared"
  OBVIOUS
<1>6. SubSeq(<<"report">>, 1, 0) = <<>> /\ SubSeq(<<"shared">>, 1, 0) = <<>>
  BY <1>2, <1>3, Zenon
<1>7. 1 - 1 = 0 /\ 2 - 1 = 1
  OBVIOUS
<1> QED
  BY <1>1, <1>4, <1>5, <1>6, <1>7, Zenon

LEMMA Registered ==
  /\ Append(<<>>, "shared") = <<"shared">>
  /\ Append(<<"report">>, "shared") = <<"report", "shared">>
<1> DEFINE S == {"report", "shared"}
           a == Append(<<>>, "shared")
           b == Append(<<"report">>, "shared")
           one == <<"shared">>
           two == <<"report", "shared">>
<1>1. /\ a \in Seq(S) /\ one \in Seq(S) /\ Len(a) = 1 /\ Len(one) = 1
      /\ a[1] = "shared" /\ one[1] = "shared"
  OBVIOUS
<1>2. /\ b \in Seq(S) /\ two \in Seq(S) /\ Len(b) = 2 /\ Len(two) = 2
      /\ b[1] = "report" /\ b[2] = "shared"
      /\ two[1] = "report" /\ two[2] = "shared"
  OBVIOUS
<1> HIDE DEF S, a, b, one, two
<1>3. a = one
  BY <1>1, SeqEqual
<1>4. b = two
  BY <1>2, SeqEqual
<1> QED
  BY <1>3, <1>4 DEF a, b, one, two

LEMMA StacksDiffer ==
  /\ <<"report">> # <<>> /\ <<"shared">> # <<>> /\ <<"report", "shared">> # <<>>
  /\ <<"report">> # <<"shared">>
  /\ <<"report", "shared">> # <<"report">> /\ <<"report", "shared">> # <<"shared">>
OBVIOUS

LEMMA CleanupsStep == CleanupsKnown /\ [Next]_vars => CleanupsKnown'
<1> SUFFICES ASSUME CleanupsKnown, [Next]_vars PROVE CleanupsKnown'
  OBVIOUS
<1>1. CASE UNCHANGED <<registrar, cleanups>> /\ (parent' = "loop" => parent = "loop")
  BY <1>1 DEF CleanupsKnown, ReportPending
<1>2. CASE ParentReturn
  BY <1>2, StacksDiffer DEF ParentReturn, CleanupsKnown, ReportPending
<1>3. CASE RegisterSharedCleanup
  <2>1. /\ cleanups \in {<<>>, <<"report">>} /\ registrar' = "registered"
        /\ parent' # "loop"
    BY <1>3 DEF RegisterSharedCleanup, CleanupsKnown
  <2>2. Append(<<>>, "shared") = <<"shared">>
        /\ Append(<<"report">>, "shared") = <<"report", "shared">>
    BY Registered
  <2>3. cleanups' \in {<<"shared">>, <<"report", "shared">>}
    BY <1>3, <2>1, <2>2 DEF RegisterSharedCleanup
  <2> QED
    BY <2>1, <2>3 DEF CleanupsKnown, ReportPending
<1>4. CASE PrintReport \/ CleanupShared
  <2>1. cleanups # <<>> /\ Pop /\ registrar' = registrar /\ parent' # "loop"
    BY <1>4 DEF PrintReport, CleanupShared
  <2>2. cleanups \in {<<"report">>, <<"shared">>, <<"report", "shared">>}
    BY <2>1 DEF CleanupsKnown, ReportPending
  <2>3. cleanups' \in {<<>>, <<"report">>}
    BY <2>1, <2>2, Popped DEF Pop
  <2> QED
    BY <2>1, <2>3 DEF CleanupsKnown, ReportPending
<1> QED
  BY <1>1, <1>2, <1>3, <1>4
  DEF Next, Subtest, SharedSection, Start, Prepare, LockShared, BecomeCreator,
      TakeShared, ValidateBranch, UseExistingCatalog, CreateShared, ImportShared,
      SetUp, RunTest,
      LockResults, SkipResults, AppendResult, Exit, Parent, CreateSubtest,
      StartCleanups, ParentEnd, Terminated, vars, parentVars

(* What PrintReport and CleanupShared pop.                                 *)
LEMMA PopsReport ==
  ASSUME CleanupsKnown, PrintReport
  PROVE  cleanups = <<"report">> /\ cleanups' = <<>>
<1>1. /\ cleanups # <<>> /\ cleanups[Len(cleanups)] = "report"
      /\ cleanups' = SubSeq(cleanups, 1, Len(cleanups) - 1)
  BY DEF PrintReport, Top, Pop
<1>2. cleanups \in {<<"report">>, <<"shared">>, <<"report", "shared">>}
  BY <1>1 DEF CleanupsKnown, ReportPending
<1>3. cleanups = <<"report">>
  BY <1>1, <1>2, Popped
<1> QED
  BY <1>1, <1>3, Popped

LEMMA PopsShared ==
  ASSUME CleanupsKnown, CleanupShared
  PROVE  ReportPending <=> ReportPending'
<1>1. /\ cleanups # <<>> /\ cleanups[Len(cleanups)] = "shared"
      /\ cleanups' = SubSeq(cleanups, 1, Len(cleanups) - 1)
  BY DEF CleanupShared, Top, Pop
<1>2. cleanups \in {<<"report">>, <<"shared">>, <<"report", "shared">>}
  BY <1>1 DEF CleanupsKnown, ReportPending
<1>3. cleanups \in {<<"shared">>, <<"report", "shared">>}
  BY <1>1, <1>2, Popped
<1>4. CASE cleanups = <<"shared">>
  <2>1. cleanups' = <<>>
    BY <1>1, <1>4, Popped
  <2> QED
    BY <1>4, <2>1, StacksDiffer DEF ReportPending
<1>5. CASE cleanups = <<"report", "shared">>
  <2>1. cleanups' = <<"report">>
    BY <1>1, <1>5, Popped
  <2> QED
    BY <1>5, <2>1 DEF ReportPending
<1> QED
  BY <1>3, <1>4, <1>5

LEMMA OverStep ==
  TypeOK /\ CleanupsKnown /\ OverInv /\ [Next]_vars => OverInv'
<1> SUFFICES ASSUME TypeOK, CleanupsKnown, OverInv, [Next]_vars PROVE OverInv'
  OBVIOUS
<1>0. pc \in [Tests -> Places] /\ printed \in Seq(Nat) /\ Len(report.results) \in Nat
  BY DEF TypeOK, Reports
<1>1. ASSUME NEW t \in Tests, Subtest(t) \/ CreateSubtest(t) PROVE OverInv'
  <2>1. UNCHANGED parentVars /\ (pc[t] # "ended" \/ parent \notin {"cleanup", "done"})
    BY <1>1, QuietStep
    DEF Quiet, LockResults, AppendResult, Exit, CreateSubtest
  <2>2. parent \notin {"cleanup", "done"}
    BY <2>1 DEF OverInv
  <2>3. collects' = collects
    BY <1>1, QuietStep DEF Quiet, LockResults, AppendResult, Exit, CreateSubtest, wgVars
  <2> QED
    BY <2>1, <2>2, <2>3 DEF OverInv, parentVars, ReportPending
<1>2. CASE ParentReturn
  BY <1>2 DEF ParentReturn, OverInv, ReportPending, reportVars, wgVars
<1>3. CASE StartCleanups
  BY <1>3 DEF StartCleanups, OverInv, ReportPending, reportVars, wgVars
<1>4. CASE PrintReport
  <2>1. ReportPending /\ ~ReportPending'
    BY <1>4, PopsReport, StacksDiffer DEF ReportPending
  <2>2. printed = <<>>
    BY <2>1 DEF OverInv
  <2>3. printed' = <<Len(report.results)>>
    BY <1>4, <2>2 DEF PrintReport
  <2>4. parentFailed' = (parentFailed \/ report.failed > 0)
    BY <1>4 DEF PrintReport, Errorf
  <2>5. UNCHANGED <<pc, failed, report, collects, parent>> /\ parent = "cleanup"
    BY <1>4 DEF PrintReport, reportVars, wgVars
  <2> QED
    BY <2>1, <2>3, <2>4, <2>5 DEF OverInv
<1>5. CASE CleanupShared
  <2>1. ReportPending <=> ReportPending'
    BY <1>5, PopsShared
  <2>2. UNCHANGED <<pc, failed, report, collects, parent, printed>>
    BY <1>5 DEF CleanupShared, reportVars, wgVars
  <2>3. parentFailed => parentFailed'
    BY <1>5 DEF CleanupShared
  <2> QED
    BY <2>1, <2>2, <2>3 DEF OverInv
<1>6. CASE ParentEnd
  <2>1. ~ReportPending /\ ~ReportPending'
    BY <1>6, StacksDiffer DEF ParentEnd, ReportPending
  <2>2. UNCHANGED <<pc, failed, report, collects, printed, parentFailed>>
        /\ parent = "cleanup" /\ parent' = "done"
    BY <1>6 DEF ParentEnd, reportVars, wgVars
  <2> QED
    BY <2>1, <2>2 DEF OverInv
<1>7. CASE RegisterSharedCleanup
  <2>1. cleanups \in {<<>>, <<"report">>} /\ cleanups' = Append(cleanups, "shared")
        /\ registrar = "started"
    BY <1>7 DEF RegisterSharedCleanup, CleanupsKnown
  <2>2. Append(<<>>, "shared") = <<"shared">>
        /\ Append(<<"report">>, "shared") = <<"report", "shared">>
    BY Registered
  <2>3. ReportPending <=> ReportPending'
    BY <2>1, <2>2, StacksDiffer DEF ReportPending
  <2>4. UNCHANGED <<pc, failed, report, collects, parent, printed, parentFailed>>
    BY <1>7 DEF RegisterSharedCleanup, reportVars, wgVars
  <2> QED
    BY <2>3, <2>4 DEF OverInv
<1>8. CASE UNCHANGED vars
  BY <1>8 DEF OverInv, ReportPending, vars, reportVars, wgVars, parentVars
<1> QED
  BY <1>1, <1>2, <1>3, <1>4, <1>5, <1>6, <1>7, <1>8 DEF Next, Parent, Terminated

LEMMA AlwaysEndInv == Spec => []EndInv
<1>1. Init => EndInv
  <2> SUFFICES ASSUME Init PROVE EndInv
    OBVIOUS
  <2>1. ErrorsCounted
    BY DEF Init, ErrorsCounted
  <2>2. Alive = {} /\ Cardinality({}) = 0
    BY FS_EmptySet DEF Init, Alive
  <2>3. WaitGroupExact
    BY <2>2 DEF Init, WaitGroupExact
  <2>4. CleanupsKnown
    BY DEF Init, CleanupsKnown, ReportPending
  <2>5. OverInv
    BY DEF Init, OverInv, ReportPending
  <2> QED
    BY <2>1, <2>3, <2>4, <2>5 DEF EndInv
<1>2. TypeOK /\ ReportInv /\ EndInv /\ [Next]_vars => EndInv'
  BY ErrorsCountedStep, WaitGroupStep, CleanupsStep, OverStep DEF EndInv
<1> QED
  BY <1>1, <1>2, TypeCorrect, AlwaysReportInv, PTL DEF Spec

(* The report is printed at most once, with every result that is ever      *)
(* collected, and nothing is left for its clean-up to wait for.            *)
THEOREM PrintedOnceAndFinal == Spec => []PrintedReportFinal
<1>1. EndInv => PrintedReportFinal
  <2> SUFFICES ASSUME EndInv, printed # <<>> PROVE PrintedReportFinal
    BY DEF PrintedReportFinal
  <2>1. \A t \in Tests : pc[t] = "ended"
    BY DEF EndInv, OverInv
  <2>2. Alive = {} /\ Cardinality({}) = 0
    BY <2>1, FS_EmptySet DEF Alive
  <2> QED
    BY <2>2 DEF EndInv, OverInv, WaitGroupExact, PrintedReportFinal
<1> QED
  BY <1>1, AlwaysEndInv, PTL

(* A matrix that collects results fails when one of its test cases ended   *)
(* in an error or in a failure.                                            *)
THEOREM FailuresPropagate == Spec => []FailuresFailTheParent
<1>1. EndInv => FailuresFailTheParent
  BY DEF EndInv, OverInv, ErrorsCounted, FailuresFailTheParent
<1> QED
  BY <1>1, AlwaysEndInv, PTL

-----------------------------------------------------------------------------
(* The shared catalog as SharedResource describes it.  Until the creator   *)
(* has asked for it nobody has a catalog at all, and it is there until the *)
(* clean-ups start.                                                        *)
ResourceInv ==
  /\ shared = NoTest => \A u \in Tests : catalog[u] = NoTest
  /\ \A t \in Tests : pc[t] \in {"validate", "create"} =>
                        \A u \in Tests : catalog[u] = NoTest
  /\ SharedCatalog # NoTest /\ parent \in {"loop", "returned"} =>
       SharedCatalog \in cloud

LEMMA ResourceStep ==
  TypeOK /\ LockInv /\ SharingInv /\ ResourceInv /\ [Next]_vars => ResourceInv'
<1> SUFFICES ASSUME TypeOK, LockInv, SharingInv, ResourceInv, [Next]_vars
             PROVE  ResourceInv'
  OBVIOUS
<1>0. /\ pc \in [Tests -> Places]
      /\ catalog \in [Tests -> Tests \cup {NoTest}]
      /\ shared \in Tests \cup {NoTest}
      /\ cloud \subseteq Tests
      /\ parent \in {"loop", "returned", "cleanup", "done"}
  BY DEF TypeOK
<1> USE <1>0, NoTestAssumption
    DEF ResourceInv, SharedCatalog, subtestVars, parentVars, Goto, FailNow
<1>1. ASSUME NEW t \in Tests, CreateSubtest(t) PROVE ResourceInv'
  BY <1>1 DEF CreateSubtest
<1>2. ASSUME NEW t \in Tests, Start(t) PROVE ResourceInv'
  BY <1>2 DEF Start
<1>3. ASSUME NEW t \in Tests, Prepare(t) PROVE ResourceInv'
  BY <1>3 DEF Prepare
<1>4. ASSUME NEW t \in Tests, LockShared(t) PROVE ResourceInv'
  BY <1>4 DEF LockShared
<1>5. ASSUME NEW t \in Tests, RunTest(t) PROVE ResourceInv'
  BY <1>5 DEF RunTest, Return
<1>6. ASSUME NEW t \in Tests, LockResults(t) PROVE ResourceInv'
  BY <1>6 DEF LockResults
<1>7. ASSUME NEW t \in Tests, SkipResults(t) PROVE ResourceInv'
  BY <1>7 DEF SkipResults
<1>8. ASSUME NEW t \in Tests, AppendResult(t) PROVE ResourceInv'
  BY <1>8 DEF AppendResult
<1>9. ASSUME NEW t \in Tests, Exit(t) PROVE ResourceInv'
  BY <1>9 DEF Exit
<1>10. ASSUME NEW t \in Tests, BecomeCreator(t) PROVE ResourceInv'
  BY <1>10 DEF BecomeCreator
<1>11. ASSUME NEW t \in Tests, TakeShared(t) PROVE ResourceInv'
  BY <1>11 DEF TakeShared, LockInv, Section, SharingInv, CatalogInv, Fresh
<1>12. ASSUME NEW t \in Tests, ValidateBranch(t) PROVE ResourceInv'
  BY <1>12 DEF ValidateBranch
<1>13. ASSUME NEW t \in Tests, CreateShared(t) PROVE ResourceInv'
  <2>1. /\ shared = t /\ shared' = t /\ pc[t] = "create" /\ sharedMutex = t
        /\ UNCHANGED parent
    BY <1>13 DEF CreateShared, LockInv, Section, SharingInv, CatalogInv
  <2>2. /\ \/ catalog' = [catalog EXCEPT ![t] = t] /\ cloud' = cloud \cup {t}
           \/ UNCHANGED <<catalog, cloud>>
        /\ \E place \in {"import", "exit"} : pc' = [pc EXCEPT ![t] = place]
    BY <1>13 DEF CreateShared
  <2>3. \A u \in Tests : pc'[u] \notin {"validate", "create"}
    <3>1. \A u \in Tests \ {t} : pc[u] \notin {"validate", "create"}
      BY <2>1 DEF LockInv, Section
    <3> QED
      BY <2>2, <3>1
  <2> QED
    BY <2>1, <2>2, <2>3
<1>14. ASSUME NEW t \in Tests, ImportShared(t) PROVE ResourceInv'
  BY <1>14 DEF ImportShared
<1>15. ASSUME NEW t \in Tests, SetUp(t) PROVE ResourceInv'
  <2>1. /\ pc[t] = "setup" /\ UNCHANGED <<shared, parent>>
        /\ \E place \in {"run", "collect"} : pc' = [pc EXCEPT ![t] = place]
        /\ \/ UNCHANGED <<catalog, cloud>>
           \/ /\ t \in existing
              /\ catalog' = [catalog EXCEPT ![t] = NoTest] /\ cloud' = cloud
           \/ /\ t \notin existing /\ catalog[t] = NoTest
              /\ catalog' = [catalog EXCEPT ![t] = t] /\ cloud' = cloud \cup {t}
    BY <1>15, SetUpDoes
  <2>2. /\ shared # NoTest /\ pc[shared] \notin {"validate", "create"}
        /\ catalog[t] = catalog[shared]
        /\ t = shared => catalog[t] # NoTest \/ t \in existing
        /\ shared \in existing => catalog[shared] = NoTest
    BY <2>1 DEF SharingInv, CatalogInv
  <2>3. \A u \in Tests : pc[u] \in {"validate", "create"} => shared = u
    BY DEF SharingInv, CatalogInv
  <2>4. \A u \in Tests : pc'[u] \notin {"validate", "create"}
    BY <2>1, <2>2, <2>3
  <2>5. CASE UNCHANGED <<catalog, cloud>>
    BY <2>1, <2>2, <2>4, <2>5
  <2>6. CASE t \in existing /\ catalog' = [catalog EXCEPT ![t] = NoTest] /\ cloud' = cloud
    BY <2>1, <2>2, <2>4, <2>6
  <2>7. CASE /\ t \notin existing /\ catalog[t] = NoTest
             /\ catalog' = [catalog EXCEPT ![t] = t] /\ cloud' = cloud \cup {t}
    BY <2>1, <2>2, <2>4, <2>7
  <2> QED
    BY <2>1, <2>5, <2>6, <2>7
<1>16. CASE UNCHANGED <<pc, catalog, shared, cloud>> /\ parent = "loop"
  BY <1>16
<1>17. CASE UNCHANGED <<pc, catalog, shared, cloud, parent>>
  BY <1>17
<1>18. CASE StartCleanups
  BY <1>18 DEF StartCleanups
<1>19. CASE CleanupShared
  BY <1>19 DEF CleanupShared
<1>20. CASE ParentEnd
  BY <1>20 DEF ParentEnd
<1>21. ASSUME NEW t \in Tests, UseExistingCatalog(t) PROVE ResourceInv'
  BY <1>21 DEF UseExistingCatalog
<1> QED
  BY <1>1, <1>2, <1>3, <1>4, <1>5, <1>6, <1>7, <1>8, <1>9, <1>10,
     <1>11, <1>12, <1>13, <1>14, <1>15, <1>16, <1>17, <1>18, <1>19, <1>20,
     <1>21
  DEF Next, Subtest, SharedSection, Parent, ParentReturn, RegisterSharedCleanup,
      PrintReport, Terminated, vars

(* A step that moves no catalog and ends no subtest does nothing to the    *)
(* shared resource.                                                        *)
LEMMA Stutter ==
  ASSUME UNCHANGED <<catalog, shared, cloud>>,
         \A t \in Tests : pc'[t] = "ended" <=> pc[t] = "ended"
  PROVE  UNCHANGED Resource!vars
BY DEF Resource!vars, SharedStatus, SharedUsers, SharedCatalog

LEMMA RefinesStep ==
  TypeOK /\ LockInv /\ SharingInv /\ ResourceInv /\ OverInv /\ [Next]_vars
    => [Resource!Next]_(Resource!vars)
<1> SUFFICES ASSUME TypeOK, LockInv, SharingInv, ResourceInv, OverInv, [Next]_vars
             PROVE  [Resource!Next]_(Resource!vars)
  OBVIOUS
<1>0. /\ pc \in [Tests -> Places]
      /\ catalog \in [Tests -> Tests \cup {NoTest}]
      /\ shared \in Tests \cup {NoTest}
      /\ cloud \subseteq Tests
  BY DEF TypeOK
<1> USE <1>0, NoTestAssumption
<1>1. ASSUME NEW t \in Tests,
             \/ CreateSubtest(t) \/ Start(t) \/ Prepare(t) \/ LockShared(t)
             \/ ValidateBranch(t) \/ UseExistingCatalog(t)
             \/ ImportShared(t) \/ RunTest(t)
             \/ LockResults(t) \/ SkipResults(t) \/ AppendResult(t)
      PROVE  UNCHANGED Resource!vars
  <2>1. UNCHANGED <<catalog, shared, cloud>>
    BY <1>1
    DEF CreateSubtest, Start, Prepare, LockShared, ValidateBranch,
        UseExistingCatalog, ImportShared,
        RunTest, LockResults, SkipResults, AppendResult, subtestVars
  <2>2. /\ pc[t] # "ended"
        /\ \E place : place # "ended" /\ pc' = [pc EXCEPT ![t] = place]
    BY <1>1
    DEF CreateSubtest, Start, Prepare, LockShared, ValidateBranch,
        UseExistingCatalog, ImportShared,
        RunTest, Return, LockResults, SkipResults, AppendResult, Goto, FailNow
  <2> QED
    BY <2>1, <2>2, Stutter
<1>2. ASSUME NEW t \in Tests, BecomeCreator(t) PROVE UNCHANGED Resource!vars
  <2>1. /\ pc' = [pc EXCEPT ![t] = "validate"] /\ UNCHANGED <<catalog, cloud>>
        /\ shared = NoTest /\ shared' = t /\ catalog[t] = NoTest
    BY <1>2 DEF BecomeCreator, Goto, ResourceInv
  <2>2. SharedCatalog = NoTest /\ SharedCatalog' = NoTest
    BY <2>1 DEF SharedCatalog
  <2> QED
    BY <2>2 DEF Resource!vars, SharedStatus, SharedUsers
<1>3. ASSUME NEW t \in Tests, TakeShared(t)
      PROVE  Resource!Join(t) \/ UNCHANGED Resource!vars
  <2>1. /\ pc[t] = "section" /\ pc' = [pc EXCEPT ![t] = "setup"]
        /\ shared # NoTest /\ catalog' = [catalog EXCEPT ![t] = catalog[shared]]
        /\ UNCHANGED <<shared, cloud>>
    BY <1>3 DEF TakeShared, Goto
  <2>2. shared # t
    BY <2>1 DEF SharingInv, CatalogInv, Fresh
  <2>3. SharedCatalog' = SharedCatalog /\ SharedCatalog = catalog[shared]
    BY <2>1, <2>2 DEF SharedCatalog
  <2>4. CASE SharedCatalog = NoTest
    BY <2>3, <2>4 DEF Resource!vars, SharedStatus, SharedUsers
  <2>5. CASE SharedCatalog # NoTest
    <3>1. parent \in {"loop", "returned"}
      BY <2>1 DEF OverInv, TypeOK
    <3>2. SharedCatalog \in cloud
      BY <2>5, <3>1 DEF ResourceInv
    <3>3. SharedStatus = "live" /\ SharedStatus' = "live"
      BY <2>1, <2>3, <2>5, <3>2 DEF SharedStatus
    <3>4. SharedUsers' = SharedUsers \cup {t}
      BY <2>1, <2>3, <2>5 DEF SharedUsers
    <3> QED
      BY <3>3, <3>4 DEF Resource!Join
  <2> QED
    BY <2>4, <2>5
<1>4. ASSUME NEW t \in Tests, CreateShared(t)
      PROVE  Resource!Create(t) \/ UNCHANGED Resource!vars
  <2>1. /\ shared = t /\ shared' = t /\ pc[t] = "create"
        /\ \A u \in Tests : catalog[u] = NoTest
    BY <1>4 DEF CreateShared, SharingInv, CatalogInv, ResourceInv
  <2>2. /\ \E place : place # "ended" /\ pc' = [pc EXCEPT ![t] = place]
        /\ \/ catalog' = [catalog EXCEPT ![t] = t] /\ cloud' = cloud \cup {t}
           \/ UNCHANGED <<catalog, cloud>>
    BY <1>4 DEF CreateShared, Goto, FailNow
  <2>3. CASE UNCHANGED <<catalog, cloud>>
    BY <2>1, <2>2, <2>3, Stutter
  <2>4. CASE catalog' = [catalog EXCEPT ![t] = t] /\ cloud' = cloud \cup {t}
    <3>1. SharedCatalog = NoTest /\ SharedCatalog' = t /\ t # NoTest
      BY <2>1, <2>4 DEF SharedCatalog
    <3>2. SharedStatus = "absent" /\ SharedStatus' = "live"
      BY <2>4, <3>1 DEF SharedStatus
    <3>3. SharedUsers' = {t}
      BY <2>1, <2>2, <2>4, <3>1 DEF SharedUsers
    <3> QED
      BY <3>2, <3>3 DEF Resource!Create
  <2> QED
    BY <2>2, <2>3, <2>4
<1>5. ASSUME NEW t \in Tests, SetUp(t)
      PROVE  Resource!Leave(t) \/ UNCHANGED Resource!vars
  <2>1. /\ UNCHANGED shared /\ pc[t] = "setup"
        /\ \E place : place # "ended" /\ pc' = [pc EXCEPT ![t] = place]
        /\ \/ UNCHANGED <<catalog, cloud>>
           \/ /\ t \in existing
              /\ catalog' = [catalog EXCEPT ![t] = NoTest] /\ cloud' = cloud
           \/ /\ t \notin existing /\ catalog[t] = NoTest
              /\ catalog' = [catalog EXCEPT ![t] = t] /\ cloud' = cloud \cup {t}
    BY <1>5, SetUpDoes
  <2>2. CASE UNCHANGED <<catalog, cloud>>
    BY <2>1, <2>2, Stutter
  <2>3. CASE /\ t \in existing
             /\ catalog' = [catalog EXCEPT ![t] = NoTest] /\ cloud' = cloud
    <3>1. /\ shared # NoTest /\ catalog[t] = catalog[shared]
          /\ shared = t => catalog[shared] = NoTest
      BY <2>1, <2>3 DEF SharingInv, CatalogInv
    <3>2. SharedCatalog' = SharedCatalog
      BY <2>1, <2>3, <3>1 DEF SharedCatalog
    <3>3. SharedStatus' = SharedStatus
      BY <2>3, <3>2 DEF SharedStatus
    <3>4. CASE SharedCatalog = NoTest
      BY <3>2, <3>3, <3>4 DEF Resource!vars, SharedUsers
    <3>5. CASE SharedCatalog # NoTest
      <4>1. SharedUsers' = SharedUsers \ {t}
        BY <2>1, <2>3, <3>2, <3>5 DEF SharedUsers
      <4> QED
        BY <3>3, <4>1 DEF Resource!Leave, Resource!vars
    <3> QED
      BY <3>4, <3>5
  <2>4. CASE /\ t \notin existing /\ catalog[t] = NoTest
             /\ catalog' = [catalog EXCEPT ![t] = t] /\ cloud' = cloud \cup {t}
    <3>1. shared # NoTest /\ t # shared /\ catalog[shared] = NoTest
      BY <2>1, <2>4 DEF SharingInv, CatalogInv
    <3>2. SharedCatalog = NoTest /\ SharedCatalog' = NoTest
      BY <2>1, <2>4, <3>1 DEF SharedCatalog
    <3> QED
      BY <3>2 DEF Resource!vars, SharedStatus, SharedUsers
  <2> QED
    BY <2>1, <2>2, <2>3, <2>4
<1>6. ASSUME NEW t \in Tests, Exit(t)
      PROVE  Resource!Leave(t) \/ UNCHANGED Resource!vars
  <2>1. /\ pc[t] = "exit" /\ pc' = [pc EXCEPT ![t] = "ended"]
        /\ UNCHANGED <<catalog, shared, cloud>>
    BY <1>6 DEF Exit, Goto, subtestVars
  <2>2. SharedCatalog' = SharedCatalog /\ SharedStatus' = SharedStatus
    BY <2>1 DEF SharedCatalog, SharedStatus
  <2>3. SharedUsers' = SharedUsers \ {t}
    BY <2>1, <2>2 DEF SharedUsers
  <2> QED
    BY <2>2, <2>3 DEF Resource!Leave, Resource!vars
<1>7. CASE CleanupShared
  <2>1. /\ UNCHANGED <<pc, catalog, shared>>
        /\ cloud' = cloud \/ cloud' = cloud \ {SharedCatalog}
        /\ \A t \in Tests : pc[t] = "ended"
    BY <1>7 DEF CleanupShared, OverInv
  <2>2. SharedCatalog' = SharedCatalog /\ SharedUsers = {} /\ SharedUsers' = {}
    BY <2>1 DEF SharedCatalog, SharedUsers
  <2>3. CASE SharedStatus = "live"
    <3>1. SharedStatus' \in {"live", "deleted"}
      BY <2>1, <2>2, <2>3 DEF SharedStatus
    <3> QED
      BY <2>2, <2>3, <3>1 DEF Resource!Next, Resource!Delete, Resource!vars
  <2>4. CASE SharedStatus # "live"
    <3>1. SharedStatus' = SharedStatus
      BY <2>1, <2>2, <2>4 DEF SharedStatus
    <3> QED
      BY <2>2, <3>1 DEF Resource!vars
  <2> QED
    BY <2>3, <2>4
<1>8. CASE UNCHANGED <<pc, catalog, shared, cloud>>
  BY <1>8, Stutter
<1> QED
  BY <1>1, <1>2, <1>3, <1>4, <1>5, <1>6, <1>7, <1>8
  DEF Next, Subtest, SharedSection, Parent, ParentReturn, RegisterSharedCleanup,
      StartCleanups, PrintReport, ParentEnd, Terminated, vars, subtestVars, Resource!Next

(* The runner implements SharedResource: for any number of test cases, the *)
(* shared catalog is created once, taken only while it exists, and deleted *)
(* only after everyone who took it is over.                                *)
THEOREM RunnerSharesCatalog == Spec => ImplementsSharedResource
<1>1. Init => Resource!Init
  BY NoTestAssumption
  DEF Init, Resource!Init, SharedStatus, SharedUsers, SharedCatalog
<1>2. Init => LockInv /\ SharingInv /\ ResourceInv
  BY NoTestAssumption, InputsAssumption
  DEF Init, LockInv, Section, SharingInv, CatalogInv, NoSecondCatalog, SharedCatalog,
      Fresh, ResourceInv
<1>3. EndInv => OverInv
  BY DEF EndInv
<1> QED
  BY <1>1, <1>2, <1>3, LockStep, SharingStep, ResourceStep, RefinesStep, TypeCorrect,
     AlwaysEndInv, PTL
  DEF Spec, ImplementsSharedResource, Resource!Spec
=============================================================================
