\* Three test cases, two at a time; every reply, every way to end.
CONSTANTS
  t1 = t1
  t2 = t2
  t3 = t3
  Tests = {t1, t2, t3}
  NoTest = NoTest
  MaxParallel = 2
  CreateReplies = {"ok", "err", "incomplete"}
  ImportReplies = {"ok", "err"}
  DeleteReplies = {"ok", "err"}
  Abrupt = {"panic", "goexit"}
  Outcomes = {"pass", "failed", "error", "failed_nil"}
  UseExisting = {{}, {t1}}
SPECIFICATION FairSpec
INVARIANTS
  TypeOK
  SharedSectionExclusive
  NoSecondCatalog
  ReportConsistent
  PrintedReportFinal
  FailuresFailTheParent
PROPERTIES
  NoLostResult
  MatrixEnds
  ImplementsSharedResource
CHECK_DEADLOCK FALSE
