\* Three test cases, two at a time; CreateCatalog may fail.
CONSTANTS
  t1 = t1
  t2 = t2
  t3 = t3
  Tests = {t1, t2, t3}
  NoTest = NoTest
  MaxParallel = 2
  CreateReplies = {"ok", "err"}
  ImportReplies = {"ok"}
  DeleteReplies = {"ok"}
  Abrupt = {}
  Outcomes = {"pass"}
  UseExisting = {{}}
SPECIFICATION FairSpec
INVARIANT OneCatalogForAll
CHECK_DEADLOCK FALSE
