\* Three test cases, all at once, everything works but the addon test itself.
CONSTANTS
  t1 = t1
  t2 = t2
  t3 = t3
  Tests = {t1, t2, t3}
  NoTest = NoTest
  MaxParallel = 3
  CreateReplies = {"ok"}
  ImportReplies = {"ok"}
  DeleteReplies = {"ok"}
  Abrupt = {}
  Outcomes = {"pass", "error"}
  UseExisting = {{}}
SPECIFICATION FairSpec
INVARIANT ErrorsFailTheMatrix
CHECK_DEADLOCK FALSE
