CONSTANTS
  Callers = {c1, c2}
  Requests = {"us-east", "dev"}
  MaxCalls = 1
  NoRegion = NoRegion
  Lookups = {l1, l2}
  Offerings = {o1, o2}
  Versions = {v1}
  Constraints = {k1}
  Bypass = TRUE
  TTL = 1
  MaxTime = 2
  MaxLookups = 3
  NoOne = NoOne
  Testers = {t1, t2}
  MaxCount = 2
  RegionNames = {"r1", "r2", "r3"}
  PrefsFiles <- MCPrefsFiles
  Outages = {{}, {"r3"}}
  Trackers = {{"r1"}}
  NoTester = NoTester
  DefaultRegion = "default"
  ChoiceTasks <- MCChoiceTasks
  AddonTasks <- MCAddonTasks
  InputContents = {"none", "__NULL__", "file", "text", "[1]", "{}", "7", "true", "key", "3", "2.5", "false", ""}
  MaxMessages = 2
SPECIFICATION Spec
INVARIANTS ErrorsAreExhaustive OneTestPerRegion LoggerRight
INVARIANTS TerraformPassIsGenuine StateIsAtHand
INVARIANTS ChoicesRight AddonsRight TreesAndReportsRight
PROPERTIES NoRejectedTokenAgain AnswersAreRightAndFresh LookupsEnd
CHECK_DEADLOCK FALSE
