CONSTANTS
  Callers = {c1}
  Requests = {"us-east"}
  MaxCalls = 0
  NoRegion = NoRegion
  Lookups = {l1}
  Offerings = {o1}
  Versions = {v1}
  Constraints = {k1}
  Bypass = TRUE
  TTL = 1
  MaxTime = 0
  MaxLookups = 0
  NoOne = NoOne
  Testers = {t1}
  MaxCount = 0
  RegionNames = {"r1", "r2", "r3"}
  PrefsFiles <- MCPrefsFiles
  Outages = {{}, {"r3"}}
  Trackers = {{"r1"}}
  NoTester = NoTester
  DefaultRegion = "default"
  ChoiceTasks <- MCChoiceTasks
  AddonTasks <- MCAddonTasks
  InputContents = {"none", "__NULL__", "file", "text", "[1]", "{}", "7", "true", "key", "3", "2.5", "false", ""}
  MaxMessages = 0
SPECIFICATION Spec
INVARIANT TopmostOccurrenceDeployed
CHECK_DEADLOCK FALSE
