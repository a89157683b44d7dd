\* Two members; any call may fail, any reading may lack a state or a code.
CONSTANTS
  N = 2
  Containers = {1}
  AutoSync = {TRUE, FALSE}
  Interval = 0
  CallReplies = {"ok", "err"}
  TriggerReplies = {"ok", "sdk_err", "err"}
  Blips = {"state", "code"}
SPECIFICATION FairSpec
INVARIANTS
  DeploySound
  DeployFailureReal
  UndeploySound
PROPERTIES
  Returns
