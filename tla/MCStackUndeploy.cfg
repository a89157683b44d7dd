\* Two members, a service that always answers.
CONSTANTS
  N = 2
  Containers = {1}
  AutoSync = {FALSE}
  Interval = 0
  CallReplies = {"ok"}
  TriggerReplies = {"ok"}
  Blips = {}
SPECIFICATION FairSpec
INVARIANT UndeployWaitsForStack
CHECK_DEADLOCK FALSE
