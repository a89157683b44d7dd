\* Two members, a service that always answers; two sleeps are beyond the interval.
CONSTANTS
  N = 2
  Containers = {1}
  AutoSync = {TRUE}
  Interval = 1
  CallReplies = {"ok"}
  TriggerReplies = {"ok"}
  Blips = {}
SPECIFICATION SSpec
PROPERTY SyncsOnlyStuckMembers
CHECK_DEADLOCK FALSE
