\* Two attempts of each retried call, every reply, every option, any panic.
CONSTANTS
  Attempts = 2
  Replies = {"ok", "lost", "transient", "final"}
  Panics = TRUE
SPECIFICATION FairSpec
INVARIANTS
  PassMeansDeployed
  GreenLeavesNoProject
PROPERTIES
  DeletesOnlyUndeployed
  FailedTestKeepsProject
  DeleteWaitsForPipelines
  Ends
