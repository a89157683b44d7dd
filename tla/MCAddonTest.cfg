\* Two attempts of each retried call, every reply, every option, any panic.
CONSTANTS
  Attempts = 2
  Replies = {"ok", "lost", "transient", "final"}
  Panics = TRUE
SPECIFICATION Spec
INVARIANTS
  PassMeansDeployed
  PassLeavesNoProject
  PassLeavesNoOwnCatalog
PROPERTIES
  DeletesOnlyUndeployed
  FailedTestKeepsProject
