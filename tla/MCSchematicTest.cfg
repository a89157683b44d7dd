CONSTANTS MaxRetries = 2
JobTimeout = 1
SPECIFICATION SchematicSpec
INVARIANTS PassLeavesNoResources WorkspaceOutlivesResources PassChecksTheBranch
PROPERTY TestEnds
CHECK_DEADLOCK FALSE
