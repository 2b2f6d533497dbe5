CONSTANTS
    Contracts <- MCContracts
    Chain <- MCChain
    Vaults = {"v1"}
    Milestones = {"m1"}
    StartLedger = 1
    MaxRetries = 2
    Handlers = {h1, h2}
    MaxDisruptions = 1
SPECIFICATION MCFairSpec
INVARIANTS CheckpointFollowsCommit Accounted
PROPERTIES ProjectionImplemented EveryEventSettles
CHECK_DEADLOCK FALSE
