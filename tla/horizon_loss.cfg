CONSTANTS
    Contracts = {"c1"}
    Chain <- MCChain
    Vaults = {"v1"}
    Milestones = {"m1"}
    StartLedger = 1
    MaxRetries = 2
    Handlers = {h1, h2}
    MaxDisruptions = 1
SPECIFICATION PSpec
INVARIANT AtLeastOnce
CHECK_DEADLOCK FALSE
