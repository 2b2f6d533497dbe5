CONSTANTS
    MaxObjects = 2
    MaxAttempts = {1, 2}
    Concurrency = 1
SPECIFICATION Spec
INVARIANT EveryEndIsRecorded
CHECK_DEADLOCK FALSE
