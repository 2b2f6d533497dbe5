\* Two objects are enough for two jobs that compete for one slot, and for a
\* second object that a forced retry creates while an older handler of the same
\* id is still running.  With one and two attempts a job ends before, in and
\* after its last one.  JobQueueProofs proves the invariants for every number.
CONSTANTS
    MaxObjects = 2
    MaxAttempts = {1, 2}
    Concurrency = 1
SPECIFICATION FairSpec
INVARIANTS Custody LimitsRespected
PROPERTY EveryJobEnds
CHECK_DEADLOCK FALSE
