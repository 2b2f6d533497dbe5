CONSTANTS
    Requests = {1, 2, 3, 4}
    Keys = {"k1", "k2"}
    Bodies = {"b1", "b2"}
    KeyOf <- MCKeyOf
    BodyOf <- MCBodyOf
    Nobody = Nobody
    Calls = {x1, x2}
    Endpoints = 2
    FailureThreshold = 2
    SendAttempts = 2
    Vaults = {v1}
    Readers = {g1}
    Writers = {w1}
    Checks = {c1, c2}
    MaxRevision = 3
    Absent = Absent
    Overrides = {o1, o2}
    OverrideKeys = {"k1", "k2"}
SPECIFICATION FairSpec
INVARIANTS OneVaultPerKey SubmittedOnce StaleOnlyForAReason OversightAccounted
PROPERTY EveryRequestEnds
CHECK_DEADLOCK FALSE
