CONSTANTS
    Exports = {e1}
    Processes = {p1, p2}
    MaxExportAttempts = 2
    Own = Own
    ExportCalls = {x1, x2}
    ExportServers = {1, 2}
    ExportKeys = {k1}
    Shapes = {1, 2}
    Limit = 1
    NoKey = NoKey
    Connections = {1, 2, 3}
    Ticks = {1, 2, 3}
    Replicas = {"r1", "r2"}
    PoolOf <- MCReplicaOf
    TimerOf <- MCReplicaOf
    MaxHolds = 3
    Pairs = {1, 2, 3}
    Refreshes = {r1, r2}
    Logouts = {l1}
    NoPair = NoPair
    Members = {m1, m2}
    Edits = {d1, d2}
    NoMember = NoMember
    MaxRows = 2
    Invites = {1}
    Tokens = 2
    Requests = {q1, q2}
    MaxOperations = 5
    TxOf <- MCTxOf
    Foreign = {4}
    BatchSize = 3
    EtlWorkers = {w1, w2}
    Clients = {c1, c2, c3}
    Tasks = {j1, j2}
    ChainVaults = {v1, v2}
    EventValues = {"scalar", "complete", "otherStatus", "partial"}
    Orgs = {"org1"}
    Global = "global"
    Targeted <- MCTargeted
    Servers = {1, 2}
    Lookups = {g1}
    Settings = {f1}
    Vaults = {1, 2, 3}
    Notices = {4}
    Walks = {l1}
    Limits = {1, 2}
    PerMs = 2
    LastListTime = 3
SPECIFICATION Spec
INVARIANTS ExportsAccounted AdmittedOnce NoOverlap ExchangedOnce InvitedOnce NothingBehindCursor
    CleanExit EndsAreShown CachedFlagIsCurrent ListedOnce
PROPERTY OwnerRemains
CHECK_DEADLOCK FALSE
