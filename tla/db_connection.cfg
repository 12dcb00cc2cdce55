SPECIFICATION FairSpec
CONSTANTS
    Reconciler = Reconciler
    Checks = {h}
    Pools <- MCPools
    dbMaxRetries = 2
    MaxFaults = 3
    NoPool = NoPool
INVARIANTS
    ConnectionInvariant
    WorkerHandleSet
    HandleOpenOrReplaced
    OnlyDroppedLeak
PROPERTIES
    PassesRecover
    SchemaFollowsConnect
