SPECIFICATION Spec
CONSTANTS
    s1 = s1
    d1 = d1
    TransferPlans <- MCPlans
    Threads = {t1, t2}
    Reqs = {r1, r2}
    Keys <- MCKeys
    Kinds = {"send", "whole", "warm"}
    Registrations <- MCRegs
    MaxCompleted = 1
    MaxCalls = 2
    MaxRegs = 1
    Encoders = {e1, e2}
    Transfers <- MCTransfers
    KeepKeys = 2
    MaxEncodes = 3
    MaxClears = 1
    Reps = {1, 2}
    EpSets <- MCEpSets
    ShardLists <- MCShardLists
    Attachments <- MCAttachments
    Waiters = {w1, w2}
    MaxEntityOps = 3
    PlanCases <- MCCases
    TileRows = 2
    TileCols = 2
    EntryLists <- MCLists
    Senders <- MCSenders
    MaxChunk = 3
INVARIANTS
    BroadcastExact
    CachesTrue
    RoutesTrue
    PlansExact
PROPERTIES
    WeightsEnd
CHECK_DEADLOCK FALSE
