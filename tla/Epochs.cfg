CONSTANTS
    IdLimit = 8
    TimeLimit = 8
    Blocks <- MCBlocks
    EpochChains = {"evm"}
    EpochJobs = {j1, j2}
    EpochTxs = {t1, t2}
    UpdateWorkers = 1
    EpochCatchUp = {TRUE}
    EpochFaults = {"db", "rpc", "revert", "crash", "foreign"}
SPECIFICATION EpochsFairSpec
INVARIANTS
    EpochsTypeOK
    ProcessedIsApplied
    NoEpochDropped
PROPERTIES
    ReopenedOnlyByDuplicate
    EpochSettles
CHECK_DEADLOCK FALSE
