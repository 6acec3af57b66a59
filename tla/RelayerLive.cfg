CONSTANTS
    Deposits = {d1, d2}
    Handlers = {h1}
    Observers = {}
    Jobs = {j1, j2}
    TxIds = {t1, t2}
    NoDeposit = NoDeposit
    Workers = 1
    SubmitPoolSize = 1
    BatchSize = 1
    Retries = 1
    RecoveryAttempts = 1
    CatchUpFlag = {FALSE}
    Verified = TRUE
    Faults = {"rpc"}
SPECIFICATION FairSpec
PROPERTIES
    Settles
    ReportsEventually
CHECK_DEADLOCK FALSE
