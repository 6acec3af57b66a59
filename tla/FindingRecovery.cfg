CONSTANTS
    Deposits = {d1}
    Handlers = {h1}
    Observers = {}
    Jobs = {j1}
    TxIds = {t1}
    NoDeposit = NoDeposit
    Workers = 1
    SubmitPoolSize = 1
    BatchSize = 1
    Retries = 1
    RecoveryAttempts = 1
    CatchUpFlag = {FALSE}
    Verified = TRUE
    Faults = {"rpc"}
SPECIFICATION RSpec
INVARIANTS
    RecoveriesBounded
CHECK_DEADLOCK FALSE
