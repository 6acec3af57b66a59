CONSTANTS
    Deposits = {d1}
    Handlers = {h1}
    Observers = {o1}
    Jobs = {j1, j2}
    TxIds = {t1, t2}
    NoDeposit = NoDeposit
    Workers = 2
    SubmitPoolSize = 1
    BatchSize = 1
    Retries = 2
    RecoveryAttempts = 1
    CatchUpFlag = {FALSE}
    Verified = TRUE
    Faults = {"rpc", "revert", "core", "foreign"}
SPECIFICATION Spec
SYMMETRY Symmetry
INVARIANTS
    TypeOK
    SettledIsPaid
    NoStrandedCache
    UnsettledIsHeld
PROPERTIES
    PromiseKept
