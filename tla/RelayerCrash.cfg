CONSTANTS
    Deposits = {d1}
    Handlers = {h1}
    Observers = {}
    Jobs = {j1, j2}
    TxIds = {t1, t2}
    NoDeposit = NoDeposit
    Workers = 2
    SubmitPoolSize = 1
    BatchSize = 1
    Retries = 1
    RecoveryAttempts = 1
    CatchUpFlag = {TRUE}
    Verified = TRUE
    Faults = {"crash", "rpc", "config"}
SPECIFICATION Spec
SYMMETRY Symmetry
INVARIANTS
    ReportedIsPaid
    UnpaidIsHeld
