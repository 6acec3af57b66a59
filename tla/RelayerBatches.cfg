CONSTANTS
    Deposits = {d1, d2}
    Handlers = {h1}
    Observers = {}
    Jobs = {j1, j2}
    TxIds = {t1, t2}
    NoDeposit = NoDeposit
    Workers = 2
    SubmitPoolSize = 1
    BatchSize = 2
    Retries = 2
    RecoveryAttempts = 1
    CatchUpFlag = {FALSE}
    Verified = TRUE
    Faults = {"crash", "rpc", "core", "foreign"}
SPECIFICATION Spec
SYMMETRY Symmetry
INVARIANTS
    OneContainer
    ReportedHashPaid
PROPERTIES
    SettledStaysSettled
