SPECIFICATION ClientFairSpec
CONSTANTS
    Batches <- AllBatches
    NumKeys = 2
    WorkerCounts = {0, 1, 2, 3}
    Callers = {1, 2}
    CallBound = 2
    WordBits = 3
    ClientFaults = {"rpc", "revert", "replace", "foreign"}
    None = None
INVARIANTS
    ClientsTypeOK
    ClashWithinChild
    OkIsPaid
    OpenIffPayable
    VaultPanicsOnce
PROPERTIES
    CallReturns
CHECK_DEADLOCK FALSE
