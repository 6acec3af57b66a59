SPECIFICATION ClientSpec
CONSTANTS
    Batches <- ProofBatches
    NumKeys = 1
    WorkerCounts = {1}
    Callers = {1}
    CallBound = 2
    WordBits = 3
    ClientFaults = {}
    None = None
INVARIANTS
    WellFormedIsSent
CHECK_DEADLOCK FALSE
