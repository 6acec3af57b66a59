CONSTANTS
    SenderSlots = {s1, s2}
    PoolWorkers = 1
    ChainPool = 1
    SubmitPool = 1
    CallBound = 2
    BadSections = {"chain", "retry", "core_connector", "tendermint_connector", "listeners",
                   "broadcaster", "observer", "block_delay", "recovery"}
SPECIFICATION LifecycleFairSpec
INVARIANTS
    LifecycleTypeOK
    ClosedIsQuiet
    PanicOnlyLate
PROPERTIES
    ShutdownReturns
    AcceptedIsTaken
CHECK_DEADLOCK FALSE
