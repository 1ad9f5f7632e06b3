SPECIFICATION Spec
CONSTANTS
    Tasks = {t1, t2, t3, t4}
    MaxDelta = 2
    MaxAdds = 4
INVARIANTS
    Exclusion
    HandoverNeverBlocks
    SleepersAreListed
    SignalNeverBlocks
    CalledOnce
    ReturnsAfterCall
    ReadWriteExclusion
    WakingNeverBlocks
    DoneNeverBlocks
PROPERTIES
    LockGranted
    WokenRelocks
    DoReturns
    WritersGranted
    ReadersGranted
    WaitsUntilZero
    WaitReturns
CHECK_DEADLOCK FALSE
