CONSTANTS
    Sectors = {s1, s2}
    MaxWrites = 3
SPECIFICATION FairSpec
INVARIANTS ReadReturnsSector FailedWriteHarmless StoredOnSuccess
PROPERTIES CallReturns
CHECK_DEADLOCK FALSE
