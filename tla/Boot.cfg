CONSTANTS
    MaxTasks = 1
    TICK_MOD = 16
    MaxTicks = 8
    SleepArgs = {0, 2}
SPECIFICATION BSpec
CHECK_DEADLOCK FALSE
PROPERTIES
    SleepReturns
