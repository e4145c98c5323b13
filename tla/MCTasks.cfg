CONSTANTS
    MaxTasks = 3
    TICK_MOD = 16
    MaxTicks = 1
    SleepArgs = {0, 1}
SPECIFICATION Spec
CHECK_DEADLOCK FALSE
INVARIANTS
    RingOrder
    CurrentIsRunnable
    NotWokenEarly
    BoundedBypass
    HangOnlyWhenAllBlocked
PROPERTIES
    ZombieForever
