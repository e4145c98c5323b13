CONSTANTS
    PageSz = 2
    Span = 8
    UserPages = {2, 3}
    HeapStart = 10
    RamEnd = 46
    StackTop = 50
    StackPages = 2
    MaxSize = 3
    MaxAllocs = 2
    MaxLoads = 2
    MaxExecs = 2
SPECIFICATION Spec
CHECK_DEADLOCK FALSE
INVARIANTS ImageInPlace OneOwner
