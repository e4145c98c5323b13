CONSTANTS
    Machines <- MCMachines
    DEVICES = 2
    FUNCTIONS = 2
    MAX_PCI_DEVICES = 5
    RING = 5
    Sizes = {1, 2}
    DESCRIPTORS = 4
    MaxRx = 5
    MaxTx = 5
SPECIFICATION NcSpec
CHECK_DEADLOCK FALSE
INVARIANTS FoundOnce DeliveredInOrder StrandedOnlyByAck FrameLostOnlyToFourth
PROPERTIES EnumerationEnds
