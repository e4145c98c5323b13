CONSTANTS
    KBD_BUF_SIZE = 3
    keymap <- MCkeymap
    ScanCodes = {224, 158, 30, 72}
    ReadLens = {0, 1, 5}
    MaxKeys = 4
    Keys = {224, 158, 30, 72}
    Reports <- MCReports
    Config = 97
    StartX = 2
    StartY = 2
    MaxX = 9
    MaxY = 3
    MaxReports = 2
    MaxEvents = 4
SPECIFICATION Ps2Spec
CHECK_DEADLOCK FALSE
INVARIANTS NoTypedKeyLost ConfigKept BytesInStep PointerFollows
PROPERTIES ImplementsFifo EveryKeyIsTaken
