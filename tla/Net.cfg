CONSTANTS
    Ips = {h1, h2, h3}
    Alive = {h1}
    AddMacs = {h1}
    BootIp = boot
    LocalIp = me
    ARP_TABLE_SIZE = 2
    ARP_QUEUE_SIZE = 2
    TICK_MOD = 2
    MaxPings = 3
SPECIFICATION FairSpec
INVARIANTS OneEntryPerAddress NoPacketLeftBehind PingInOnePlace
PROPERTIES QueuedIsSent
