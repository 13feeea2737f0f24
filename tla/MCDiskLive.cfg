SPECIFICATION FairSpec
CONSTANTS
    PROCESS_MAXCOUNT = 4
    SLOT_TIME = 5
    QWORD_RANGE = 64
    Clients = {0, 3}
    Ops = {"read", "write"}
    SectorCounts = {1}
    WAIT_TICKS = 1
PROPERTIES CallReturns
