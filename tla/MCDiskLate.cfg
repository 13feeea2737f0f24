SPECIFICATION Spec
CONSTANTS
    PROCESS_MAXCOUNT = 4
    SLOT_TIME = 5
    QWORD_RANGE = 64
    Clients = {0, 3}
    Ops = {"read", "write"}
    SectorCounts = {2}
    WAIT_TICKS = 1
INVARIANTS ReportedSectorsOwn
