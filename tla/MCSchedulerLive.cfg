SPECIFICATION FairSpec
CONSTANTS
    PROCESS_MAXCOUNT = 5
    SLOT_TIME = 5
    QWORD_RANGE = 64
    EXIT_QUEUE_COUNT = 4
    WAIT_TICKS = 1
    MaxReentry = 1
    CreateLimit = 5
    Millis <- LiveMillis
    Rings = {FALSE}
    Watched = {0, 3}
PROPERTIES ReadyRuns SleeperReturns WaiterGetsLock ExitReclaimed
