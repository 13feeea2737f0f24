SPECIFICATION Spec
CONSTANTS
    PROCESS_MAXCOUNT = 5
    SLOT_TIME = 5
    QWORD_RANGE = 64
    EXIT_QUEUE_COUNT = 2
    WAIT_TICKS = 1
    MaxReentry = 2
    CreateLimit = 6
    Millis <- MCMillis
    Rings = {TRUE, FALSE}
    Watched = {}
INVARIANTS OneHome NoProcessLost AllExpiredWoken LockHandedOver TrapStackIsOwn UserPagesOwned SlotInTable HangMeansFull SchedInv
PROPERTIES NoBarging WokenInTurn SleepsLongEnough SlotLifeCycle
