SPECIFICATION FairSpec
CONSTANTS
    PROCESS_MAXCOUNT = 4
    SLOT_TIME = 5
    QWORD_RANGE = 64
    QUEUE_COUNT = 3
    Workers = {3}
    Millis <- MCMillis
    MaxStrokes = 3
INVARIANTS NoMissedKey KeysInOrder
PROPERTIES KeysAreRead
