SPECIFICATION FairSpec
CONSTANTS
    PROCESS_MAXCOUNT = 4
    SLOT_TIME = 5
    QWORD_RANGE = 64
    Millis = {5}
    MaxKeys = 1
    Strays = {12}
    CreateRings = {0, 3}
INVARIANTS Acknowledged RingThreeCannotHalt
PROPERTIES ContextsPrivate KeyReachesShell
