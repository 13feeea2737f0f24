SPECIFICATION Spec
CONSTANTS
    Nodes <- MCNodes
    ListNames = {"processList", "sleepList"}
    LEN = 4
    Data = {0, 1, 2}
    Zero = 0
    RELOAD = 5
    LIMIT = 13
    POLL_GAP = 4
    MaxSlices = 3
    MaxReal = 40
    SECTOR_SIZE = 2
    SHORT_RANGE = 8
    LoaderSizes = {1, 2, 3, 4}
    KernelSizes = {1, 2, 3, 4, 5}
    BssSizes = {0, 1, 3}
    PROTECTED_START = 2
    SCREEN_START = 12
    SCREEN_END = 14
    PAGE_TABLE_START = 14
    PTABLE_BASE = 15
    IA32_START = 24
    IA32_END = 34
    PAGE_SIZE = 4
    PRESENT_PAGES = 9
    MAX_PAGES = 16
INVARIANTS ChainOK WholePeriodsLost KernelReady
PROPERTIES ImplementsLists ImplementsQueue
CHECK_DEADLOCK FALSE
