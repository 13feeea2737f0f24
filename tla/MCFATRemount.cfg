SPECIFICATION Spec
CONSTANTS
    LINKS = 4
    LINK_SECTORS = 3
    CLUSTERS = 12
    MAX_FILECOUNT = 3
    ShortNames = {"a", "b", "c"}
    LongNames = {"long"}
    Texts = {"", "x"}
    Faults = FALSE
INVARIANTS NoSharedCluster
CHECK_DEADLOCK FALSE
