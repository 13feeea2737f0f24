SPECIFICATION Spec
CONSTANTS
    LINKS = 3
    LINK_SECTORS = 2
    CLUSTERS = 3
    MAX_FILECOUNT = 2
    ShortNames = {"", "a"}
    LongNames = {"long"}
    Texts = {"", "x"}
    Faults = TRUE
INVARIANTS FilesDisjoint FilesLinked SavedIsRead
VIEW TextsMatter
CHECK_DEADLOCK FALSE
