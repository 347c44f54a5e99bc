SPECIFICATION Spec
CONSTANTS
    Sectors = 4
    Contents = {"a", "b"}
    None = None
    Depth = 3
    MaxChunk = 4
    Page = 4
    CidWidth = 6
    Ratios = {1, 2}
    MaxSectors = 3
    AnyAlignment = FALSE
    LateAnswers = FALSE
PROPERTIES
    IsDisk
VIEW View
CHECK_DEADLOCK FALSE
