SPECIFICATION Spec
CONSTANTS
    MaxInodes = 3
    TotalBlocks = 4
    BitmapBits = 8
    DirectBlocks = 1
    PtrsPerBlock = 1
    DirentsPerBlock = 2
    MaxFds = 2
    FilePaths <- Files
    DirPaths <- Directories
    Values = {1}
    AsEntry <- Entries
    Counts = {1}
    MaxPosition = 2
    MaxCuts = 1
    WriteDirs = FALSE
    RemoveOpen = FALSE
    CutRemove = FALSE
INVARIANTS
    ReachableIsMarked
    BlocksOwnedOnce
PROPERTIES
    UntouchedFilesKeepContents
CHECK_DEADLOCK FALSE
VIEW TxfsView
