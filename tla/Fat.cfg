SPECIFICATION Spec
CONSTANTS
    Clusters <- AllClusters
    Root = 2
    DirentsPerCluster = 3
    MaxFds = 2
    Short <- EightThree
    FilePaths <- Files
    DirPaths <- Directories
    Images <- HostDisks
    Counts = {3}
    Values <- Written
    MaxPosition = 3
    MaxCuts = 1
    WriteDirs = FALSE
    RemoveOpen = FALSE
    RemoveLong = FALSE
    CutAnywhere = FALSE
INVARIANTS
    ChainsApart
    HandlesStayInFile
    CopiesAgree
    LostIsKnown
CHECK_DEADLOCK FALSE
VIEW FatView
