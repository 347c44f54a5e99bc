SPECIFICATION Spec
CONSTANTS
    MaxFrames = 16
    FrameSize = 2
    WordBits = 4
    LowEnd = 2
    KernelEnd = 6
    InfoBlock <- OneFrame
    MemoryMaps <- Maps
    Slots = {1, 2}
    HeapPages = 7
    TablePages = 4
    UserHeapBase = 4
    UserStackTop = 24
    UserStackPages = 1
    ElfPages = {1}
    Images <- Programs
    Increments <- Amounts
    None = None
INVARIANTS
    RunnersHaveDirectories
    FramesOwnedOnce
    NeverReserved
    FirstFit
    KernelHeapPagesOwnedOnce
    GuardPageUnmapped
CHECK_DEADLOCK FALSE
VIEW MemoryView
