SPECIFICATION Spec
CONSTANTS
    HeapBase = 1
    HeapSize = 28
    HdrSize = 2
    FtrSize = 1
    PtrSize = 1
    MinBlock = 2
    NumClasses = 4
    Sizes = {1, 3, 6}
    Aligns = {4}
INVARIANTS
    BlocksTile
    FreeListsExact
    AllGivenBack
PROPERTIES
    IsArena
CHECK_DEADLOCK FALSE
VIEW HeapView
