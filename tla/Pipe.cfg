SPECIFICATION PipeSpec
CONSTANTS
    MaxProcesses = 4
    MaxPid = 3
    Quantum = 1
    TickMod = 1
    SleepTicks = {}
    ExitedMayCall = FALSE
    PidOf <- SlotNumbers
    PipeBufSize = 3
    WaitQueueMax = 3
    Bytes = {0, 1}
    Sizes = {2}
INVARIANTS
    NoLostWakeup
PROPERTIES
    WaitersUndisturbed
    IsStream
    EofReachesReaders
CHECK_DEADLOCK FALSE
VIEW PipeView
