SPECIFICATION SpecAll
CONSTANTS
    MaxProcesses = 3
    MaxPid = 2
    Quantum = 1
    TickMod = 2
    SleepTicks = {1}
    ExitedMayCall = TRUE
INVARIANTS
    TypeOK
    RunningIsCurrent
    UniquePids
    KStackOwnership
CHECK_DEADLOCK FALSE
VIEW LiveData
