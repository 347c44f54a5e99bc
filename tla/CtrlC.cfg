SPECIFICATION SpecAll
CONSTANTS
    MaxProcesses = 3
    MaxPid = 3
    Quantum = 1
    TickMod = 2
    SleepTicks = {1}
    ExitedMayCall = FALSE
PROPERTY
    CtrlCKillsTarget
CHECK_DEADLOCK FALSE
VIEW LiveData
