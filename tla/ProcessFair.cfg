SPECIFICATION FairSpec
CONSTANTS
    MaxProcesses = 3
    MaxPid = 3
    Quantum = 2
    TickMod = 3
    SleepTicks = {1}
    ExitedMayCall = FALSE
INVARIANTS
    WaitTargetAlive
    NoSharedStack
    NoCrash
PROPERTIES
    WaitReturnsAfterDeath
    ReadyRuns
    SleeperWakes
VIEW LiveData
