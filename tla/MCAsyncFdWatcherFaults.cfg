\* Callbacks that stop the watcher and pipes that cannot be created: the process
\* may end, so the system may stop.
SPECIFICATION FairSpec
CONSTANTS
    Fds <- MCFds
    MaxUnits = 1
    PipeCapacity = 2
    SelfStop = TRUE
    PipeMayFail = TRUE
INVARIANTS
    SafetyInv
PROPERTIES
    StopCompletes
CHECK_DEADLOCK FALSE
