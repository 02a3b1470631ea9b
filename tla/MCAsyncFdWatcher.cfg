SPECIFICATION FairSpec
CONSTANTS
    Fds <- MCFds
    MaxUnits = 1
    PipeCapacity = 2
    SelfStop = FALSE
    PipeMayFail = FALSE
INVARIANTS
    QuiescentWhenStopped
    StartedWhenRunning
PROPERTIES
    ImplementsDispatcher
    NoticedDataIsServed
