\* Two clients, in any order; they may die at any time, and opens may fail.
\* Twice as much arrives as a shim holds.
SPECIFICATION FairSpec
CONSTANTS
    first = first
    second = second
    Clients <- MCClients
    NoClient = NoClient
    NoFd = NoFd
    MaxSessions = 2
    MaxArrivals = 2
    ShimCapacity = 1
INVARIANTS
    NoBadAccess
    OneStreamPerParser
    SessionHasGuardian
PROPERTIES
    DeadClientsSessionEnds
    CloseReturns
CHECK_DEADLOCK FALSE
