SPECIFICATION Spec
CONSTANTS
    t1 = t1
    t2 = t2
    h1 = h1
    h2 = h2
    a1 = a1
    a2 = a2
    NoHandle = NoHandle
    Threads <- MCThreads
    Handles <- MCHandles
    Addresses <- MCAddresses
SYMMETRY Symmetry
INVARIANTS
    LockedIsMapped
    NoMappingLost
    UnregisteredIsUnmapped
    CurrentBufferIsShown
    PostUnlocks
PROPERTIES
    SlotsStayDistinct
