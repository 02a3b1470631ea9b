SPECIFICATION Spec
CONSTANTS
    t1 = t1
    t2 = t2
    s1 = s1
    s2 = s2
    NoStream = NoStream
    NoThread = NoThread
    Threads <- MCThreads
    Streams <- MCStreams
    BUFFER_SIZE = 2
    Modulus = 3
    MaxFrames = 4
INVARIANTS
    OutputConsistent
    PositionIsPlayed
PROPERTIES
    CallsReturn
