\* Packets with and without payload, a shim socket that holds any one of them but
\* not two: the watcher thread may block in write() and a CHECK may fail, so the
\* system may stop.
SPECIFICATION FairSpec
CONSTANTS
    Radix = 6
    Packets <- MCPackets
    MaxPackets = 3
    ShimCapacity = 12
INVARIANTS
    FramingInv
    ReadsStayInBuffers
PROPERTIES
    EveryPacketDelivered
    ImplementsChannel
CHECK_DEADLOCK FALSE
