\* The RPC thread, and calls nested in a callback of the watcher thread.
SPECIFICATION FairSendSpec
CONSTANTS
    rpc = rpc
    watcher = watcher
    Senders <- MCSenders
    MaxFrames = 3
    MaxPayload = 2
INVARIANTS
    WireIsFramed
PROPERTIES
    EverySendReturns
CHECK_DEADLOCK FALSE
