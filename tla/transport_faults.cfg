\* Sends fail or are cancelled, reads are cancelled, handles are dropped half read.
CONSTANTS
    MAX_PACKET_SIZE = 2
    MsgTypes <- MCMsgTypes
    Lengths <- MCBoundaryLengths
    MaxMsgs = 2
    Faults = {"sendFails", "sourceFails", "readCancelled", "messageDropped"}
SPECIFICATION Spec
INVARIANTS MessageIntact InOrder PanicOnlyAfterDrop NoneMeansOver OnlyBareAbortRejected LostFrameStops FramesFit AckedIsKept
PROPERTY ImplementsMessages
CHECK_DEADLOCK FALSE
