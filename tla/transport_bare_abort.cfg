\* The source of a send_reader may fail.
CONSTANTS
    MAX_PACKET_SIZE = 2
    MsgTypes <- MCMsgTypes
    Lengths <- MCLengths
    MaxMsgs = 2
    Faults = {"sourceFails"}
SPECIFICATION Spec
INVARIANT AbortNeverRejected
CHECK_DEADLOCK FALSE
