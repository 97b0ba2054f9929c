\* No faults, but the receiver may drop a message it has not read to its end.
CONSTANTS
    MAX_PACKET_SIZE = 2
    MsgTypes <- MCMsgTypes
    Lengths <- MCLengths
    MaxMsgs = 2
    Faults = {"messageDropped"}
SPECIFICATION Spec
INVARIANT NoPanic
CHECK_DEADLOCK FALSE
