\* No faults: send_message, send_reader and abort_message only.
CONSTANTS
    MAX_PACKET_SIZE = 2
    MsgTypes <- MCMsgTypes
    Lengths <- MCLengths
    MaxMsgs = 2
    Faults = {}
SPECIFICATION Spec
INVARIANT AckedNeverAborted
CHECK_DEADLOCK FALSE
