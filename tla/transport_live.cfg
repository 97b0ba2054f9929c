\* Only the source of a send_reader may fail; the sender may let go of the stream.
CONSTANTS
    MAX_PACKET_SIZE = 2
    MsgTypes <- MCLiveTypes
    Lengths <- MCLengths
    MaxMsgs = 2
    Faults = {"sourceFails", "closes"}
SPECIFICATION FairSpec
INVARIANTS TypeOK PackNeverRefused
PROPERTIES AckedIsDelivered ReaderFinishes
CHECK_DEADLOCK FALSE
