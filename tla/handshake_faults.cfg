\* Timers may fire and the network may fail at any point; a finished handshake stops.
CONSTANTS
    KEY_LEN = 1
    SIGNATURE_LEN = 2
    MAX_NODE_ID_LEN = 8
    LuckyPoints = {}
    Credentials <- MCCredentials
    Targets <- MCTargets
    MaxPayload <- MCMaxPayload
    Faults = {"timeout", "network"}
SPECIFICATION FairSpec
INVARIANTS TypeOK Authentic RevealedOnlyToVerified GoodPeersNotRefused FailuresExplained NeverStuck
PROPERTIES StepsRunOut BothReturn GoodPeersConnect
CHECK_DEADLOCK FALSE
