\* Nothing fails, no timer fires; a finished handshake stops.
CONSTANTS
    KEY_LEN = 1
    SIGNATURE_LEN = 2
    MAX_NODE_ID_LEN = 8
    LuckyPoints = {}
    Credentials <- MCCredentials
    Targets <- MCTargets
    MaxPayload <- MCMaxPayload
    Faults = {}
SPECIFICATION Spec
INVARIANT UnrecognisedCannotConnect
CHECK_DEADLOCK FALSE
