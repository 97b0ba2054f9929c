\* A node id longer than the limit, from the caller and from a file.
SPECIFICATION Spec
CONSTANTS
    KEY_LEN = 2
    SIGNATURE_LEN = 2
    MAX_NODE_ID_LEN = 8
    LuckyPoints <- MCLuckyPoints
    Nodes = {n1, n2}
    Identities <- MCLongIdentities
    MaxSecrets = 3
    MaxSigned = 2
    MaxMistakes = 1
INVARIANT SignedVerifies
CHECK_DEADLOCK FALSE
