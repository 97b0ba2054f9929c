\* Two nodes, three keypairs, two signed records, one mishandled file.
SPECIFICATION Spec
CONSTANTS
    KEY_LEN = 2
    SIGNATURE_LEN = 2
    MAX_NODE_ID_LEN = 8
    LuckyPoints <- MCLuckyPoints
    Nodes = {n1, n2}
    Identities <- MCIdentities
    MaxSecrets = 3
    MaxSigned = 2
    MaxMistakes = 1
SYMMETRY NodeSymmetry
INVARIANTS OnlyIssued IssuedAccepted IntactFileLoads
CHECK_DEADLOCK FALSE
