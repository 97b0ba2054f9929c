\* Two clients; no symmetry, which liveness checking does not allow.
CONSTANTS
    Clients = {c1, c2}
    Tasks = {t1, t2}
    NoOne = NoOne
    INITIAL_BACKOFF = 1
    MAX_BACKOFF = 1
SPECIFICATION FairSpec
PROPERTIES AcquireReturns WaitReturns LinkComesBack
