\* Three clients, so that one can wait behind another while a third reconnects.
CONSTANTS
    Clients = {c1, c2, c3}
    Tasks = {t1, t2}
    NoOne = NoOne
    INITIAL_BACKOFF = 1
    MAX_BACKOFF = 3
SPECIFICATION Spec
INVARIANTS TypeOK OneReconnector GuardMeansConnected NoInheritedExchange NoLostWakeup NobodyForgotten
PROPERTY ImplementsLease
SYMMETRY ClientSymmetry
