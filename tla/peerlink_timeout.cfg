\* Fairness for the runtime only: the application may keep a guard.
CONSTANTS
    Clients = {c1, c2}
    Tasks = {t1, t2}
    NoOne = NoOne
    INITIAL_BACKOFF = 1
    MAX_BACKOFF = 3
SPECIFICATION RuntimeSpec
PROPERTY TimeoutBoundsWait
