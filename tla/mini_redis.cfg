\* One connection; a SET without a deadline, with one at 1, and one that
\* overflows; up to two SETs.
CONSTANTS
    Conns = {c1}
    MaxConnections = 1
    MaxBackoff = 0
    Keys = {k1}
    Values = {v1}
    Durations = {1}
    MaxInstant = 1
    Horizon = 1
    MaxId = 2
SPECIFICATION FairSpec
INVARIANT
    TaskOutlivesHandlers
PROPERTIES
    FrozenAfterShutdown
    EverythingEnds
\* The server stops when run has returned.
CHECK_DEADLOCK FALSE
