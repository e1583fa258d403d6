CONSTANTS
    Keys = {k1}
    Values = {v1}
    Handlers = {h1}
    Durations = {1, 2}
    MaxInstant = 2
    Horizon = 2
    MaxId = 2
SPECIFICATION Spec
INVARIANT
    TaskRunsUntilShutdown
\* A poisoned mutex stops every user of Db.
CHECK_DEADLOCK FALSE
