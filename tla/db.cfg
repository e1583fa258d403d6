\* Durations 0, 1 and 2 at the times 0 and 1 give deadlines that are due at
\* once, that tie, two different ones both in the future, and a sum that
\* overflows MaxInstant; two handlers and the guard race to notify.
CONSTANTS
    Keys = {k1, k2}
    Values = {v1}
    Handlers = {h1, h2}
    Durations = {0, 1, 2}
    MaxInstant = 2
    Horizon = 1
    MaxId = 3
SPECIFICATION FairSpec
INVARIANTS
    ExpirationsMatchEntries
    NoLostWakeup
    ShutdownNotLost
PROPERTIES
    ImplementsKeyValue
    ExpiredIsPurged
    TaskStopsAfterShutdown
    TaskComesToRest
\* A poisoned mutex stops every user of Db.
CHECK_DEADLOCK FALSE
