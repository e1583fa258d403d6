\* Two callers with two calls each share a channel of one slot.
CONSTANTS
    Callers = {c1, c2}
    Keys = {k1}
    Values = {v1, v2}
    OK = OK
    Limit = 1
    MaxCalls = 2
SPECIFICATION FairSpec
PROPERTIES
    ImplementsSharedStore
    CallsReturn
    TaskEnds
\* The task ends with the last handle.
CHECK_DEADLOCK FALSE
