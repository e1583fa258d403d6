\* Up to four calls that name up to two channels, three if one is dropped, and
\* a message in between.
CONSTANTS
    Channels = {a, b}
    MaxList = 2
    MaxCalls = 4
    MaxMessages = 1
    MaxDrops = 1
SPECIFICATION FairSpec
INVARIANTS
    OnlyOwnMessages
    InStep
PROPERTIES
    FailsForCause
    CallsReturn
\* A session ends.
CHECK_DEADLOCK FALSE
