\* Three calls and a message; no future is dropped.
CONSTANTS
    Channels = {a}
    MaxList = 1
    MaxCalls = 3
    MaxMessages = 1
    MaxDrops = 0
SPECIFICATION FairSpec
PROPERTY AllAreAcknowledged
\* A session ends.
CHECK_DEADLOCK FALSE
