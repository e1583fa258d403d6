\* Two calls and a message.
CONSTANTS
    Channels = {a, b}
    MaxList = 1
    MaxCalls = 2
    MaxMessages = 1
    MaxDrops = 0
SPECIFICATION Spec
INVARIANT ConfirmationComesNext
\* A session ends.
CHECK_DEADLOCK FALSE
