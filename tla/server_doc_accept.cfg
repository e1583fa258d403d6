\* One connection; the pauses of the code: 1, 2, 4, ... 64 seconds.
CONSTANTS
    Conns = {c1}
    MaxConnections = 1
    MaxBackoff = 64
SPECIFICATION Spec
INVARIANT SixthFailureIsLast
\* The server stops when run has returned.
CHECK_DEADLOCK FALSE
