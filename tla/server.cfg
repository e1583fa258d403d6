\* Two connections compete for one permit; the pauses of the code: 1, 2, 4,
\* ... 64 seconds.
CONSTANTS
    Conns = {c1, c2}
    MaxConnections = 1
    MaxBackoff = 64
SPECIFICATION FairSpec
INVARIANTS
    PermitsConserved
    NoHandlerOutlivesRun
    NoReplyOwedAtExit
    BackoffSchedule
PROPERTIES
    ShutdownCompletes
    HangUpFreesPermit
\* The server stops when run has returned.
CHECK_DEADLOCK FALSE
