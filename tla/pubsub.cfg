\* One client that names up to two channels in a command; a channel holds two
\* messages, so that the client lags by one and by two while the other channel
\* is busy.
CONSTANTS
    Clients = {c1}
    Channels = {a, b}
    Capacity = 2
    MaxRequest = 2
    MaxMessages = 4
SPECIFICATION Spec
INVARIANTS
    ReceiversCounted
    AckedIsListening
    ConfirmedNumberIsTrue
    MessagesOnlyWhileSubscribed
    InOrderWithoutDuplicates
PROPERTY SkipsOnlyWhatIsGone
\* The session ends.
CHECK_DEADLOCK FALSE
