\* Bytes: errors, nulls, strings and arrays of one entry, and misfits; a simple
\* string is decided as an error is.  Entries: every request of up to six, and
\* the calls of a client.
CONSTANTS
    Bytes = {"+", "-", ":", "$", "*", "cr", "lf", "0", "1", "2", "3", "4", "5", "6", "7", "8", "9"}
    Sent = {"-", "$", "*", "1", "cr", "lf"}
    MaxBytes = 7
    Texts <- TestTexts
    Binaries = {"ff"}
    Lower <- TestLower
    Number <- TestNumber
    PerMilli = 2
    MaxU64 = 10000
    MaxEntries = 6
    Entries <- TestEntries
    Calls <- TestCalls
SPECIFICATION WireSpec
INVARIANTS
    CheckMeasuresParse
    NeverUnimplemented
    RoundTrip
    UnderstoodAsMeant
PROPERTIES
    DecisionIsFinal
    NothingLeftOver
\* The buffer is full, and requests are finite.
CHECK_DEADLOCK FALSE
