\* Two frames of six kinds, cut anywhere; calls cancelled anywhere.
CONSTANTS
    Bytes = {"+", "-", ":", "$", "*", "cr", "lf", "0", "1", "2", "3", "4", "5", "6", "7", "8", "9", "x", "?"}
    Frames <- TestFrames
    MaxFrames = 2
SPECIFICATION FairSpec
INVARIANTS
    BytesAccountedFor
    EndIsTruthful
PROPERTIES
    ImplementsFrameChannel
    FramesArrive
    EndIsReported
\* The stream ends.
CHECK_DEADLOCK FALSE
