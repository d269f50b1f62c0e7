CONSTANTS
    MaxMessageSize = 1000
    Structs <- AllStructs
    Messages <- AllMessages
    CutBytes = 75
SPECIFICATION Spec
INVARIANTS RoundTrip TruncationRejected EnvelopeBounded
CHECK_DEADLOCK FALSE
