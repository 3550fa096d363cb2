CONSTANTS
    BUFFER_COUNT = 4
    Size = 4
    PrefixLen = 2
    ErrorLen = 1
    BytesLen = 1
    EolLen = 1
    None = None

SPECIFICATION Spec
INVARIANTS TypeOK ReportsOwnBytes OmittedOnlyIfTooLong
PROPERTY SlicesKept
