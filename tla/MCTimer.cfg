CONSTANTS
    Half = 8
    MaxDelay = 8
    MaxLate = 6

SPECIFICATION FairSpec
INVARIANTS TypeOK DelayArmed
PROPERTIES ExpiryExact DelayEnds
