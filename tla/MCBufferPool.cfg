CONSTANTS
    BUFFER_COUNT = 4
    Holder = {h1, h2, h3, h4}
    None = None

SPECIFICATION Spec
INVARIANTS TypeOK RingIsFreeList HandlesExclusive ReleaseSucceeds FirstRoundDistinct
