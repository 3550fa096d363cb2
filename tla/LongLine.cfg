CONSTANTS
    Capacity = 8
    DestLen = 2
    HwDepth = 1
    PeerLag = 1
    MaxLine = 3
    MaxWrite = 2
    LineLengths = {1, 2, 3}

SPECIFICATION FairSpec
INVARIANT FilledIsBufferFull
