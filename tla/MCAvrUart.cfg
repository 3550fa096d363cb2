CONSTANTS
    Capacity = 12
    DestLen = 2
    HwDepth = 2
    PeerLag = 1
    MaxLine = 3
    MaxWrite = 3
    LineLengths = {1, 3}

SPECIFICATION FairSpec
INVARIANTS TypeOK CtsHysteresis NothingDropped ReaderArmed StreamIntact LinesEndAtTerm
PROPERTIES CtsReopens FillsSlice OnlyLongWritesOverrun
