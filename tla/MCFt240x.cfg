CONSTANTS
    RxDepth = 2
    TxDepth = 2
    MaxLen = 3
    Numbers = 3

SPECIFICATION Spec
INVARIANT TypeOK
PROPERTIES BusTurned StreamKept LostOnlyUnplugged WriteCounted FillsSlice
