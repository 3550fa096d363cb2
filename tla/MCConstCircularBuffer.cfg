CONSTANTS
    lf = lf
    x = x
    Zero = x
    Term = lf
    Capacity = 3
    Byte <- MCByte
    Inputs <- MCInputs
    DestSizes <- MCDestSizes

SPECIFICATION Spec
INVARIANTS TypeOK PositionsAgree
PROPERTY ImplementsFifo
