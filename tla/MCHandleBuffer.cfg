CONSTANTS
    x = x
    y = y
    Zero = x
    Capacity = 3
    Byte <- MCByte
    Inputs <- MCInputs

CHECK_DEADLOCK FALSE
SPECIFICATION Spec
INVARIANTS TypeOK PanicsOnlyAfterRead
PROPERTY ImplementsBuffer
