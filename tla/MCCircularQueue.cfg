CONSTANTS
    Values = {a, b}
    Capacity = 3
    Zero = zero

SPECIFICATION Spec

INVARIANT TypeOK
PROPERTY ImplementsFifo
