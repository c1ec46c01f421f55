SPECIFICATION Spec
CONSTANTS
    IntBits = 6
    PtrBits = 10
    Dims <- AllDims
    HeaderSize = 2
    MaxCount = 5
    MaxBlock = 2
    MaxExtra = 1
    Rooms = {1, 10}
    Liberties = {}
INVARIANTS
    IteratorAtEntry
PROPERTY ImplementsEntries
\* A failed assertion ends the program.
CHECK_DEADLOCK FALSE
