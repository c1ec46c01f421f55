SPECIFICATION Spec
CONSTANTS
    ByteBits = 1
    IntBits = 2
    SchemaOrder = "big"
    Hosts = {"little", "big"}
    Numbers = {"number"}
    Arrays = {"array"}
    Set = "set"
    Offset <- FieldOffset
    Width <- FieldWidth
    BufferSize = 10
    ViewSizes = {10, 7}
    Inputs = {0, 1, 6, 8, 15}
    Null = 15
    MinValue = 1
    MaxValue = 14
    NullIsNaN = TRUE
    Choice <- AllChoices
    Strings <- SomeStrings
INVARIANT NullHasNoValue
\* A failed assertion ends the program.
CHECK_DEADLOCK FALSE
