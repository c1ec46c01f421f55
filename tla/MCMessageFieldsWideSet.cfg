SPECIFICATION Spec
CONSTANTS
    ByteBits = 1
    IntBits = 4
    SchemaOrder = "big"
    Hosts = {"little", "big"}
    Numbers = {"number"}
    Arrays = {"array"}
    Set = "set"
    Offset <- WideOffset
    Width <- WideWidth
    BufferSize = 10
    ViewSizes = {10}
    Inputs = {0,1}
    Null = 1
    MinValue = 1
    MaxValue = 14
    NullIsNaN = FALSE
    Choice <- WideChoices
    Strings <- SomeStrings
PROPERTY ChoicesIndependent
\* A failed assertion ends the program.
CHECK_DEADLOCK FALSE
