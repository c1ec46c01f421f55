SPECIFICATION Spec
CONSTANTS
    OffsetLimit = 8
    Schemas <- AllLevels
INVARIANTS
    TypeOK
    FieldsFillBlockInOrder
    CompilerNeverThrows
    CursorOffsetsAgree
    CursorOffsetsChain
    RejectsExactly
\* The compiler stops when a level is rejected or compiled.
CHECK_DEADLOCK FALSE
