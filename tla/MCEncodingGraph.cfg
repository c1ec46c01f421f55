SPECIFICATION Spec
CONSTANTS
    Schemas <- SmallSchemas
    None = None
    WritesFail = TRUE
INVARIANTS
    RejectsExactly
    SizesAddUp
    IncludedHeadersExist
    CompleteAtTheEnd
    HeadersAreSelfContained
PROPERTY Terminates
\* The program ends.
CHECK_DEADLOCK FALSE
