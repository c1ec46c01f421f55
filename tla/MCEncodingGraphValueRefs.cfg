SPECIFICATION Spec
CONSTANTS
    Schemas <- ValueRefs
    None = None
    WritesFail = FALSE
INVARIANT HeadersAreSelfContained
CHECK_DEADLOCK FALSE
