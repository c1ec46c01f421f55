SPECIFICATION Spec
CONSTANTS
    Messages <- AllMessages
    Limits <- Sizes
    Builds = {TRUE, FALSE}
INVARIANTS
    ResultIsExact
    EntriesMeasuredByOwnGroup
    CursorStaysWithCount
    CompleteViewsAnswered
PROPERTIES
    Terminates
    VisitsInSchemaOrder
\* The function returns.
CHECK_DEADLOCK FALSE
