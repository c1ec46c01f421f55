SPECIFICATION Spec
CONSTANTS
    Messages <- Instances
    Beyond = 1
INVARIANTS
    TypeOK
    CursorFollowsClient
    SizeFromCursor
PROPERTIES
    InOrderNeverAsserts
    CursorAndNormalEntriesAgree
\* A failed assertion stops the program.
CHECK_DEADLOCK FALSE
