SPECIFICATION Spec
CONSTANTS
    Value <- Bits
    Inputs <- ShortInputs
    MaxSize = 6
    Room = 4
    Modulus = 8
    Client = "not_to_end"
INVARIANTS
    AssertsMisuseFirst
PROPERTIES
    ImplementsContainer
    FollowingBytesKept
\* A failed assertion ends the program.
CHECK_DEADLOCK FALSE
