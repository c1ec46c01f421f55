SPECIFICATION InOrderSpec
CONSTANTS
    Messages <- ConstantOnly
    Beyond = 1
PROPERTY CursorAndNormalEntriesAgree
CHECK_DEADLOCK FALSE
