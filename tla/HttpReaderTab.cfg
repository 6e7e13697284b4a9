SPECIFICATION Spec
CONSTANTS
    MaxUint = 29
    MaxVersion = 9
    MaxHeaderSize = 36
    Messages <- MCTabbed
INVARIANT ParsedAsMeant
CHECK_DEADLOCK FALSE
