SPECIFICATION Spec
CONSTANTS
    MaxUint = 29
    MaxVersion = 9
    MaxHeaderSize = 36
    Messages <- MCMessages
INVARIANT RequestsAsSent
CHECK_DEADLOCK FALSE
