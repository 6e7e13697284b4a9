SPECIFICATION Spec
CONSTANTS
    MaxUint = 29
    MaxVersion = 9
    MaxHeaderSize = 36
    Messages <- MCMessages
INVARIANTS TypeOK AssertsOK ParsedAsMeant CountedFromHere HandledAsSent
           LastIsLast
CHECK_DEADLOCK FALSE
