SPECIFICATION Spec
CONSTANTS
    Conns = {c1, c2}
    Slots = {s1, s2}
    a = a  b = b  page = page  gone = gone  list = list  moved = moved
    Urls = {a, moved}
    Site <- MCSite
    BadEscapes = {moved}
    DirIndexs = TRUE
    FdLimit = 3
    MAX_ALLOWED_CLIENT = 8
    MaxReq = 2
    Unruly = {"vanish","oom","short_send"}
    NULL = NULL
SYMMETRY MCSymmetry
INVARIANT NumbersOwned
PROPERTIES HangUpForCause EndsForCause ImplementsBestEffort
CHECK_DEADLOCK FALSE
