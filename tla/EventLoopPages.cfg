SPECIFICATION Spec
CONSTANTS
    Conns = {c1, c2}
    Slots = {s1, s2}
    a = a  b = b  page = page  gone = gone  list = list  moved = moved
    Urls = {page, list}
    Site <- MCSite
    BadEscapes = {page}
    DirIndexs = TRUE
    FdLimit = 2
    MAX_ALLOWED_CLIENT = 8
    MaxReq = 2
    Unruly = {"pipelining", "early_close", "upgrade"}
    NULL = NULL
SYMMETRY MCSymmetry
INVARIANTS TableExact NumbersOwned ServedInOrder
PROPERTIES HangUpForCause EndsForCause
CHECK_DEADLOCK FALSE
