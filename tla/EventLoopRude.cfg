SPECIFICATION Spec
CONSTANTS
    Conns = {c1, c2}
    Slots = {s1, s2}
    a = a  b = b  page = page  gone = gone  list = list  moved = moved
    Urls = {a}
    Site <- MCSite
    BadEscapes = {}
    DirIndexs = TRUE
    FdLimit = 2
    MAX_ALLOWED_CLIENT = 8
    MaxReq = 1
    Unruly = {"early_close"}
    NULL = NULL
SYMMETRY MCSymmetry
INVARIANT TableExact
CHECK_DEADLOCK FALSE
