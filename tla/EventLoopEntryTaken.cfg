SPECIFICATION Spec
CONSTANTS
    Conns = {c1, c2}
    Slots = {s1, s2}
    a = a  b = b  page = page  gone = gone  list = list  moved = moved
    Urls = {a}
    Site <- MCSite
    BadEscapes = {}
    DirIndexs = TRUE
    FdLimit = 4
    MAX_ALLOWED_CLIENT = 8
    MaxReq = 2
    Unruly = {"quick"}
    NULL = NULL
SYMMETRY MCSymmetry
INVARIANT EntryFreeOnAccept
CHECK_DEADLOCK FALSE
