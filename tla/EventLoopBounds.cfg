SPECIFICATION Spec
CONSTANTS
    Conns = {c1, c2}
    Slots = {s1, s2}
    a = a  b = b  page = page  gone = gone  list = list  moved = moved
    Urls = {page}
    Site <- MCSite
    BadEscapes = {}
    DirIndexs = TRUE
    FdLimit = 2
    MAX_ALLOWED_CLIENT = 1
    MaxReq = 1
    Unruly = {}
    NULL = NULL
SYMMETRY MCSymmetry
INVARIANT InBounds
CHECK_DEADLOCK FALSE
