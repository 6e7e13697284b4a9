SPECIFICATION Spec
CONSTANTS
    Conns = {c1, c2}
    Slots = {s1, s2}
    a = a  b = b  page = page  gone = gone  list = list  moved = moved
    Urls = {list}
    Site <- MCSite
    BadEscapes = {}
    DirIndexs = TRUE
    FdLimit = 4
    MAX_ALLOWED_CLIENT = 8
    MaxReq = 2
    Unruly = {"pipelining", "short_send"}
    NULL = NULL
SYMMETRY MCSymmetry
INVARIANT ServedInOrder
CHECK_DEADLOCK FALSE
