SPECIFICATION Spec
CONSTANTS
    w1 = w1  w2 = w2  c1 = c1  c2 = c2
    Workers = {w1, w2}
    Conns = {c1, c2}
    Files <- MCFiles
    MaxFds = 2
    MaxStarts = 2
    MaxFaults = 1
INVARIANTS TypeOK LeakBounded ParentStays ConfigTakesEffect
PROPERTIES NoneForgotten InterruptStops StartsUp
CHECK_DEADLOCK FALSE
