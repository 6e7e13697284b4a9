SPECIFICATION FairSpec
CONSTANTS
    Reqs = {r1, r2, r3}
    Limits = {0, 1, 2}
INVARIANT NoLostWakeup
PROPERTY CalledBack
