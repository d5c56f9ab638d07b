SPECIFICATION Spec
CONSTANTS
    MaxAttempts = 10
    WaitTime = 30
    MaxNegativeTTL = 600
    RequestTimeout = 60
    QueryTimes = {0, 60, 120}
    TTLs = {0, 26, 595, 596}
INVARIANTS TypeOK HonoursNegativeCache BlockedInBounds LoopInvariant
\* The function has returned.
CHECK_DEADLOCK FALSE
