\* Two threads signal changes of the link, overlapping, to two nodes; the
\* lifetime cap, the clock and the per-call cap can each be the limit that
\* bites.  The loops wait 1, 2, 3 and 3; two ticks end a session, four failures
\* in a row any loop.  Two orders of up to seven units in up to three slices; a
\* spread of 20% is allowed, and the prices lie below, at and beyond it, at last
\* so far that the product of the spread saturates.
CONSTANTS
    m = m
    n = n
    t1 = t1
    t2 = t2
    Threads = {t1, t2}
    Nodes = {m, n}
    PointsPerEpoch = 2
    TokensPerPoint = 3
    MaxEpochsPerCall = 2
    MaxEpochsPerNode = 4
    GraceHours = 1
    HourSecs = 2
    MaxTime = 4
    BackoffBase = 1
    BackoffMax = 3
    MaxShift = 2
    MaxAttempts = 4
    SessionTicks = 2
    MaxU64 = 90
    BpsDenom = 10
    MaxSpreadBps = 2
    PriceScale = 4
    MaxSlices = 3
    Amounts <- MCAmounts
    Prices <- MCPrices
    MaxOrders = 2
SPECIFICATION MCSpec
\* Every order of a run that moves the book alone may be exhausted.
CHECK_DEADLOCK FALSE
INVARIANTS ClaimsFollowPoints
PROPERTIES MinerFollows LoopsSlowDownAndEnd FillsWithinCap
