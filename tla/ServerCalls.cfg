\* Every request, two at a time, with failures, the clock set forward and back, fair.
SPECIFICATION FairServerSpec
CONSTANTS
    Dataset = {ds1}
    d1 = d1
    d2 = d2
    spaced = spaced
    Device = {d1}
    Name = {n1}
    Blob = {b1}
    Handler = {h1, h2}
    None = None
    Cursor = {0}
    Limit = {1}
    MaxTime = 1
    Time <- Clock
    ClockSetBack = TRUE
    MaxBatch = 2
    MaxLimit = 1
    MaxSequence = 2
    DefaultLimit = 1
    Trim <- Exact
PROPERTIES
    EveryCallReturns
    FirstSeenIsKept
    ImplementsEntryLog
