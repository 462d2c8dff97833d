\* Two contacts of one device at a time: the clock is read before the wait.
SPECIFICATION ServerSpec
CONSTANTS
    Dataset = {ds1}
    d1 = d1
    d2 = d2
    spaced = spaced
    Device = {d1}
    Name = {n1}
    Blob = {b1}
    Handler = {h1, h2}
    None = None
    Cursor = {0}
    Limit = {1}
    MaxTime = 2
    Time <- Clock
    ClockSetBack = FALSE
    MaxBatch = 0
    MaxLimit = 1
    MaxSequence = 1
    DefaultLimit = 1
    Trim <- Exact
PROPERTIES
    LastSeenAdvances
