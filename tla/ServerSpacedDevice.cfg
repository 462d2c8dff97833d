\* An identifier with white space at an end.
SPECIFICATION ServerSpec
CONSTANTS
    Dataset = {ds1}
    d1 = d1
    d2 = d2
    spaced = spaced
    Device = {d1, spaced}
    Name = {n1}
    Blob = {b1}
    Handler = {h1}
    None = None
    Cursor = {0}
    Limit = {1}
    MaxTime = 0
    Time <- Clock
    ClockSetBack = FALSE
    MaxBatch = 0
    MaxLimit = 1
    MaxSequence = 1
    DefaultLimit = 1
    Trim <- Spaced
INVARIANTS
    NotFoundMeansNotListed
