\* A power cut: sequences are assigned again.
SPECIFICATION PowerSpec
CONSTANTS
    d1 = d1
    d2 = d2
    b1 = b1
    b2 = b2
    n1 = n1
    ds1 = ds1
    Dataset = {ds1}
    Device = {d1, d2}
    Name = {n1}
    Blob = {b1, b2}
    Handler = {h1}
    None = None
    Cursor <- Cursors
    Limit = {0, 1}
    MaxTime = 0
    Time <- Clock
    ClockSetBack = FALSE
    MaxBatch = 1
    MaxLimit = 1
    MaxSequence = 4
    DefaultLimit = 1
    Trim <- Exact
    DatasetOf <- OneDataset
    NameOf <- OneName
    Writes <- OneEach
    Managed = {}
    MaxFaults = 1
PROPERTIES
    NewEntriesAboveCursors
