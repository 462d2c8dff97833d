\* Requests served one at a time, two datasets, with faults.
SPECIFICATION FairSystemSpec
CONSTANTS
    d1 = d1
    d2 = d2
    d3 = d3
    b1 = b1
    b2 = b2
    b3 = b3
    n1 = n1
    ds1 = ds1
    ds2 = ds2
    Dataset = {ds1, ds2}
    Device = {d1, d2, d3}
    Name = {n1}
    Blob = {b1, b2, b3}
    Handler = {h1}
    None = None
    Cursor <- Cursors
    Limit = {0, 1}
    MaxTime = 1
    Time <- Clock
    ClockSetBack = FALSE
    MaxBatch = 2
    MaxLimit = 1
    MaxSequence = 4
    DefaultLimit = 1
    Trim <- Exact
    DatasetOf <- TwoDatasets
    NameOf <- OneName
    Writes <- OnlyTwo
    Managed = {d1}
    MaxFaults = 1
INVARIANTS
    SystemTypeOK
    NoEntrySkipped
    OnlyOthersReplayed
    NotFoundMeansNotListed
PROPERTIES
    EveryRequestIsAnswered
    EveryEntryArrives
