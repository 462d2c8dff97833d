\* Append and Page, two handlers: every interleaving of their steps.
SPECIFICATION EntrySpec
CONSTANTS
    Dataset = {ds1}
    Device = {d1, d2}
    Name = {}
    Blob = {b1, b2}
    Handler = {h1, h2}
    None = None
    Cursor = {0, 1, 2}
    Limit = {0, 3}
    Time = {}
    MaxBatch = 2
    MaxLimit = 2
    MaxSequence = 3
SYMMETRY Interchangeable
INVARIANTS
    TypeOK
    EntriesNumbered
    ConnectionHeldOnlyWhileUsed
    AppendStoresItsBatch
    PageSkipsNothing
    EmptyPageSkipsNothingOld
    CursorIsAnEntry
    HasMoreIsHonest
