\* Every environment at the edge of each setting, and every request at the edge
\* of each check.
SPECIFICATION Spec
CONSTANTS
    t1 = t1
    t1padded = t1padded
    t2 = t2
    t2short = t2short
    blank = blank
    zero = zero
    low = low
    lowpadded = lowpadded
    top = top
    above = above
    debug = debug
    Text = {t1, t1padded, t2, t2short, blank, zero, low, lowpadded, top, above, debug}
    TrimText <- Trimming
    Blank = blank
    Short = {t2short}
    None = None
    Unreadable = Unreadable
    NumberOf <- Numbers
    LevelOf <- Levels
    MaxPort = 3
    Default <- Defaults
    Environment <- Environments
    DatasetOfToken <- Hash
    Identifier <- Identifiers
    Body <- Bodies
    Sent <- Requested
    MaxIdentifierBytes = 2
    MaxBlobBytes = 1
    MaxEntriesPerRequest = 2
INVARIANTS
    TokensSelectOwnDatasets
    TokenGivenIsAccepted
    NothingSetIsIgnored
    ContentIsBehindToken
