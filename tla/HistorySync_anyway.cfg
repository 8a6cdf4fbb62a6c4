SPECIFICATION FairSpec
CONSTANTS
    fill = fill
    flip = flip
    other = other
    w1 = w1
    w2 = w2
    Cli = Cli
    Transactions = {fill, flip, other}
    RowCount <- MCRowCount
    Workers = {w1, w2}
    UnlockedReaders = {w1}
    ReadFaults = TRUE
    GapWindows = TRUE
    MaxLog = 2
    MaxFaults = 1
    MaxBackfills = 1
PROPERTIES
    CallsEnd
