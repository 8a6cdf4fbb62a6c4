SPECIFICATION Spec
CONSTANTS
    fill = fill
    flip = flip
    other = other
    w1 = w1
    w2 = w2
    Cli = Cli
    Transactions = {fill, flip, other}
    RowCount <- MCRowCount
    Workers = {w1, w2}
    UnlockedReaders = {w1}
    ReadFaults = FALSE
    GapWindows = FALSE
    MaxLog = 3
    MaxFaults = 2
    MaxBackfills = 1
INVARIANTS
    NoInterleavedMutations
