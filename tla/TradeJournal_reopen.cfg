SPECIFICATION Spec
CONSTANTS
    t1 = t1
    t2 = t2
    w1 = w1
    w2 = w2
    Cli = Cli
    Trades = {t1}
    Levels = {"none", "set"}
    Transactions <- OneTradeFills
    Workers = {w1}
    UnlockedReaders = {}
    ReadFaults = FALSE
    GapWindows = FALSE
    MaxLog = 3
    MaxFaults = 0
    MaxBackfills = 1
PROPERTIES
    NeverReopened
