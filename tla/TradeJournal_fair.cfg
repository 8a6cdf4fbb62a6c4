SPECIFICATION FairSpec
CONSTANTS
    t1 = t1
    t2 = t2
    w1 = w1
    w2 = w2
    Cli = Cli
    Trades = {t1, t2}
    Levels = {"none"}
    Transactions <- TwoTradeFills
    Workers = {w1}
    UnlockedReaders = {}
    ReadFaults = FALSE
    GapWindows = FALSE
    MaxLog = 3
    MaxFaults = 2
    MaxBackfills = 1
INVARIANTS
    SyncedJournalAgrees
PROPERTIES
    SyncRepairsReasons
    JournalCatchesUp
