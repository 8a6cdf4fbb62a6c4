SPECIFICATION MCSpec
CONSTANTS
    w1 = w1
    w2 = w2
    Scanners = {w1}
    Readers = {w2}
    Instruments <- TwoInstruments
    Timeframes <- TwoFrames
    Retention = 1
    Named = {"EUR"}
    MaxBar = 2
    MaxRequests = 3
    MaxFaults = 1
INVARIANTS
    PinnedWindow
PROPERTIES
    BarsNeverGoBack
    ScannedMeansAll
    AnswersAreNewest
    LiveSpreadKept
CHECK_DEADLOCK FALSE
