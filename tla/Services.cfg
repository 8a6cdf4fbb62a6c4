SPECIFICATION Spec
CONSTANTS
    w1 = w1
    w2 = w2
    w3 = w3
    RefreshAfter = 3
    Locked = {w1}
    Unlocked = {w2, w3}
    MaxTime = 4
    MaxRevision = 2
    MaxRequests = 3
    MaxFaults = 1
    Schedules <- MCSchedules
    LookAhead = 20
    Grace = 1
    MaxWarm = 1
    MaxHour = 14
    Legs <- MCLegs
    Commissions = {0, 1, 2, 3, 5}
    Closed <- MCClosed
    s1 = s1
    s2 = s2
    ScanFrames <- MCScanFrames
    BiasFrames = {"D"}
    KeptVersions = 1
    ScanThreads = {s1, s2}
    MaxCandle = 2
    MaxScans = 3
    MaxScanFaults = 1
    MaxPrice = 5
    Lookback = 3
    SwingLength = 1
    OpeningBars = 1
    MaxBlocks = 2
    MaxPerStatus = 1
    Weights <- MCWeights
    NeutralBand = 1500000
    Charts <- MCCharts
    Swings <- MCSwings
    Sessions <- MCSessions
    Readings <- MCReadings
    Members <- MCMembers
    Retraced <- MCRetraced
    Setups <- MCSetups
INVARIANTS
    OpeningsWarmed
    CommissionShared
    DrawdownIsWorst
    BundleHangsTogether
    DetectorsMirror
PROPERTIES
    LateAnswerDropped
    ServedRecently
    ViewKeepsValues
SYMMETRY AlikeThreads
CHECK_DEADLOCK FALSE
