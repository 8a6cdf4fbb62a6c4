SPECIFICATION PollingSpec
CONSTANTS
    w1 = w1
    w2 = w2
    Workers = {w1, w2}
    Bars = 6
    BarStart <- ShortDay
    Delta = 2
    Traded <- Weekend
    Counts = {1, 3}
    MaxCount = 3
    PageSize = 2
    ClockLag = 1
    MaxFaults = 2
INVARIANTS
    ReportBacked
    NeverServedOlder
    FreshMeansNewest
PROPERTIES
    KeepsWindow
    CatchesUp
