SPECIFICATION Spec
CONSTANTS
    ReminderSpec <- MCReminderSpec
    Blocked = {1}
    Day = 3
    MaxTime = 4
    MaxFaults = 1
    MaxRestarts = 1
    Indicators = {11, 12}
    Repeating = {12}
    Scanners = {"job", "chat"}
    MaxCandle = 2
    MaxFailures = 1
    MaxListFailures = 0
INVARIANTS
    RemindsOnce
    CursorHidesNothing
PROPERTIES
    DueIsTold
CHECK_DEADLOCK FALSE
