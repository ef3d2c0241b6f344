SPECIFICATION FairSpec
CONSTANTS
    MinSaveCount = 1
    MaxSessions = 2
    MaxEvents = 2
    MaxNotices = 1
    MaxInterrupts = 2
    MaxRefusals = 1
    MaxRestarts = 0
    Faults = {"error", "db"}
PROPERTIES
    LostSessionsEnd
    InterruptEnds
CHECK_DEADLOCK FALSE
