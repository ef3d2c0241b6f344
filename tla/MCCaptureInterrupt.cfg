SPECIFICATION FairSpec
CONSTANTS
    MinSaveCount = 1
    MaxSessions = 1
    MaxEvents = 3
    MaxNotices = 0
    MaxInterrupts = 1
    MaxRefusals = 0
    MaxRestarts = 0
    Faults = {}
PROPERTY InterruptSavesAll
CHECK_DEADLOCK FALSE
