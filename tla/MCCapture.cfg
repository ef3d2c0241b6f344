SPECIFICATION Spec
CONSTANTS
    MinSaveCount = 1
    MaxSessions = 2
    MaxEvents = 3
    MaxNotices = 1
    MaxInterrupts = 2
    MaxRefusals = 1
    MaxRestarts = 1
    Faults = {"db", "oserror", "crash"}
INVARIANTS
    TypeOK
    SessionsInOrder
    DoneSavedAll
    CleanExitLeavesNothing
PROPERTIES
    ImplementsLog
CHECK_DEADLOCK FALSE
