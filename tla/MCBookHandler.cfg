SPECIFICATION Spec
CONSTANTS
    MinSaveCount = 2
    Timestamps = {1, 2, 3}
    MaxSnapshot = 2
    MaxEvents = 6
INVARIANTS
    TypeOK
    EpisodesKept
    WholeEpisodesOnly
    StampsInOrder
PROPERTIES
    ImplementsLog
CHECK_DEADLOCK FALSE
