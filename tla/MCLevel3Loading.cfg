SPECIFICATION Spec
CONSTANTS
    Orders = {o1, o2}
    Prices = {1, 2}
    Amounts = {1}
    MonthLength = 3
    MaxTime = 5
    Threshold = 1
    Delay = 0
    MaxInterval = 2
    MaxChanges = 2
    MaxChannels = 2
    MaxBacklog = 2
    MaxLag = 1
    MaxOutOfStep = 1
    SnapshotPrices = {1}
    MonthStartEvents = FALSE
INVARIANTS
    TypeOK
    BookReplayed
    ChainsLinked
    LoadsSucceed
    ErasUpToDate
SYMMETRY Symmetry
CHECK_DEADLOCK FALSE
