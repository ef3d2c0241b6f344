SPECIFICATION Spec
CONSTANTS
    Orders = {o1}
    Prices = {1}
    Amounts = {1, 2}
    MonthLength = 4
    MaxTime = 5
    Threshold = 1
    Delay = 0
    MaxInterval = 9
    MaxChanges = 1
    MaxChannels = 2
    MaxBacklog = 2
    MaxLag = 0
    MaxOutOfStep = 0
    SnapshotPrices = {1}
    MonthStartEvents = TRUE
INVARIANTS
    BookReplayed
CHECK_DEADLOCK FALSE
