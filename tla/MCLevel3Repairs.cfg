SPECIFICATION Spec
CONSTANTS
    Orders = {o1, o2, o3}
    Bids = {o1, o3}
    Prices = {1, 2}
    Amounts = {1}
    MonthLength = 9
    MaxTime = 4
    MaxChange = 1
    ProcessingInterval = 2
    MaxEras = 2
INVARIANTS
    TypeOK
    ChainsLinked
    PriceTimeKept
    OrdersOnce
    ErasUpToDate
    RepairsEnd
PROPERTIES
    MergeKeepsBooks
    SplitKeepsBooks
    DeletionIsLocal
    FixUncrosses
    FixRemovesCrossingOnly
SYMMETRY Symmetry
CHECK_DEADLOCK FALSE
