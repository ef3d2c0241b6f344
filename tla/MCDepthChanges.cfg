CONSTANTS
    Orders = {1, 2, 3}
    SideOf <- MCSideOf
    Prices = {1, 2}
    Amounts = {1}
    MonthLength = 100
    MaxTime = 3
    FetchCount = 2
    Frequencies = {1, 2}
    Starts = {1, 2}
    MaxEvents = 2
    Tables <- MCTables
SPECIFICATION Spec
INVARIANTS
    TypeOK
    AnswerExact
    BookIsLive
