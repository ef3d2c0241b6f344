CONSTANTS
    Prices = {1, 2, 3}
    Log <- MCLog
    phi = 1
    rho = 1
    MaxTime = 4
SPECIFICATION Spec
INVARIANTS
    TypeOK
    Ideal
    OnePayingPosition
PROPERTY
    PositionsInOrder
CHECK_DEADLOCK FALSE
