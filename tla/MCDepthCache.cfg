SPECIFICATION Spec
CONSTANTS
    Levels = {l1}
    Volumes = {0, 1}
    Second = 2
    MaxTime = 6
    MaxChanges = 2
    Histories <- MCHistories
INVARIANTS
    TypeOK
    PeriodsApart
    ServedExactly
    NothingForgotten
