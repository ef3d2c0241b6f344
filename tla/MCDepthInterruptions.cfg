SPECIFICATION Spec
CONSTANTS
    Levels = {l1, l2}
    Volumes = {0, 1}
    Second = 2
    MaxTime = 6
    MaxChanges = 0
    Histories <- MCHistories
INVARIANT
    ServedOverInterruptions
