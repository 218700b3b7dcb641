SPECIFICATION Spec
CONSTANTS
    TsPerVersion = 2
    MaxOld = 2
    MaxSaved <- SavedAll
    MaxSteps = 2
    MaxNow = 6
    MaxLife = 3
    MaxRating = 0
INVARIANTS
    DiskHoldsWindow
CHECK_DEADLOCK FALSE
