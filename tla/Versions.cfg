SPECIFICATION Spec
CONSTANTS
    TsPerVersion = 2
    MaxOld = 2
    MaxSaved <- SavedTwo
    MaxSteps = 2
    MaxNow = 5
    MaxLife = 3
    MaxRating = 1
INVARIANTS
    WindowOrdered
PROPERTIES
    RestartKeepsWindow
    RatingsSurvive
CHECK_DEADLOCK FALSE
