SPECIFICATION Spec
CONSTANTS
    Limits <- LimitsThreeOne
    PolicyFolder = TRUE
    HasHead = TRUE
    MaxGen = 5
    MaxSecond = 4
INVARIANTS
    OneGeneration
    ModelSurvives
    RetentionHolds
PROPERTIES
    ResumesFromNewest
CHECK_DEADLOCK FALSE
