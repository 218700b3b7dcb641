SPECIFICATION Spec
CONSTANTS
    Limits <- LimitOne
    PolicyFolder = TRUE
    HasHead = TRUE
    MaxGen = 2
    MaxSecond = 2
INVARIANT NewCheckpointKept
CHECK_DEADLOCK FALSE
