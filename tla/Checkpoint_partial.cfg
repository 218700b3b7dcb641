SPECIFICATION Spec
CONSTANTS
    Limits <- NoLimit
    PolicyFolder = FALSE
    HasHead = TRUE
    MaxGen = 2
    MaxSecond = 2
INVARIANT LoadIsSafe
CHECK_DEADLOCK FALSE
