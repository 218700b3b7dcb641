SPECIFICATION Spec
CONSTANTS
    Timesteps = 4
    BatchSize = 2
    Epochs = 2
    Rollouts <- CutRollouts
INVARIANTS
    CompleteHorizons
CHECK_DEADLOCK FALSE
