SPECIFICATION Spec
CONSTANTS
    Timesteps = 4
    BatchSize = 2
    Epochs = 2
    Rollouts <- AllRollouts
INVARIANTS
    BootstrapsAligned
    SuffixesAreTrajectories
    WholeRolloutsBootstrap
    EachRowOncePerEpoch
PROPERTIES
    UpdateEnds
CHECK_DEADLOCK FALSE
