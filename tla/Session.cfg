SPECIFICATION Spec
CONSTANTS
    Sessions <- SomeSessions
    Versions <- OneVersion
    Metrics <- SomeMetrics
    Screens <- SomeScreens
    PartitionLimit = 2
    TuiBuffer = 1
    SparklineWidth = 2
    NumArenas = 2
    TickSkip = 2
    SliceTicks = 1
    PhaseTicks = 3
    MiniBatch = 2
    Epochs = 2
    Rollouts = {4, 5}
    DecisionFrames = 3
    FramesApart = 2
    FramesBack = 4
    MaxStarts = 1
INVARIANTS
    EpisodesAreWhole
    DistillsEachRow
PROPERTIES
    LayoutIsBest
    Returns
    FreshRatingShown
    ImplementsMatches
    KeepsDeciding
CHECK_DEADLOCK FALSE
