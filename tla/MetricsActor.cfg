SPECIFICATION Spec
CONSTANTS
    Modes <- SomeModes
    MaxIteration = 3
INVARIANTS
    RatingsAccumulate
    OpponentRatingsAccumulate
    PhasesAreContinued
    ShowsItsEvaluation
    KeepsOnlyAwaited
    ReportsInOrder
PROPERTIES
    LearnReturns
CHECK_DEADLOCK FALSE
