SPECIFICATION Spec
CONSTANTS
    NumPools = 3
    Modes = {"exact", "overbatch", "complete"}
    Budgets = {1, 4}
    MaxSegment = 2
INVARIANTS
    RolloutSize
    MergeKeepsBootstraps
    PoolOrder
PROPERTIES
    RolloutReturns
