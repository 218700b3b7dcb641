SPECIFICATION Spec
CONSTANTS
    NumGames = 2
    NumPlayers = 3
    GameOf <- MCGameOf
    Teams <- MCTeams
    Layouts <- FixedTeams
    NoTeam = NoTeam
    Configs <- AllConfigs
    Shares = {0, 2, 3}
    MaxClock = 3
INVARIANTS
    TypeOK
    BudgetAccounting
    OneFinalOverrun
    LearnerContract
    SteadyContiguous
    SteadyBootstraps
    DelayReplaysPrevious
PROPERTIES
    NothingLost
    RunReturns
    ImplementsContract
