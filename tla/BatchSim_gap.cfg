SPECIFICATION Spec
CONSTANTS
    NumGames = 2
    NumPlayers = 3
    GameOf <- MCGameOf
    Teams <- MCTeams
    Layouts <- FixedTeams
    NoTeam = NoTeam
    Configs <- SelfPlayConfigs
    Shares = {1}
    MaxClock = 3
INVARIANTS
    CompleteMeansContiguous
