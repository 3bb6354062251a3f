SPECIFICATION StagesSpec
CONSTANTS
    Chunks = {1, 2, 3}
    Near <- Nearest
    AnnK = 1
    OtherPairs = {{1, 3}}
    Answers <- Picks
    Enough = 1
    Excess <- Excesses
    MaxRounds = 1
    MaxReopen = 1
    MaxAttempts = 2
    MaxVersion = 3
    MaxChanges = 3
    Faults = {"fail", "kill"}
    MaxFaults = 2
    NoEdge = NoEdge
    EntityIds = {1, 2, 3, 4}
    Key <- Keys
    Form <- Surfaces
    Close = {{1, 2}, {2, 3}, {3, 4}}
    MaxMoves = 4
    MaxBreaks = 1
INVARIANTS NothingForgotten EvolutionSettled
PROPERTIES ExistingLinksStand ClustersStand MergesAreComplete
CHECK_DEADLOCK FALSE
