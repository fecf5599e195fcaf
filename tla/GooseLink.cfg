SPECIFICATION FairSpec
CONSTANTS
    None = None
    MinTime = 2
    MaxTime = 4
    TalFactor = 2
    StTop = 9
    SqTop = 4
    SentTop = 3
    ConfRevs = {1, 2}
    Window = 2
    MaxDelay = 1
    Boot = 10
    Configs <- Reconfigured
    SimModes = {"off", "preferred"}
    Expected <- Adopting
    Toggles = TRUE
    MaxVersion = 2
    MaxInFlight = 2
INVARIANTS BeliefIsRight
PROPERTIES OnlyTheNextState ExpiresForALoss CatchesUp
