SPECIFICATION Spec
SYMMETRY MCSymmetry
CONSTANTS
    Assoc = {a1, a2}
    Objects = {pos}
    Values = {open, closed}
    Nums = {1, 2}
    SboTimeout = 1
    MaxCalls = 2
    MaxChanges = 1
    None = None
    Engineered <- MCModels
    Modes <- MCModes
    Bars <- MCBars
    Waits = {0, 1}
    Tests = {FALSE}
    QueueCap = 1
    SocketCap = 1
INVARIANTS ToldTheTruth ResultsComeBack
PROPERTIES ClaimsAreTheHolders ArmedObeysTheBay
