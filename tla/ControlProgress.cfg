SPECIFICATION FairSpec
CONSTANTS
    Assoc = {a1, a2}
    Objects = {pos}
    Values = {open}
    Nums = {1}
    SboTimeout = 1
    MaxCalls = 2
    MaxChanges = 0
    None = None
    Engineered <- MCOperable
    Modes <- MCModes
    Bars <- MCBars
    Waits = {0, 1}
    Tests = {FALSE}
    QueueCap = 1
    SocketCap = 1
PROPERTIES AwaitedComes ArmedEnds
