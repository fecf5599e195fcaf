SPECIFICATION Spec
CONSTRAINT MCBound
CONSTANTS
    MaxInvoke = 3
    MaxTsdu = 250
    Capacity = 2
    Payloads <- MCPayloads
    Cfgs <- MCCfgs
    Sizes = {100, 200}
    Peers <- MCPeers
    MaxOut = 1
INVARIANTS OneNumberEach
PROPERTIES EndsAreHeard
