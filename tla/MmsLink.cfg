SPECIFICATION FairSpec
CONSTANTS
    MaxInvoke = 2
    MaxTsdu = 300
    Capacity = 2
    Payloads <- MCPayloads
    ClientConfigs <- MCClients
    ServerConfigs <- MCServers
    RequestSizes = {100, 180}
    AnswerSizes = {100, 220}
    MaxCalls = 3
    MaxReports = 1
    MaxRead = 2
INVARIANTS CallsKeepTheTerms
PROPERTIES ClientNeverHangs ServerLearns
CHECK_DEADLOCK FALSE
