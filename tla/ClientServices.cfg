SPECIFICATION Spec
CONSTANTS
    Topics = {"logs", "files", "lists", "delivery", "served", "tracking", "names", "codec"}
    None = None
    LogCapacity = 2
    PageLimit = 1
    MaxHeld = 3
    LogBlocks <- MCLogBlocks
    LogSets <- MCLogSets
    LogTriggers = {"dchg", "qchg", "dupd"}
    Changes <- MCChanges
    LcbValues <- MCLcbValues
    MaxMade = 4
    MaxMoment = 1
    MaxLcbWrites = 1
    MaxLogRestarts = 1
    m1 = m1
    m2 = m2
    FilePeers = {"a1", "a2"}
    Paths = {"f"}
    Sizes = {2, 3}
    FileChunk = 2
    MaxHandles = 1
    MaxLen = 4
    Deletable = TRUE
    MaxTransfers = 2
    MaxFileChanges = 1
    DeclaredNames = {2, 4}
    Creatable = {1, 3, 5}
    NameCost <- MCNameCost
    PageBudget = 3
    MaxCreated = 2
    MaxWalked = 4
    MaxNameChanges = 3
    Subscribed = {"r1", "r2"}
    Numbered = {"r1"}
    Templates <- MCTemplates
    Header = 1
    SubHeader = 1
    PeerPdus = {3, 4, 6}
    SegmentFloor = 4
    EventCap = 3
    RunCap = 1
    EntryCap = 3
    InboxCap = 2
    MaxEmitted = 2
    MaxReenabled = 1
    Served <- MCServedTree
    LeafType <- MCTypes
    AttributeOf <- MCAttributeOf
    WritableAttrs = {"RptEna"}
    TrackerOf <- MCTrackerOf
    Shapes <- MCAccepted
    Requests <- MCWrites
    MaxServed = 3
    NoFc = "none"
    Trackers <- MCTrackers
    TrackedBlocks = {"b1", "b2"}
    Buffered = {"b1"}
    Departed = "departed"
    Commands = {"o2", "o3"}
    CommandType <- MCCommandType
    Requesters = {"c1"}
    Causes = {"cause1"}
    Nobody = "nobody"
    MaxTracked = 2
    Declarations <- MCDeclarations
    Spelt <- MCSpelt
    ConstraintsOf = {"ST", "MX", "SG", "SE"}
    Places = {0, 1}
    NoPlace = NoPlace
    Wide = 3
    Narrow = 2
    TagMax = 16383
    MaxDepth = 2
    MaxMembers = 3
    MaxPrimitive = 4
    MaxItems = 3
    MaxSteps = 4
    Messages <- MCMessages
    Spoilt <- MCSpoilt
INVARIANTS
    LogsAreFollowed
    FilesAreWhole
    ListsAreWhole
    ReportsAreWhole
    WritesReachTheModel
    TrackersTellTheTruth
    NamesAgree
    CodecAgrees
CHECK_DEADLOCK FALSE
