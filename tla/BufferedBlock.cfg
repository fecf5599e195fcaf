SPECIFICATION Spec
CONSTANTS
    a1 = a1
    a2 = a2
    a3 = a3
    b1 = b1
    m1 = m1
    ds1 = ds1
    ds2 = ds2
    Blocks = {b1}
    None = None
    Never = Never
    SeqMod <- SmallSeqMod
    Assoc = {a1, a2, a3}
    Member = {m1}
    DataSet = {ds1}
    MembersOf <- OneDataSet
    BufferLen = 2
    BufTm = 1
    IntgPds = {0}
    Lingers = {1}
    Stale = 0
    ConfRevMod = 3
    Kinds = {TRUE}
    Deletable = {}
    Structures <- AskAndPurge
    Taken = {10}
    Misfits = FALSE
    MaxWrites = 2
    MaxEntry = 3
SYMMETRY Symmetric
INVARIANTS BufferIsSound
PROPERTIES LeaseHonoured NothingMissedUnseen HolderSpec
