SPECIFICATION Spec
CONSTANTS
    a1 = a1
    a2 = a2
    a3 = a3
    b1 = b1
    m1 = m1
    ds1 = ds1
    ds2 = ds2
    Blocks = {b1}
    None = None
    Never = Never
    SeqMod <- SmallSeqMod
    Assoc = {a1, a2}
    Member = {m1}
    DataSet = {ds1, ds2}
    MembersOf <- SameMember
    BufferLen = 1
    BufTm = 1
    IntgPds = {1}
    Lingers = {1}
    Stale = 1
    ConfRevMod = 3
    Kinds = {TRUE, FALSE}
    Deletable = {ds2}
    Structures <- SwitchBoth
    Taken = {1, 3, 10}
    Misfits = TRUE
    MaxWrites = 1
    MaxEntry = 2
SYMMETRY Symmetric
INVARIANTS TwoViewsAgree ClaimsAgree
PROPERTIES ReconfiguredOnlyIdle
