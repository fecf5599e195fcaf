SPECIFICATION Spec
CONSTANTS
    None = None
    Octet = 2
    Rate = 5
    FieldTop = 16
    Asdus = 2
    SampleLen = 5
    Unit = 4
    SubRate = 5
    SubFieldTop = 16
    StaleAfter = 1
    Capacity = 1
    LostTop = 5
    Period = 10
    MaxDelay = 1
    MaxInFlight = 1
    Clocks <- Said
    Streams <- Configured
    Strangers <- Others
    BlockLayout <- Written
INVARIANTS FramesWhole LossIsShown StreamIsAsBelieved
