SPECIFICATION FairSpec
CONSTANTS
    Assoc = {a1, a2}
    Count = 2
    Act = 1
    Writes <- MCWrites
    Structures <- MCStructures
    Settings = {x, y}
    None = None
    Never = Never
    Secs = {0, 1}
    Stale = 1
    MaxCalls = 2
INVARIANTS GroupsAreAsShown
PROPERTIES EditIsExclusive EditLands ReservationEnds
