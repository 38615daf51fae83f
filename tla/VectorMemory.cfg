SPECIFICATION FairSpec
CONSTANTS
    Address <- MCAddress
    Base <- MCBase
    None = None
    LAST = 2
    SCALAR = SCALAR
    KILLS = "drained"
    MAX_KILLS = 2
INVARIANTS
    OneOwnerInFlight
    SlotTellsMemory
    LanesAreItsOwn
PROPERTIES
    ImplementsVectorWalk
    VectorAccessEnds
