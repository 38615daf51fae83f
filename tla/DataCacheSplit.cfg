SPECIFICATION Spec
CONSTANTS
    t1 = t1
    t2 = t2
    t3 = t3
    t4 = t4
    t5 = t5
    device = device
    None = None
    Tag <- MCTag
    Index = {0}
    LAST_WORD = 1
    Uncached <- MCUncached
    Accesses <- MCAccesses
    Contents <- MCContents
    SPLIT = TRUE
INVARIANTS
    UncachedStoreIsWhole
