SPECIFICATION FairSpec
CONSTANTS
    t1 = t1
    t2 = t2
    None = None
    Tag <- MCTag
    Index = {0}
    LAST_WORD = 1
    Fetches <- MCFetches
    Jobs <- MCJobs
    CHAIN = 1
    Contents <- MCContents
VIEW Live
INVARIANTS
    ResponsesReachOwner
    FetchIsFresh
PROPERTIES
    FetchGoesOn
    DataGoesOn
