SPECIFICATION FairSpec
CONSTANTS
    LAST_PC = 2
    RESET_PC = 0
    DEPTH = 2
    NotTaken = NotTaken
    None = None
    Programs <- MCAny
INVARIANTS
    FrontEndIsOnePath
    FlushMeetsEmptyExecute
    KillMeetsNoRequest
PROPERTIES
    KeepsRetiring
