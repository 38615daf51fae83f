SPECIFICATION FairSpec
CONSTANTS
    LANES = 2
    BITS = 2
    COUNTS = 2
    Vreg = {0, 1}
    Instruction <- MCInstruction
    KILLS = "early"
    TRAP = FALSE
    None = None
VIEW Live
INVARIANTS
    OneRequest
PROPERTIES
    ImplementsVectorArch
    RequestEnds
