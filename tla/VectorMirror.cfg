SPECIFICATION Spec
CONSTANTS
    LANES = 2
    BITS = 2
    COUNTS = 2
    Vreg = {0, 1}
    Instruction <- MCInstruction
    KILLS = "never"
    TRAP = TRUE
    None = None
INVARIANT MirrorIsCurrent
