SPECIFICATION Spec
CONSTANTS
    LAST_PC = 3
    RESET_PC = 0
    DEPTH = 2
    NotTaken = NotTaken
    None = None
    Programs <- MCJumpBehindTrap
PROPERTIES
    TrapRedirectIsTaken
