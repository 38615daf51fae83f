SPECIFICATION MachinesSpec
CONSTANTS
    Entry <- MCEntry
    Program <- MCProgram
    NoEntry = NoEntry
    DEPTH = 2
    Reg = {0, 1, 2, 4, 5, 6, 7, 8}
    BARRIER = 6
    WIDTH = 3
    NoInsn = NoInsn
    Register = {0, 1, 2}
    Value = {0, 1}
    Code <- MCCode
    Bubble = Bubble
    RAS_DEPTH = 2
    MAX_CALLS = 5
    Address = {ra, rb, rc}
VIEW Live
INVARIANTS
    MachinesTypeOK
    PointersAgree
    WindowIsValid
    LaneOneIsSafe
    ScreensAgree
    AllowedMeansIndependent
    FlushIsABarrier
    BenchesPass
    ResultsAreArchitectural
    OperandsAreLatest
    CsrReadsAreLatest
    ReturnIsPredicted
    EntriesAreOpenCalls
PROPERTIES
    ImplementsFifo
    PairYoungerIsNext
