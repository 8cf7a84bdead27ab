SPECIFICATION ProgramsSpec
CONSTANTS
    Inputs <- MCInputs
    Olds <- MCOlds
    Sizes = {0, 1, 3, 4, 8}
    Strides = {0, 2, 3, 5, 7}
    MAX_BLOCK_SIZE = 3
    Rounds = 2
    WORD = 64
    Faults = {"read", "write", "seek", "close", "short read", "short write"}
INVARIANTS
    ExitTellsTruth
PROPERTIES
    ProgramsEnd
