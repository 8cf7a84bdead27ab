SPECIFICATION TerminalSpec
CONSTANTS
    Bits = 4
    CONSOLE_ROWS = 3
    CONSOLE_COLUMNS = 2
    Procs = {"p", "q"}
    Messages <- MCMessages
    Positions <- MCPositions
    Items <- MCItems
    Sizes = {0, 1, 3, 9}
    PanicSize = 7
    Devices = {"console", "buffer", "keyboard"}
    Keys <- MCKeys
    MaxDown = 2
    MaxQueue = 3
INVARIANTS
    StaysOnScreen
    ShowsTail
    BufferHolds
    ParsesBack
    NoStuckModifier
    OffOnPurpose
