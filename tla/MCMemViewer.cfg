SPECIFICATION ViewFairSpec
CONSTANTS
    NPROC = 4
    NPAGES = 20
    Allocatable = {2, 3, 4, 5, 6, 7, 8, 9, 10, 11, 12, 13, 14, 15, 16, 17, 18, 19}
    NVA = 11
    PROC_START = 9
    CONSOLE = 1
    L1Span = 11
    RefMod = 256
    Text = {9}
    Data = {}
    BootCounts = {1, 3}
    Val = {}
    Calls = {"fork", "exit", "fault"}
    Keys = {"reboot"}
    Remap = FALSE
    Reserved = {0, 1}
    Period = 1
INVARIANTS
    MapIsTrue
PROPERTIES
    EveryoneIsShown
