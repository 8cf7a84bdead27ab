SPECIFICATION ReplaceTextSpec
CONSTANTS
    NPROC = 3
    NPAGES = 15
    Allocatable = {2, 3, 4, 5, 6, 7, 8, 9, 10, 11, 12, 13, 14}
    NVA = 4
    PROC_START = 2
    CONSOLE = 1
    L1Span = 4
    RefMod = 256
    Text = {2}
    Data = {}
    BootCounts = {1}
    Val = {}
    Calls = {"getpid", "yield", "page_alloc", "fork", "exit", "sys_panic", "fault"}
    Keys = {}
    Remap = TRUE
INVARIANTS
    UsedIsCounted
