SPECIFICATION FairSpec
CONSTANTS
    NPROC = 3
    NPAGES = 21
    Allocatable = {2, 3, 4, 5, 6, 7, 8, 9, 10, 11, 12, 13, 14, 15, 16, 17, 18, 19, 20}
    NVA = 7
    PROC_START = 2
    CONSOLE = 1
    L1Span = 2
    RefMod = 256
    Text = {2}
    Data = {3}
    BootCounts = {1, 2}
    Val = {}
    Calls = {"getpid", "yield", "page_alloc", "fork", "exit", "sys_panic", "fault"}
    Keys = {"off", "reboot"}
    Remap = FALSE
INVARIANTS
    TypeOK
    RefcountExact
    NeverWild
PROPERTIES
    GetsToRun
    HandlersFinish
