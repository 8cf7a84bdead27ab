SPECIFICATION Spec
CONSTANTS
    NPROC = 4
    NPAGES = 18
    Allocatable = {2, 3, 4, 5, 6, 7, 8, 9, 10, 11, 12, 13, 14, 15, 16, 17}
    NVA = 6
    PROC_START = 2
    CONSOLE = 1
    L1Span = 4
    RefMod = 256
    Text = {2}
    Data = {3}
    BootCounts = {1, 3}
    Val = {"x"}
    Calls = {"getpid", "yield", "page_alloc", "fork", "exit", "fault"}
    Keys = {}
    Remap = FALSE
INVARIANTS
    RefcountExact
    PrivatePages
    KernelPages
    RunningIsSafe
    FreeOwnsNothing
PROPERTIES
    Isolation
