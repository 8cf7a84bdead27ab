SPECIFICATION MachineFairSpec
CONSTANTS
    SECTORSIZE = 4
    HeaderSize = 8
    ELFHDR = 8
    Keep <- MCKeep
    MemTop = 56
    Images <- MCImages
    Funcs = 2
    addr_end = 4
    Configs <- MCConfigs
    Words = 12
    StackBottom = 2
    KERNEL_STACK_TOP = 7
    MappedTop = 10
    Tables <- MCTables
    PAGESIZE = 2
    PhysPages = 28
    FreePages = {1, 2, 3, 4, 5, 6, 7, 8, 9, 10, 11, 12, 13, 14, 15, 16, 17, 18, 19, 20, 21, 22, 23, 24}
    ramimages <- MCramimages
    StackPage = 9
    Vectors = {3, 13, 17}
    Apics = {TRUE, FALSE}
INVARIANTS
    ImageLoaded
    NeverDies
    FreshStart
    RunsWhatWasAsked
    RegistersSurvive
    HandlesWhatHappened
    LookupFinds
PROPERTIES
    FindsController
    KernelRegainsControl
    StartsUp
