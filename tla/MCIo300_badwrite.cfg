SPECIFICATION FairSpec
CONSTANTS
    CACHE_SIZE = 2
    Bytes = {90, 91}
    Sizes = {1, 3}
    Offsets <- SmallOffsets
    Hole = 0
    Junk = 99
    Files <- NewFile
    MaxLen = 4
    Roles = {"append", "log", "reader", "any"}
    Faults <- WriteFaults
INVARIANTS
    StaysInCache
PROPERTIES
    NothingForgotten
    CallsReturn
