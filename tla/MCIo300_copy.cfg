SPECIFICATION Spec
CONSTANTS
    CACHE_SIZE = 4
    Bytes = {90}
    Sizes = {2, 5}
    Offsets = {0, 2, 4, 6}
    Hole = 0
    Junk = 99
    Files <- SomeFiles
    MaxLen = 9
    Roles = {"reader", "inplace", "append"}
    Faults <- ReadFaults
PROPERTIES
    Transparent
