SPECIFICATION Spec
CONSTANTS
    B = 2
    Pages = {1, 2, 3, 4, 5, 6}
    Frames = {100}
    LARGE = 200
    Perms <- SomePerms
INVARIANTS
    FindsTruth
    NextSkipsNothing
    MapNeverAsserts
    FreesTheTree
PROPERTIES
    WalkEnds
