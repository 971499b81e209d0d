SPECIFICATION Spec
CONSTANTS
    Proc = {p1}
    Path <- MixedPaths
    Ino = {i1, i2}
    Commands = {"copy"}
    MaxTurns = 1
    MaxBlocks = 2
    DiskFills = FALSE
    ReadsFail = FALSE
PROPERTIES
    CopyComplete
SYMMETRY Symmetric
CHECK_DEADLOCK FALSE
