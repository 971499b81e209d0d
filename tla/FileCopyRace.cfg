SPECIFICATION Spec
CONSTANTS
    Proc = {p1, p2}
    Path <- MixedPaths
    Ino = {i1, i2}
    Commands = {"copy", "rmdir"}
    MaxTurns = 2
    MaxBlocks = 1
    DiskFills = FALSE
    ReadsFail = FALSE
PROPERTIES
    SourceMissingTrue
SYMMETRY Symmetric
CHECK_DEADLOCK FALSE
