SPECIFICATION Spec
CONSTANTS
    Proc = {p1}
    Path <- FilePaths
    Ino = {i1}
    Commands = {"read"}
    MaxTurns = 1
    MaxBlocks = 1
    DiskFills = TRUE
    ReadsFail = FALSE
PROPERTIES
    ReasonShown
SYMMETRY Symmetric
CHECK_DEADLOCK FALSE
