SPECIFICATION Spec
CONSTANTS
    Proc = {p1}
    Path <- FilePaths
    Ino = {i1, i2}
    Commands = {"read", "write"}
    MaxTurns = 2
    MaxBlocks = 2
    DiskFills = FALSE
    ReadsFail = FALSE
INVARIANTS
    ReadShown
SYMMETRY Symmetric
CHECK_DEADLOCK FALSE
