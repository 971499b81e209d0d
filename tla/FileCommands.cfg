SPECIFICATION Spec
CONSTANTS
    Proc = {p1, p2}
    Path <- MixedPaths
    Ino = {i1, i2}
    Commands = {"create", "delete", "write", "read", "copy", "info", "list", "mkdir", "rmdir"}
    MaxTurns = 3
    MaxBlocks = 1
    DiskFills = TRUE
    ReadsFail = TRUE
SYMMETRY Symmetric
INVARIANTS
    AppendsKept
PROPERTIES
    CopyFaithful
    MkdirObstructed
CHECK_DEADLOCK FALSE
