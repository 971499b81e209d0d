SPECIFICATION Spec
CONSTANTS
    Proc = {p1}
    Path <- DirPaths
    Ino = {i1}
    Commands = {"mkdir", "rmdir", "create"}
    MaxTurns = 2
    MaxBlocks = 0
    DiskFills = FALSE
    ReadsFail = FALSE
PROPERTIES
    MkdirMakesDirectory
SYMMETRY Symmetric
CHECK_DEADLOCK FALSE
