SPECIFICATION Spec
CONSTANTS
    Script = {s1, s2}
    Pid = {p1, p2, p3, p4, p5}
    COUNT = 2
    Absent = Absent
    Interrupts = FALSE
    Reuse = FALSE
INVARIANT
    ClientsListed
CHECK_DEADLOCK FALSE
