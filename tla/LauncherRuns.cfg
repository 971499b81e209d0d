SPECIFICATION FairSpec
CONSTANTS
    Script = {s1}
    Pid = {p1, p2, p3, p4}
    COUNT = 2
    Absent = Absent
    Interrupts = TRUE
    Reuse = TRUE
INVARIANTS
    ClientsListed
    SupervisorKnown
PROPERTIES
    StopLeavesNone
    CleansUp
    SupervisorEnds
CHECK_DEADLOCK FALSE
