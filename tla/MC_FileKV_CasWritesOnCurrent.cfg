CONSTANTS
    p1 = p1
    p2 = p2
    NoFile = NoFile
    Empty = Empty
    Absent = Absent
    Procs <- MC_Procs
    Wipers = {}
    MaxOps = 4
    MaxCrashes = 0
    Created = TRUE
SPECIFICATION Spec
CHECK_DEADLOCK FALSE
SYMMETRY Symmetry
INVARIANTS
    CasWritesOnCurrent
