CONSTANTS
    p1 = p1
    p2 = p2
    NoFile = NoFile
    Empty = Empty
    Absent = Absent
    Procs <- MC_OneProc
    Wipers = {}
    MaxOps = 4
    MaxCrashes = 1
    Created = FALSE
SPECIFICATION SpecWithCrashes
CHECK_DEADLOCK FALSE
INVARIANTS
    RecordIntact
