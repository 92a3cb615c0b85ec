CONSTANTS
    p1 = p1
    p2 = p2
    NoFile = NoFile
    Empty = Empty
    Absent = Absent
    Procs <- MC_OneProc
    Wipers <- MC_OneProc
    MaxOps = 10
    MaxCrashes = 0
    Created = FALSE
SPECIFICATION Spec
CHECK_DEADLOCK FALSE
INVARIANTS
    TypeOK
PROPERTIES
    KVContractSpec
