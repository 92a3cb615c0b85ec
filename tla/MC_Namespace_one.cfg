CONSTANTS
    c1 = c1
    c2 = c2
    n1 = n1
    n2 = n2
    Clients <- MC_OneClient
    Names <- MC_Names
    Root = 0
    MaxOps = 5
    MaxFaults = 1
SPECIFICATION Spec
CHECK_DEADLOCK FALSE
INVARIANTS
    NlinkCountsSubdirs
    NoDetachedSubtree
PROPERTY
    DirTreeSpec
