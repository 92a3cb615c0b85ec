CONSTANTS
    c1 = c1
    c2 = c2
    Clients <- MC_Clients
    C = 2
    Bytes <- MC_Bytes
    WriteData <- MC_WriteData
    ReadLens = {2}
    Perms = {"rw", "ro"}
    MaxOff = 3
    MaxOps = 4
    MaxFaults = 1
    NoHandle = NoHandle
    ChunkId <- MC_ChunkId
SPECIFICATION Spec
CHECK_DEADLOCK FALSE
SYMMETRY Symmetry
INVARIANTS
    ReadSeesCommitted
