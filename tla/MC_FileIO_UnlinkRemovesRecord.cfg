CONSTANTS
    c1 = c1
    c2 = c2
    Clients <- MC_Clients
    C = 2
    Bytes <- MC_Bytes
    WriteData <- MC_WriteData
    ReadLens = {2}
    Perms = {"rw", "ro"}
    MaxOff = 3
    MaxOps = 3
    MaxFaults = 0
    NoHandle = NoHandle
    ChunkId <- MC_ChunkId
SPECIFICATION Spec
CHECK_DEADLOCK FALSE
INVARIANT
    UnlinkRemovesRecord
