SPECIFICATION FairSpec
CONSTANTS
    FrameCells = 1
    CellCount = 2
    Temperatures = 1
    FifoDepth = 1
    Ids = {"EngineRPMTemp", "BMS4", "Hydrogen",
           "EngineHeartbeat"}
    MaxMessages = 2
INVARIANT GroupsAgreeAtRest
INVARIANT QuietPacketsAreWhole
PROPERTY NeverBack
PROPERTY FramesGetThrough
