\* No transmit traffic, good frames, one StopDriver/StartDriver bracket.
CONSTANTS
    N = 2
    MaxFrames = 0
    MaxEntries = 1
    MaxFragCnt = 0
    TxModes = {"linear"}
    MapResults = {"ok"}
    MaxRx = 3
    BadFrames = FALSE
    FrameLens = {60}
    BufferLens = {2048}
    PhyType = "88E2110"
    Speeds = {1000}
    MaxLinkEvents = 0
    MaxDiagRuns = 1
SPECIFICATION Spec
INVARIANT ReceiveNeverStuck
