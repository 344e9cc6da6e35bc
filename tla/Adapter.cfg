\* Linear transmit CPBs with every PciIo->Map outcome, good frames, an
\* 88E2110 PHY, one StopDriver/StartDriver bracket.
CONSTANTS
    N = 2
    MaxFrames = 3
    MaxEntries = 1
    MaxFragCnt = 0
    TxModes = {"linear"}
    MapResults = {"ok", "fail"}
    MaxRx = 3
    BadFrames = FALSE
    FrameLens = {60}
    BufferLens = {2048}
    PhyType = "88E2110"
    Speeds = {1000}
    MaxLinkEvents = 2
    MaxDiagRuns = 1
SPECIFICATION Spec
INVARIANT AdapterTypeOK
INVARIANT DataPathOnInitializedHw
INVARIANT TxBufferConservation
INVARIANT RxAtMostOnce
INVARIANT MediaStatusAccurate
INVARIANT DispatchMeetsContract
INVARIANT McastIpToMacMatchesRfc
PROPERTY BusyLeavesDataPathAlone
