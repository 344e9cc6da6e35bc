\* Fragmented CPBs: their buffers are never handed back by Status.
CONSTANTS
    N = 4
    MaxFrames = 3
    MaxEntries = 2
    MaxFragCnt = 2
    TxModes = {"linear", "fragmented"}
    MapResults = {"ok"}
SPECIFICATION Spec
PROPERTY EveryFrameReturned
