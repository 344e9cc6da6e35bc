\* Both CPB kinds and every PciIo->Map outcome:
\* the ring discipline of IntelgbeTransmit.
CONSTANTS
    N = 4
    MaxFrames = 7
    MaxEntries = 2
    MaxFragCnt = 2
    TxModes = {"linear", "fragmented"}
    MapResults = {"ok", "partial", "fail"}
SPECIFICATION Spec
INVARIANT TypeOK
PROPERTY NoOverwrite
