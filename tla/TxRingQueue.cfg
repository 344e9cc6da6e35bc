\* Linear CPBs on a platform whose PciIo->Map returns a mapping (in full or
\* in part): the ring implements the TxQueue abstraction, and every buffer
\* comes back.  Nine frames go more than twice round the four-slot ring.
CONSTANTS
    N = 4
    MaxFrames = 9
    MaxEntries = 3
    MaxFragCnt = 0
    TxModes = {"linear"}
    MapResults = {"ok", "partial"}
SPECIFICATION Spec
PROPERTY TxRefinesQueue
PROPERTY EveryFrameReturned
