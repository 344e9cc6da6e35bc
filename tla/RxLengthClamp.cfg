\* A caller whose receive buffer is 40000 bytes long (BufferLen >= 2^15).
CONSTANTS
    N = 4
    MaxRx = 2
    BadFrames = FALSE
    FrameLens = {60, 1514}
    BufferLens = {40000}
SPECIFICATION Spec
INVARIANT RxCopyWithinFrame
