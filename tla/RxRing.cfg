\* Four descriptors and six frames on the wire (the ring wraps), frames with
\* good and with error status, a minimum and a full-size frame, and callers
\* whose buffer is shorter or longer than the frame.
CONSTANTS
    N = 4
    MaxRx = 6
    BadFrames = TRUE
    FrameLens = {60, 1514}
    BufferLens = {64, 2048}
SPECIFICATION Spec
INVARIANT TypeOK
INVARIANT RxNoMutualWait
INVARIANT RxInOrder
INVARIANT RxCopyWithinFrame
PROPERTY RxEveryStoredFrameDelivered
