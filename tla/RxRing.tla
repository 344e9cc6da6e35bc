------------------------------- MODULE RxRing -------------------------------
(***************************************************************************)
(* The receive descriptor ring of the mGbE UNDI driver and the DWC EQoS    *)
(* receive DMA engine that fills it.                                       *)
(*                                                                         *)
(* dma_init arms every descriptor (intelgbe_dma_rx_desc_init) and sets the *)
(* tail pointer one past the last descriptor.  The engine stores an        *)
(* arriving frame in the descriptor at its current pointer when that       *)
(* pointer is not the tail and the descriptor's OWN bit is set; otherwise  *)
(* the frame is dropped.  IntelgbeReceive (UNDI Receive) looks at cur_rx   *)
(* only: if the hardware has released it, the frame is copied out (or      *)
(* skipped when the descriptor reports an error), the descriptor is        *)
(* re-armed and the tail register is set to it.                            *)
(*                                                                         *)
(* Frames are numbered 1..MaxRx in arrival order; 0 stands for none.       *)
(***************************************************************************)
EXTENDS Integers, Sequences

\* The engine writes at most 1536 bytes (RBSZ) into a 2048-byte buffer.
RX_BUFFER_SIZE_MAX == 1536

CONSTANTS
    N,           \* DEFAULT_RX_DESCRIPTORS
    MaxRx,       \* frames that arrive on the wire in one behaviour
    BadFrames,   \* whether the engine may report a frame with an error
    FrameLens,   \* lengths of arriving frames (rdes3 packet length field)
    BufferLens   \* BufferLen values of the caller's CPB (a UINT32)

ASSUME N \in {2, 4, 8, 16} /\ MaxRx \in Nat /\ BadFrames \in BOOLEAN
ASSUME FrameLens \subseteq 1 .. RX_BUFFER_SIZE_MAX
ASSUME BufferLens \subseteq Nat

VARIABLES
    cur_rx,      \* rx_queue[0].cur_rx
    rx_desc,     \* rx_queue[0].rx_desc[0..N-1]
    rxTail,      \* DMA_RXDESC_TAIL_PTR_CH(0), as a descriptor index 0..N
    hwRx,        \* the engine's current descriptor pointer
    nextRx,      \* the next frame to arrive on the wire
    delivered,   \* history: what each successful Receive handed up (0: nothing)
    lastCopy     \* the last copy Receive made: its length, the frame's, BufferLen

vars == <<cur_rx, rx_desc, rxTail, hwRx, nextRx, delivered, lastCopy>>

Slots == 0 .. N-1
RxFrames == 1 .. MaxRx

\* A descriptor: OWN (des3 bit 31), the frame the engine wrote into its
\* buffer, and whether the write-back status is clean (LD set, no error
\* bits in des3 bits 23/24 or des2 bits 16/17).
RxDesc == [own : BOOLEAN, frame : {0} \cup RxFrames, good : BOOLEAN,
           len : {0} \cup FrameLens]
Copy == [copied : Nat, frameLen : Nat, bufferLen : Nat]
NoCopy == [copied |-> 0, frameLen |-> 0, bufferLen |-> 0]

\* The descriptors as dma_init leaves them on a zeroed buffer pool.
ArmedDesc == [own |-> TRUE, frame |-> 0, good |-> FALSE, len |-> 0]

-----------------------------------------------------------------------------
\* Variants of driver definitions below, each a plausible slip in the code
\* it stands for.
RxTailAtBase == 0
AdvanceRxNoWrap(c) == c + 1
RearmOmitted(d) == d
CopiedInverted(d) == IF ~d.good THEN d.frame ELSE 0
CopyLenUnclamped(frameLen, bufferLen) == frameLen

\* rx_tail_addr = dma_rx + DEFAULT_RX_DESCRIPTORS * sizeof (descriptor):
\* one past the last descriptor, an index the engine's pointer never takes.
RxTailInit == N

\* Re-arming a descriptor: des3 = OWN | BUF1V | IOC, des0 = the slot's own
\* buffer, whose contents stay as they are until the engine overwrites them.
Rearm(d) == [d EXCEPT !.own = TRUE, !.good = FALSE]

\* IntelgbeFirstTimeInit starts the driver's cursor at descriptor 0.
RxCursorInit == 0

\* if (!ret): the frame is copied to the caller only when LD is set and no
\* error bit is; otherwise nothing is handed up.
Copied(d) == IF d.good THEN d.frame ELSE 0

\* (INT16) and (UINT16) of a 32-bit BufferLen: its low 16 bits, signed or not.
Uint16(x) == x % 2^16
Int16(x) == IF Uint16(x) >= 2^15 THEN Uint16(x) - 2^16 ELSE Uint16(x)

\* frame_len = rdes3 & 0x7FFF, cut to the caller's BufferLen when larger:
\* if (frame_len > (INT16) BufferLen) frame_len = (UINT16) BufferLen.
CopyLen(frameLen, bufferLen) ==
    IF frameLen > Int16(bufferLen) THEN Uint16(bufferLen) ELSE frameLen

\* cur_rx++ with the wrap-around test of IntelgbeReceive.
AdvanceRx(c) == IF c + 1 >= N THEN 0 ELSE c + 1

\* IntelgbeReceive when the descriptor at cur_rx has been released.  The
\* status checks only decide whether the frame is copied (CopyLen bytes
\* into the caller's buffer, FrameLen in the DB); either way cur_rx
\* advances, the descriptor is re-armed, the tail register is set to this
\* very descriptor, and the command returns PXE_STATCODE_SUCCESS.
IntelgbeReceive(bufferLen) ==
    LET entry == cur_rx
        d     == rx_desc[entry]
    IN /\ ~d.own
       /\ delivered' = Append(delivered, Copied(d))
       /\ lastCopy' = IF Copied(d) # 0
                      THEN [copied |-> CopyLen(d.len, bufferLen),
                            frameLen |-> d.len, bufferLen |-> bufferLen]
                      ELSE lastCopy
       /\ cur_rx' = AdvanceRx(entry)
       /\ rx_desc' = [rx_desc EXCEPT ![entry] = Rearm(d)]
       /\ rxTail' = entry
       /\ UNCHANGED <<hwRx, nextRx>>

\* IntelgbeReceive with the descriptor at cur_rx still armed: NO_DATA.
ReceiveNoData ==
    /\ rx_desc[cur_rx].own
    /\ UNCHANGED vars

-----------------------------------------------------------------------------
\* The engine can store a frame: its pointer is not the tail and the
\* descriptor there is armed.
CanStore == hwRx # rxTail /\ rx_desc[hwRx].own

\* A frame arrives and the engine writes it back into the current descriptor
\* with OWN clear, then moves to the next one.  A frame with receive errors
\* is written back with error status.
HwStore ==
    /\ nextRx <= MaxRx
    /\ CanStore
    /\ \E good \in IF BadFrames THEN BOOLEAN ELSE {TRUE}, len \in FrameLens :
           rx_desc' = [rx_desc EXCEPT ![hwRx] =
              [own |-> FALSE, frame |-> nextRx, good |-> good, len |-> len]]
    /\ hwRx' = (hwRx + 1) % N
    /\ nextRx' = nextRx + 1
    /\ UNCHANGED <<cur_rx, rxTail, delivered, lastCopy>>

\* A frame arrives while the engine has no descriptor: it is lost.
HwDrop ==
    /\ nextRx <= MaxRx
    /\ ~CanStore
    /\ nextRx' = nextRx + 1
    /\ UNCHANGED <<cur_rx, rx_desc, rxTail, hwRx, delivered, lastCopy>>

\* What dma_init does to the receive side when StartDriver re-initialises
\* an initialized adapter: every descriptor re-armed, the tail past the end,
\* cur_rx kept.  The list address is rewritten while the channel is
\* started, so whether the engine's pointer returns to descriptor 0 is not
\* defined.  The step itself belongs to the adapter (Adapter.tla).
RxDmaReinit ==
    /\ rx_desc' = [i \in Slots |-> Rearm(rx_desc[i])]
    /\ rxTail' = RxTailInit
    /\ hwRx' \in {0, hwRx}
    /\ UNCHANGED <<cur_rx, nextRx, delivered, lastCopy>>

-----------------------------------------------------------------------------
\* IntelgbeFirstTimeInit (cur_rx = 0) and dma_init.
Init ==
    /\ cur_rx = RxCursorInit
    /\ rx_desc = [i \in Slots |-> ArmedDesc]
    /\ rxTail = RxTailInit
    /\ hwRx = 0
    /\ nextRx = 1
    /\ delivered = << >>
    /\ lastCopy = NoCopy

Next ==
    \/ \E b \in BufferLens : IntelgbeReceive(b)
    \/ ReceiveNoData
    \/ HwStore
    \/ HwDrop

\* The caller of the UNDI keeps polling Receive.
Spec == Init /\ [][Next]_vars /\ WF_vars(\E b \in BufferLens : IntelgbeReceive(b))

-----------------------------------------------------------------------------
TypeOK ==
    /\ cur_rx \in Slots /\ hwRx \in Slots /\ rxTail \in 0 .. N
    /\ rx_desc \in [Slots -> RxDesc]
    /\ nextRx \in 1 .. MaxRx + 1
    /\ delivered \in Seq({0} \cup RxFrames)
    /\ lastCopy \in Copy

\* The driver and the engine never wait for each other: whenever the
\* descriptor at cur_rx is still armed (Receive returns NO_DATA), the engine
\* can store the next frame.  Receive sets the tail register to the
\* descriptor it has just re-armed, which the engine may not use yet.
RxNoMutualWait == rx_desc[cur_rx].own => CanStore

\* Receive hands frames up in the order they arrived, each at most once.
DeliveredFrames == SelectSeq(delivered, LAMBDA f : f # 0)
RxInOrder ==
    \A i, j \in DOMAIN DeliveredFrames :
        i < j => DeliveredFrames[i] < DeliveredFrames[j]

\* Every good frame the engine has stored is eventually handed up by a
\* caller that keeps polling Receive.
RxEveryStoredFrameDelivered ==
    \A f \in RxFrames :
        (\E i \in Slots : ~rx_desc[i].own /\ rx_desc[i].good /\ rx_desc[i].frame = f)
            ~> (\E j \in DOMAIN delivered : delivered[j] = f)

\* Receive copies no more than the frame the engine stored and no more than
\* the caller's buffer holds: the clamp of frame_len against BufferLen.
RxCopyWithinFrame ==
    /\ lastCopy.copied <= lastCopy.frameLen
    /\ lastCopy.copied <= lastCopy.bufferLen

\* Receive returns PXE_STATCODE_SUCCESS only when it passed a frame to the
\* protocol ("@retval PXE_STATCODE_SUCCESS If we passed the goods to the
\* protocol").
RxNoPhantom == \A j \in DOMAIN delivered : delivered[j] # 0

=============================================================================
