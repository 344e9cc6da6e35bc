------------------------------- MODULE TxRing -------------------------------
(***************************************************************************)
(* The transmit descriptor ring of the mGbE UNDI driver (Intelgbe.c) and   *)
(* the DWC EQoS transmit DMA engine that consumes it.                      *)
(*                                                                         *)
(* The driver owns the software cursors cur_tx (next slot to fill) and     *)
(* dirty_tx (next slot to reclaim) and the per-slot TxBufferMappings.      *)
(* IntelgbeTransmit fills descriptors and writes the tail pointer register *)
(* last, IntelgbeFreeTxBuffers (UNDI Status, GET_TRANSMITTED_BUFFERS)      *)
(* hands finished buffers back.  The DMA engine is a concurrent actor: it  *)
(* fetches the descriptor at its current pointer while that pointer is not *)
(* the tail and the descriptor's OWN bit is set, sends it and clears OWN.  *)
(* StartDriver re-runs intelgbe_init_hw, whose dma_init rewrites the ring  *)
(* registers and zeroes every descriptor (TxDmaReinit, used by Adapter).   *)
(*                                                                         *)
(* A frame is a number 1..MaxFrames standing for its buffer address; 0 is  *)
(* the null address.  Slot indices are 0..N-1 (DEFAULT_TX_DESCRIPTORS).    *)
(***************************************************************************)
EXTENDS Naturals, Sequences, FiniteSets

CONSTANTS
    N,            \* DEFAULT_TX_DESCRIPTORS, a power of two
    MaxFrames,    \* frames the caller submits in one behaviour
    MaxEntries,   \* largest NumEntries a Status call offers ((DBsize-8)/8)
    MaxFragCnt,   \* largest FragCnt of a fragmented CPB
    TxModes,      \* subset of {"linear", "fragmented"}: CPB kinds the caller uses
    MapResults    \* subset of {"ok", "partial", "fail"}: outcomes of PciIo->Map

ASSUME N \in {2, 4, 8, 16} /\ MaxFrames \in Nat /\ MaxEntries \in Nat \ {0}
ASSUME TxModes \subseteq {"linear", "fragmented"} /\ TxModes # {}
ASSUME MapResults \subseteq {"ok", "partial", "fail"} /\ MapResults # {}

VARIABLES
    cur_tx,           \* tx_queue[0].cur_tx
    dirty_tx,         \* tx_queue[0].dirty_tx
    tx_desc,          \* tx_queue[0].tx_desc[0..N-1]
    TxBufferMappings, \* GigAdapter->TxBufferMappings[0..N-1]
    tail,             \* DMA_TXDESC_TAIL_PTR_CH(0), as a slot index
    hwCur,            \* the DMA engine's current descriptor pointer
    nextFrame,        \* the next frame the caller will submit
    submitted,        \* history: frames accepted by IntelgbeTransmit, in order
    sent,             \* history: frames whose descriptor the DMA engine sent
    returned          \* history: buffers handed back by IntelgbeFreeTxBuffers

vars == <<cur_tx, dirty_tx, tx_desc, TxBufferMappings, tail, hwCur,
          nextFrame, submitted, sent, returned>>

Slots == 0 .. N-1
Frames == 1 .. MaxFrames
Addr == {0} \cup Frames

\* A descriptor: OWN (des3 bit 31), FD (bit 29), LD (bit 28), the buffer
\* address in des0 and whether des2 covers the whole frame.
Desc == [own : BOOLEAN, fd : BOOLEAN, ld : BOOLEAN, addr : Addr, whole : BOOLEAN]
ZeroDesc == [own |-> FALSE, fd |-> FALSE, ld |-> FALSE, addr |-> 0, whole |-> FALSE]

\* UNDI_DMA_MAPPING: the caller's address and whether PciIo->Map returned a
\* Mapping handle (PhysicalAddress and Size follow from the Map outcome).
Mapping == [UnmappedAddress : Addr, mapped : BOOLEAN]
ZeroMapping == [UnmappedAddress |-> 0, mapped |-> FALSE]

Next1(i) == (i + 1) % N

-----------------------------------------------------------------------------
\* Variants of driver definitions below, each a plausible slip in the code
\* it stands for; a property is only worth checking if one of them breaks it.
AvailNoReserve ==
    IF dirty_tx > cur_tx THEN dirty_tx - cur_tx ELSE N - cur_tx + dirty_tx
AdvanceCurNoWrap(c) == c + 1
TailPtrAtEntry(e, c) == e
ReclaimableIgnoringOwn(j) ==
    TxBufferMappings[(dirty_tx + j) % N].UnmappedAddress # 0

\* Free descriptors as IntelgbeTransmit computes them: one slot always stays
\* empty so that cur_tx = dirty_tx means an empty ring.
Avail == IF dirty_tx > cur_tx THEN dirty_tx - cur_tx - 1
                              ELSE N - cur_tx + dirty_tx - 1

\* needed_descs: FragCnt, or 1 when FragCnt is 0.  A linear CPB has no
\* FragCnt field; the overlaid bytes are bits 48-63 of FrameAddr, which are
\* 0 for every buffer address, so a linear frame needs one descriptor.
NeededDescs(fragCnt) == IF fragCnt = 0 THEN 1 ELSE fragCnt

\* cur_tx++ with the wrap-around test of IntelgbeTransmit.
AdvanceCur(c) == IF c + 1 >= N THEN 0 ELSE c + 1

\* tx_tail_addr = dma_tx + cur_tx * sizeof (descriptor), written to the tail
\* register after the descriptors of the frame starting at slot e.
TailPtr(e, c) == c

\* The linear branch: record the mapping, map it, fill one descriptor with
\* FD and LD, set OWN, then write the tail.  A failed Map is only logged, so
\* des0 gets the PhysicalAddress left in the zeroed mapping; a partial Map
\* is only logged, so des2 gets the shorter Size.
TransmitLinear(f, mapRes) ==
    LET e == cur_tx
        c == AdvanceCur(cur_tx)
    IN /\ Avail >= NeededDescs(0)
       /\ TxBufferMappings' = [TxBufferMappings EXCEPT ![e] =
              [UnmappedAddress |-> f, mapped |-> mapRes # "fail"]]
       /\ tx_desc' = [tx_desc EXCEPT ![e] =
              [own |-> TRUE, fd |-> TRUE, ld |-> TRUE,
               addr |-> IF mapRes = "fail" THEN 0 ELSE f,
               whole |-> mapRes = "ok"]]
       /\ cur_tx' = c
       /\ tail' = TailPtr(e, c)

\* The fragmented branch: FragCnt descriptors from cur_tx on, the later
\* fragments first and the first one last.  FD and LD are or-ed into a local
\* copy of des3 that is then reloaded from the descriptor before OWN is
\* set, so neither bit reaches the hardware.  IntelgbeMapMem cannot fail.
\* No TxBufferMappings entry is written.
TransmitFragmented(f, fragCnt) ==
    LET e    == cur_tx
        k    == NeededDescs(fragCnt)
        used == {(e + j) % N : j \in 0 .. k - 1}
        c    == (e + k) % N
    IN /\ Avail >= k
       /\ tx_desc' = [i \in Slots |->
              IF i \in used
              THEN [own |-> TRUE, fd |-> FALSE, ld |-> FALSE,
                    addr |-> f, whole |-> TRUE]
              ELSE tx_desc[i]]
       /\ UNCHANGED TxBufferMappings
       /\ cur_tx' = c
       /\ tail' = TailPtr(e, c)

\* IntelgbeTransmit for the caller's next frame.  QUEUE_FULL changes nothing
\* and is the absence of a step.
IntelgbeTransmit ==
    /\ nextFrame <= MaxFrames
    /\ \/ /\ "linear" \in TxModes
          /\ \E r \in MapResults : TransmitLinear(nextFrame, r)
       \/ /\ "fragmented" \in TxModes
          /\ \E k \in 0 .. MaxFragCnt : TransmitFragmented(nextFrame, k)
    /\ nextFrame' = nextFrame + 1
    /\ submitted' = Append(submitted, nextFrame)
    /\ UNCHANGED <<dirty_tx, hwCur, sent, returned>>

-----------------------------------------------------------------------------
\* IntelgbeFreeTxBuffers walks from dirty_tx towards cur_tx and stops at the
\* first descriptor still owned by hardware, at the first slot with no
\* recorded buffer, or after NumEntries buffers.
InFlight == (cur_tx - dirty_tx + N) % N
Slot(j) == (dirty_tx + j) % N
Reclaimable(j) ==
    /\ ~tx_desc[Slot(j)].own
    /\ TxBufferMappings[Slot(j)].UnmappedAddress # 0
FreeCount(numEntries) ==
    LET limit == IF numEntries < InFlight THEN numEntries ELSE InFlight
        ok    == {m \in 0 .. limit : \A j \in 0 .. m - 1 : Reclaimable(j)}
    IN CHOOSE m \in ok : \A m2 \in ok : m2 <= m

\* Each reclaimed slot is unmapped (the result is ignored), its address is
\* written to TxBuffer[count], and mapping and descriptor are zeroed; then
\* dirty_tx moves past them.
IntelgbeFreeTxBuffers(numEntries) ==
    LET k     == FreeCount(numEntries)
        freed == {Slot(j) : j \in 0 .. k - 1}
    IN /\ returned' = returned \o
              [j \in 1 .. k |-> TxBufferMappings[Slot(j - 1)].UnmappedAddress]
       /\ TxBufferMappings' = [i \in Slots |->
              IF i \in freed THEN ZeroMapping ELSE TxBufferMappings[i]]
       /\ tx_desc' = [i \in Slots |->
              IF i \in freed THEN ZeroDesc ELSE tx_desc[i]]
       /\ dirty_tx' = (dirty_tx + k) % N
       /\ UNCHANGED <<cur_tx, tail, hwCur, nextFrame, submitted, sent>>

Status == \E n \in 1 .. MaxEntries : IntelgbeFreeTxBuffers(n)

-----------------------------------------------------------------------------
\* The transmit DMA engine: while its current pointer differs from the tail
\* and the descriptor there is owned, it sends the buffer, writes the
\* descriptor back with OWN clear and moves on.
HwTransmit ==
    /\ hwCur # tail
    /\ tx_desc[hwCur].own
    /\ tx_desc' = [tx_desc EXCEPT ![hwCur].own = FALSE]
    /\ sent' = (sent \cup {tx_desc[hwCur].addr}) \ {0}
    /\ hwCur' = Next1(hwCur)
    /\ UNCHANGED <<cur_tx, dirty_tx, TxBufferMappings, tail, nextFrame,
                   submitted, returned>>

\* What dma_init does to the transmit side when StartDriver re-initialises
\* an initialized adapter: the tail register is set to descriptor 0 and
\* every descriptor is zeroed; cur_tx, dirty_tx and TxBufferMappings keep
\* their values.  The list address is rewritten while the channel is still
\* started, so whether the engine's pointer returns to descriptor 0 is not
\* defined.  The step itself belongs to the adapter (Adapter.tla).
TxDmaReinit ==
    /\ tx_desc' = [i \in Slots |-> ZeroDesc]
    /\ tail' = 0
    /\ hwCur' \in {0, hwCur}
    /\ UNCHANGED <<cur_tx, dirty_tx, TxBufferMappings, nextFrame, submitted,
                   sent, returned>>

-----------------------------------------------------------------------------
\* IntelgbeFirstTimeInit and dma_init on an adapter allocated zeroed.
Init ==
    /\ cur_tx = 0
    /\ dirty_tx = 0
    /\ tx_desc = [i \in Slots |-> ZeroDesc]
    /\ TxBufferMappings = [i \in Slots |-> ZeroMapping]
    /\ tail = 0
    /\ hwCur = 0
    /\ nextFrame = 1
    /\ submitted = << >>
    /\ sent = {}
    /\ returned = << >>

Next ==
    \/ IntelgbeTransmit
    \/ Status
    \/ HwTransmit

\* The DMA engine keeps processing owned descriptors; the caller of the UNDI
\* keeps polling Status for transmitted buffers while any are outstanding.
Fairness ==
    /\ WF_vars(HwTransmit)
    /\ WF_vars(Status)

Spec == Init /\ [][Next]_vars /\ Fairness

-----------------------------------------------------------------------------
TypeOK ==
    /\ cur_tx \in Slots /\ dirty_tx \in Slots /\ tail \in Slots /\ hwCur \in Slots
    /\ tx_desc \in [Slots -> Desc]
    /\ TxBufferMappings \in [Slots -> Mapping]
    /\ nextFrame \in 1 .. MaxFrames + 1
    /\ submitted \in Seq(Frames) /\ returned \in Seq(Addr)
    /\ sent \subseteq Frames

\* A slot whose descriptor the hardware may still read, or whose buffer has
\* not been handed back yet.
Live(i) == tx_desc[i].own \/ TxBufferMappings[i].UnmappedAddress # 0

\* IntelgbeTransmit never rewrites the descriptor or the DMA mapping of a
\* slot that is still live: the free-descriptor count (avail) keeps cur_tx
\* from running into dirty_tx, however the caller interleaves Transmit,
\* Status and the DMA engine.
NoOverwrite ==
    [][ Len(submitted') > Len(submitted) =>
          \A i \in Slots : Live(i) =>
              /\ tx_desc'[i] = tx_desc[i]
              /\ TxBufferMappings'[i] = TxBufferMappings[i] ]_vars

\* The ring implements the transmit queue of TxQueue: the frames between
\* dirty_tx and cur_tx are the pending ones, in order; IntelgbeTransmit
\* enqueues, the DMA engine sends the oldest unsent frame, and
\* IntelgbeFreeTxBuffers hands back only sent buffers, oldest first, once.
PendingFrames ==
    [j \in 1 .. InFlight |-> TxBufferMappings[Slot(j - 1)].UnmappedAddress]
TxQ == INSTANCE TxQueue WITH Capacity <- N - 1, next <- nextFrame,
           pending <- PendingFrames, transmitted <- sent, completed <- returned
TxRefinesQueue == TxQ!SafetySpec

\* Every frame IntelgbeTransmit accepts is eventually handed back by
\* IntelgbeFreeTxBuffers, given a DMA engine that keeps running and a caller
\* that keeps polling Status.
EveryFrameReturned ==
    \A f \in Frames :
        (\E j \in DOMAIN submitted : submitted[j] = f)
            ~> (\E j \in DOMAIN returned : returned[j] = f)

\* Every descriptor handed to the DMA engine points at a mapped buffer and
\* covers the whole frame (UndiDmaMapMemoryRead succeeded in full).
OwnedDescMapped ==
    \A i \in Slots : tx_desc[i].own => tx_desc[i].addr # 0 /\ tx_desc[i].whole

\* Every frame on the ring is delimited for the DMA engine: the owned
\* descriptor that starts a frame carries FD and the one that ends it LD.
FramesDelimited ==
    \A i \in Slots :
        tx_desc[i].own =>
            /\ tx_desc[(i + N - 1) % N].addr # tx_desc[i].addr => tx_desc[i].fd
            /\ tx_desc[Next1(i)].addr # tx_desc[i].addr => tx_desc[i].ld

=============================================================================
