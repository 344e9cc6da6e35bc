# TLA+ models of the Intel mGbE UEFI UNDI driver

This directory holds TLA+ models of `src/IntelUndiPkg`, the UEFI UNDI
(Universal Network Driver Interface) driver for the Intel mGbE controller.
The controller is a Synopsys DWC Ethernet QoS MAC with its DMA engine, and the
driver talks to an external PHY over MDIO. Each model is written from the C
source, and TLC checks it. `PROJECT.json` lists every component, run, mutant,
finding and hazard, and maps each model definition to the source lines it
translates.

## The system

The parts of the driver, and how they interact:

| Part | Source | State | Operations |
|---|---|---|---|
| UNDI command dispatch | `Decode.c` | `GigAdapter->State` (STOPPED / STARTED / INITIALIZED), `DriverBusy`, `ReceiveStarted`, the CDB's `StatCode`/`StatFlags` | `IntelgbeUndiApiEntry` checks the CDB and the state, then calls one handler per opcode: Get State, Start, Stop, Get Init Info, Initialize, Reset, Shutdown, Receive Filters, Station Address, Status, Fill Header, Transmit, Receive, and others |
| Driver stop/start | `StartStop.c` | `DriverBusy`, `HwInitialized` | `StopDriver` sets `DriverBusy`. `StartDriver` clears `HwInitialized`, re-runs `IntelgbeInititialize` on an initialized adapter, then clears `DriverBusy` |
| TX descriptor ring | `Intelgbe.c` | `tx_queue[0].cur_tx`, `dirty_tx`, `tx_desc[512]`, `TxBufferMappings[512]`, the tail pointer register | `IntelgbeTransmit` (linear or fragmented CPB), `IntelgbeFreeTxBuffers` (called by Status with GET_TRANSMITTED_BUFFERS) |
| RX descriptor ring | `Intelgbe.c`, `intelgbe_stmmac.c` | `rx_queue[0].cur_rx`, `rx_desc[512]`, 2 KiB receive buffers, the tail pointer register | `IntelgbeReceive`, and `intelgbe_dma_rx_desc_init` inside `dma_init` |
| DMA engine (hardware) | none | the current descriptor pointer of each channel | fetches owned descriptors up to the tail, sends or stores a frame, clears OWN |
| MAC/MTL/DMA bring-up | `intelgbe_stmmac.c` | registers | `intelgbe_init_controller`: `dma_init`, `mtl_init`, `mac_init`, interrupts, start. Also `uninit_controller`, `reset_controller` |
| MDIO and generic PHY | `intelgbe_stmmac.c`, `intelgbe_phy.c`, `intelgbe_api.c` | the MDIO address/data registers, `phy->addr`, `phy->id`, `phy->link_up` | MDIO read/write with a busy poll, the PHY address scan, soft reset, link configuration with modify-if-changed, and the autonegotiation wait |
| PHY drivers | `marvell_88e1512.c`, `maxlinear_gpyxxx.c`, `marvell_88e2110.c` | latched PHY interrupt status, or the cached `link_up` | `link_status_change`, `read_status`, `cfg_link`, `initialize` |
| Link status | `intelgbe_stmmac.c`, `Intelgbe.c` | `phy->link_up`, MAC speed/duplex | `intelgbe_link_status`, called through `IsLinkUp` by Status and Initialize |
| ModPHY / XPCS (SGMII) | `intelgbe_stmmac.c` | registers | `modphy_init`, `xpcs_init`, each with retry loops |
| DMA helpers | `Dma.c` | `UNDI_DMA_MAPPING` | allocate, map, unmap and free common buffers; map and unmap caller buffers |
| Driver binding | `Init.c`, `Intelgbe.c` (`IntelgbePciInit`), `AdapterInformation.c` | `mIntelgbeUndi32DeviceList`, `mActiveControllers`, `mActiveChildren`, the `!PXE` `IFcnt`, each controller's private data (with `NiiProtocol31.IfNum`), the child handle and its protocols, the saved PCI attributes | `Supported`/`Start`/`Stop` (child and controller), `InitController`, `GigUndiPxeUpdate`, `IntelgbeUndiUnload`, the image entry point |
| Front-ends and tables | `ComponentName.c`, `DriverConfiguration.c`, `AdapterInformation.c`, `Brand.c`, `DeviceSupport.c` | constant tables | look-ups; the adapter-information `GetInformation` for the media state, which queries the link |

The caller (the UEFI SNP driver) issues UNDI commands one at a time. The
DMA engines run at the same time as the driver, so they are the source of
concurrency. The driver and an engine share each descriptor ring:

- Ownership of a descriptor passes from driver to hardware through the OWN
  bit (des3 bit 31).
- The engine fetches descriptors only up to the tail pointer register.
- On the TX ring, software keeps one slot free. `cur_tx == dirty_tx` means
  the ring is empty.
- On the RX ring, Receive sets the tail to the descriptor it has just
  re-armed.

Re-initialisation (`StartDriver` → `intelgbe_init_hw` → `dma_init`) rewrites
both rings under a running engine, but leaves the driver's cursors as they
were.

## Modules

### `TxRing` — TX descriptor ring and the TX DMA engine

State: `cur_tx`, `dirty_tx`, `tx_desc` (OWN, FD, LD, buffer address, whole
length), `TxBufferMappings` (caller address, mapping handle), `tail`, and
`hwCur` (the engine's pointer). History variables (`submitted`, `sent`,
`returned`) record what the caller and the wire saw. A frame is a number that
stands for its buffer address, and 0 is the null address.

Actions:

- `IntelgbeTransmit` covers the whole function, with two branches:
  - `TransmitLinear`: record the mapping, map the buffer, fill one
    descriptor, set OWN, write the tail.
  - `TransmitFragmented`: fill FragCnt descriptors and write the tail.
  - Which branch runs, the FragCnt and the `PciIo->Map` outcome (ok, partial,
    fail) are inputs.
  - QUEUE_FULL changes nothing, so it is the absence of a step.
- `IntelgbeFreeTxBuffers(NumEntries)` covers the whole reclaim loop. It stops
  at the first descriptor still owned by the engine, at the first slot with no
  recorded buffer, or after NumEntries buffers. `Status` offers every
  NumEntries from 1 to `MaxEntries`.
- `HwTransmit` is the engine.
- `TxDmaReinit` is `dma_init`'s effect on the ring. `Adapter` composes it
  with the RX side.

`TxQueue` is the abstract specification of what the transmit path promises:
- a bounded FIFO of buffers;
- the device sends them in order;
- a buffer is handed back only after its frame is sent, oldest first, once.

`TxRing` implements `TxQueue` under the refinement mapping `PendingFrames` (the
caller addresses in the slots from `dirty_tx` to `cur_tx`), with `sent` and
`returned`.

### `RxRing` — RX descriptor ring and the RX DMA engine

State: `cur_rx`, `rx_desc` (OWN, the frame in the buffer, good status, packet
length), `rxTail` (0..N, where N means one past the end, as `dma_init` sets
it), and `hwRx`. History variables: `delivered` (what each successful Receive
handed up) and `lastCopy` (the length of the last copy, the frame's length and
the caller's BufferLen).

Actions:

- `IntelgbeReceive(BufferLen)` covers the whole handler:
  - the OWN check;
  - the status checks, which decide only whether the frame is copied;
  - the length clamp with its `(INT16)`/`(UINT16)` casts, computed on 16-bit
    values;
  - advancing `cur_rx`, re-arming the descriptor, writing the tail, and
    returning SUCCESS.
- `ReceiveNoData`: Receive returns NO_DATA because the descriptor is still
  armed. This is a real step the caller keeps taking.
- `HwStore` (the engine stores an arriving frame) and `HwDrop` (a frame
  arrives when no descriptor is available).
- `RxDmaReinit` is `dma_init`'s effect on the ring, used by `Adapter`.

### `LinkStatus` — link tracking over the three PHY drivers

State:
- the PHY side: `phyLink`, `phySpeed`, and `latched`, the clear-on-read
  link-change interrupt bit of 88E1512 and GPY;
- the driver side: `link_up` (`phy->link_up`), `link_speed`
  (`mac->link_speed`) and `macSpeed`, the speed field of `MAC_CONFIGURATION`;
- the history variable `linkResult`: the last `IsLinkUp` result since the
  link last changed.

Actions:
- `IntelgbeLinkStatus` covers the whole of `intelgbe_link_status` with the
  PHY driver's `link_status_change` (`ChangeSignalled`: the latched bit, or
  live link ≠ `link_up` on 88E2110) and `read_status`. The `if (link)`
  pointer test is modelled as it is, so `link_up` becomes TRUE after every
  signalled change.
- With the link down, `read_status` hands back an undefined speed: an
  uninitialised local on 88E1512 and GPY, undecoded PCS bits on 88E2110.
  This is a nondeterministic choice over the four speed fields.
- `MacInitLink` is the link part of `intelgbe_mac_init`, run by every
  `init_hw`. `Adapter` uses it.
- `LinkChange`: the link partner takes the link down, or brings it up at a
  speed from `Speeds`.

### `Adapter` — UNDI commands, driver stop/start, both rings and the link

`Adapter` instantiates `TxRing`, `RxRing` and `LinkStatus` over shared
variables and adds `State`, `DriverBusy` and `HwInitialized`.

**The dispatcher** (`Decode.c`, `IntelgbeUndiApiEntry`) is modelled as a
pure operator over a CDB record. `mIntelgbeApiTable` is the 18-entry table
of `Decode.c:382-520`: for each opcode it gives the CPB and DB size rule
(not used, sized, or not checked), the OpFlags rule and the required state.
The entry then runs its checks in the code's order:

1. IFnum above `IFcnt` gives `EFI_INVALID_PARAMETER` / INVALID_CDB.
2. After ExitBootServices it gives NOT_INITIALIZED.
3. A malformed CDB (opcode out of range, a stale CDB, an address without a
   size or a size without an address, a size that breaks the table, OpFlags
   where none are allowed) gives `EFI_NOT_READY` / INVALID_CDB.
4. Otherwise the state check gives NOT_STARTED, NOT_INITIALIZED or SUCCESS.

`Dispatched(cdb)` holds when the command reaches its handler.

**The actions.** Every UNDI command is one action. It includes the
dispatcher (`Dispatched` of a CDB chosen from small sets of sizes and
OpFlags), the handler's `DriverBusy` check and its own checks, and the ring
or link operation the handler calls:

- `UndiStart`, `UndiInitialize` (detect cable, do not detect, or invalid
  OpFlags), `UndiTransmit`, `UndiStatus` (any combination of
  GET_TRANSMITTED_BUFFERS and GET_MEDIA_STATUS, and a DB that is too small),
  and `UndiReceive`.
- `UndiStop`, `UndiReset`, `UndiShutdown` and `UndiStnAddr`. Their handlers
  change nothing the model keeps, so they are stutter steps guarded by the
  dispatcher. Stop does not set the state to STOPPED, although its header
  comment (`Decode.c:622`) says it does. StnAddr writes only `mac.addr` and
  `MacAddrOverride`: nothing programs them into the MAC, and the next
  `IntelgbeInititialize` reads the address back from the hardware. The
  model does not keep the station address.
- `UndiGetState`, `UndiGetInitInfo`, `UndiGetConfigInfo`, `UndiInterrupt`,
  `UndiRecFilter`, `UndiStatistics`, `UndiMcastIpToMac`, `UndiNvData` and
  `UndiFillHeader`. They read or fill the caller's buffers, so they too are
  stutter steps guarded by the dispatcher, with the OpFlags and buffer
  shapes their handlers branch on. RecFilter checks `DriverBusy` first; the
  filter register it writes is not kept. GetInitInfo's BUSY answer cannot
  happen, because the NII is installed only when `UndiEnabled` holds
  (`Init.c:825`). `UndiCommand` is the disjunction of all 18.
- `AipGetInformation` is the adapter-information protocol's
  `GetInformation` for the media state (`AdapterInformation.c`). It calls
  `IsLinkUp`, that is `IntelgbeLinkStatus`, outside the dispatcher, with no
  `DriverBusy` or state check. When `AllocatePool` fails it returns before
  the query, which is the stutter disjunct.
- `StopDriver` and `StartDriver`. StartDriver runs `InitHw` at once on an
  initialized adapter. On any other adapter it clears `HwInitialized`, and
  the next Initialize runs `InitHw`.
- `InitHw` is `intelgbe_init_controller`: `TxDmaReinit`, `RxDmaReinit` and
  `MacInitLink` in one step.
- The DMA engines and the link partner act at any time, also while the
  driver is busy. They leave the control variables alone.

A command that the dispatcher or the handler refuses changes nothing, so it
adds no step beyond the stutter.

**The contract.** `ContractOutcomes` states what the UNDI specification
promises for a CDB:
- the interface must exist;
- a malformed CDB is refused as INVALID_CDB;
- an unstarted interface answers NOT_STARTED;
- a command that needs initialization answers NOT_INITIALIZED until it has
  it;
- after ExitBootServices no command goes through.

`DispatchMeetsContract` checks every CDB of `CdbSpace` against it in every
reachable `State`:
- two IFnums;
- all 19 opcodes, one of them out of range;
- fresh and stale CDBs;
- three sizes, each with and without an address, for both CPB and DB;
- two OpFlags values.

The one freedom it grants is that a command outside the conventional forms
may be refused in a different way.

**The multicast address conversion.** `IntelgbeUndiIp2Mac` translates the
MCAST_IP_TO_MAC handler byte for byte: 33-33 and the last four bytes of an
IPv6 group, or 01-00-5E, the second byte with its top bit cleared, and the
third and fourth bytes of an IPv4 group. `RfcMulticastMac` is an independent
reference written over bit strings (`RECURSIVE BitString`): RFC 1112 places
the low 23 bits of the IPv4 group after the 25-bit prefix 01-00-5E-0, and
RFC 2464 places the low 32 bits of the IPv6 group after 33-33.
`McastIpToMacMatchesRfc` compares the two over IPv4 groups 224.x.y.z and
239.x.y.z and IPv6 groups ff02:: and ff05:: with bytes from
`{0, 127, 128, 255}` (the values on either side of the masked bit), under
both OpFlags values that select each family.

## Runs

| Run | Module / cfg | Expect | What it shows |
|---|---|---|---|
| `tx_safety` | `TxRing` / `TxRingSafety.cfg` | pass | `TypeOK`, `NoOverwrite`: with linear and fragmented CPBs and every Map outcome, Transmit never rewrites a descriptor or a mapping that the engine or the caller still holds. The one-free-slot rule in `avail` is what guarantees this. |
| `tx_queue` | `TxRing` / `TxRingQueue.cfg` | pass | `TxRefinesQueue`: the ring refines `TxQueue`, so frames go out in order and buffers come back in order, once, and only after they were sent. `EveryFrameReturned`: every accepted buffer comes back. |
| `tx_fragmented_stall` | `TxRing` / `TxFragmentedStall.cfg` | violation | `EveryFrameReturned` fails: a fragmented transmit records no buffer, so reclaim stops at it for good. |
| `rx_ring` | `RxRing` / `RxRing.cfg` | pass | `RxNoMutualWait`: when Receive finds nothing, the engine can store. `RxInOrder`: frames come up once, in arrival order. `RxCopyWithinFrame`: for buffers below 32 KiB, no copy is longer than the frame or the buffer. `RxEveryStoredFrameDelivered`: every good stored frame comes up. |
| `rx_length_clamp` | `RxRing` / `RxLengthClamp.cfg` | violation | `RxCopyWithinFrame` fails: with BufferLen = 40000, a 1514-byte frame is copied as 40000 bytes (any frame shorter than BufferLen is). |
| `adapter` | `Adapter` / `Adapter.cfg` | pass | Covers the whole lifecycle, one StopDriver/StartDriver bracket, link changes and both DMA engines (215k states). `DataPathOnInitializedHw`: Transmit, Receive and Status are let through only on hardware that `init_hw` has set up since the last StartDriver. `TxBufferConservation`: every accepted TX buffer is either still recorded or handed back, exactly once, even across the re-init. `RxAtMostOnce`: no frame comes up twice. `MediaStatusAccurate`: with an 88E2110, GetStatus reports the real link state. `DispatchMeetsContract`: in every reachable state, every CDB of `CdbSpace` gets an answer the UNDI contract allows (the order of the IFnum, ExitBootServices, CDB and state checks). `BusyLeavesDataPathAlone`: while the driver is stopped for a re-init, no UNDI command changes the rings, the link or `HwInitialized` (only the DMA engines and the link partner may). `McastIpToMacMatchesRfc`: the multicast MAC the driver computes is the RFC 1112 / RFC 2464 mapping of the group. About 2 min. |
| `adapter_reinit` | `Adapter` / `AdapterReinit.cfg` | violation | `ReceiveNeverStuck` fails: after StartDriver the RX engine and Receive wait on each other for good. |
| `link_stale_up` | `LinkStatus` / `LinkStaleUp.cfg` | violation | `LinkReportAccurate` fails for an 88E1512: the call that sees the link go down reports it down, and the next call reports it up. |
| `bringup` | `Bringup` / `Bringup.cfg` | pass | Over RGMII, PSE and PCH SGMII parts, an unknown device, the three PHY drivers and an unsupported PHY, and every poll outcome: `PollBusyExact`, a poll fails exactly when the bit stays set for all its reads; `SuccessMeansPhyBound`, a successful FirstTimeInit bound the right driver at the right address; `LinkAdvertisedOnSuccess`, it advertises exactly the PHY's abilities with autonegotiation on. |
| `driver_binding` | `DriverBinding` / `DriverBinding.cfg` | pass | Start with every attribute, allocation and map outcome (a one-byte-short map included), PciIo held by another agent; FirstTimeInit and the private-data pool succeed; Stop of child and controller; Unload and reload. `DmaAccounted`: no DMA page or mapping is lost by IntelgbePciInit's OnAllocError path or by Stop (the partial-map unwinding only for a shortfall inside the last page). `ReadyWhenStarted`: a successful Start leaves all three buffers mapped, attributes enabled, UNDI protocols installed. `StopReleasesAll`: a successful Stop releases everything. `ListedPrivateDataLive`: on one controller, the device list never yields the private data a failed Start freed, because UndiError's decrement hides the slot it leaves dangling; with pool failure or two controllers it fails (below). |
| `driver_unload_leak` | `DriverBinding` / `DriverBindingLeak.cfg` | violation | `UnloadReleasesAll` fails: after IntelgbeFirstTimeInit fails, Unload lets the image go with 260 pages mapped and bus mastering on. |
| `driver_nii_routing` | `DriverBinding` / `DriverBindingRouting.cfg` | violation | `NiiRoutesToOwnController` fails with two controllers and every platform call succeeding: a child's NII 3.1 `IfNum` leads `IntelgbeUndiApiEntry` to the other controller's private data. |

Each property of a passing run has a mutant in `PROJECT.json`. A mutant is a
variant of one mapped definition, written as a plausible slip in that code,
and TLC finds the property violated once the variant replaces the definition.
For example:

- dropping the `- 1` from `avail` breaks `NoOverwrite`;
- ignoring OWN in reclaim breaks `TxRefinesQueue`;
- writing the tail at the frame's own slot breaks `EveryFrameReturned`;
- setting the initial RX tail to the ring base, as the TX side does, breaks
  `RxNoMutualWait`;
- omitting the re-arm breaks `RxInOrder`;
- dropping the clamp breaks `RxCopyWithinFrame`;
- inverting `if (!ret)` breaks `RxEveryStoredFrameDelivered`;
- a StartDriver that never re-runs `IntelgbeInititialize` breaks
  `DataPathOnInitializedHw`;
- an 88E2110 change test that only sees the link come up breaks
  `MediaStatusAccurate`;
- a short map that skips `UNMAP_ON_ERROR` breaks `DmaAccounted`;
- not checking the RX buffer mapping's allocation breaks `ReadyWhenStarted`;
- a StopController that keeps the device path breaks `StopReleasesAll`;
- an error path that does not decrement `mActiveControllers` breaks
  `ListedPrivateDataLive`.

## Bounds and why they are enough

- **Ring size.** The real rings have 512 descriptors. The models use N = 4,
  the smallest size at which the following all occur: a full ring (3 in
  flight), a wrap of both cursors, reclaim of part of the ring, and a
  fragmented frame that crosses the wrap. The ring arithmetic does not
  depend on N except through the wrap.
- **Frames.** TX runs submit 7 frames (`tx_safety`) or 9 (`tx_queue`), so
  the cursors go round the ring more than once. The RX run lets 6 frames
  arrive: the engine wraps and meets the driver's tail from behind.
- **Status batch.** `MaxEntries` of 2–3 covers reclaim batches that are
  smaller than, equal to, and larger than the number of frames in flight.
- **Lengths.** Frame lengths 60 and 1514 are the minimum and maximum Ethernet
  frame. The passing BufferLen values are 64 (shorter than a full frame, so
  the clamp applies) and 2048. The violation uses 40000, one of the values
  from 32768 to 65535 whose INT16 cast is negative.
- **Adapter.** The composed state space is the product of the parts, so the
  bounds are smaller:
  - N = 2, the smallest ring with a wrap;
  - 3 TX frames and 3 RX frames, enough for each cursor to pass the wrap;
  - one StopDriver/StartDriver bracket, which can fall in any lifecycle
    state and at any ring position;
  - two link changes.
  The re-init deadlock already appears with these bounds, after 10 steps.
- **Link.** Three link changes allow up, down and up again (or down, up
  and down) from either starting state. Two speeds are enough to tell a
  stale MAC speed from a correct one.

- **Bring-up.** The real limits (32 addresses, 100 MDIO polls, 10 reset,
  SERDES and XPCS polls) are used as they are; the busy and acknowledge
  choices are the boundary values 0, limit - 1, limit and limit + 1, where
  an off-by-one would show.
- **Driver binding.** The pass run has one controller. The code supports
  several (PSE0/PSE1 and PCH parts, one driver instance per controller),
  and the shared globals fail with two (below); with one controller `IfNum` and the list slot agree, and the run checks
  the per-controller resource properties over every platform outcome.
  `driver_nii_routing` has two controllers, the fewest that share the
  globals, with symmetry over the two handles (`ControllerSymmetry`; the
  run is a safety check). `MaxHeld = 2`
  bounds how many device paths, private data and page sets may be held
  at once, which allows two failed Starts and a reload. A map short by one
  byte still frees every page; a shortfall of a whole page leaks (see below).

### Hazards checked outside the runs

Some hazards show with one constant changed, and their run slots went to
the driver binding. The property is in the module:

| Hazard | Module / change to the cfg | Result |
|---|---|---|
| fragmented FD/LD lost (`Intelgbe.c:392`) | `TxRing`, `TxRingSafety.cfg` with `INVARIANT FramesDelimited` | violated |
| failed Map handed to the engine (`Intelgbe.c:410`) | `TxRing`, `TxRingSafety.cfg` with `INVARIANT OwnedDescMapped` | violated |
| `mActiveControllers` underflow (`Init.c:1172`) | `DriverBinding.cfg`, `PoolResults = {TRUE, FALSE}` | `ListedPrivateDataLive` violated |
| PciIo left open (`Init.c:297`) | `DriverBinding.cfg`, `"DevicePath"` in `OpenResults`, `INVARIANT UnloadReleasesAll` | violated |
| partial map page leak (`Dma.c:118`) | `DriverBinding.cfg`, `ShortBy = {4096}` | `DmaAccounted` violated |
| late Start failure (`Init.c:1161`) | `DriverBinding.cfg`, `LateFailures = TRUE` | `DmaAccounted` violated |
| attribute restore fails in Stop (`Init.c:1418`) | `DriverBinding.cfg`, `"set"` in `AttrResults`, `INVARIANT UnloadReleasesAll` | violated |
| child count taken by another controller's failed Start (`Init.c:1169`) | `DriverBinding.cfg`, `Controllers = {c1, c2}`, `SYMMETRY ControllerSymmetry` | `DriverTypeOK` violated: `mActiveChildren` wraps to 65535 (depth 17) |
| StopController clears another controller's slot (`Init.c:1385`) | as above, without `DriverTypeOK` | `ListedPrivateDataLive` violated (depth 22) |
| child creation fails after the wrap and leaks (`Init.c:1169`) | as above, without `DriverTypeOK` and `ListedPrivateDataLive` | `DmaAccounted` violated (depth 26) |
| AN restarted on an unchanged advertisement (`intelgbe_api.c:146`) | `Bringup.cfg` with `PROPERTY AnRestartOnlyOnChange` | violated |
| AIP queries the link while the driver is stopped for a re-init (`AdapterInformation.c:51`) | `Adapter.cfg` with `PROPERTY DiagOwnsLinkState` | violated (depth 4: StopDriver, a link change, GetInformation) |

## Fairness

- The DMA engines get weak fairness (`WF_vars(HwTransmit)`). Once started,
  the engine keeps processing owned descriptors up to the tail without any
  action by the driver.
- The caller's Status and Receive polling get weak fairness. SNP and the
  network stack poll Receive and GetStatus periodically for as long as
  buffers are outstanding. The liveness properties are claims about such a
  caller.
- `Adapter`, `LinkStatus`, `Bringup` and `DriverBinding` are checked for
  safety only, so they assume no fairness. `Bringup` stops in "done" or
  "failed" (no deadlock check). `DriverBinding` never stops: after an
  unload the image can be loaded again.
- Frame arrival and Transmit calls are not fair: nobody has to send or
  receive anything.

## Findings

The violation runs show these defects in the code. Details and source lines
are in `PROJECT.json` under `findings`.

1. The fragmented transmit path never records a `TxBufferMappings` entry.
   `IntelgbeFreeTxBuffers` stops at that slot ("TX buffer complete without
   being marked used") on every later call, so the TX ring fills and stays
   full.
2. The receive length clamp compares against `(INT16)BufferLen`. For
   BufferLen ≥ 32768, Receive copies BufferLen bytes: past the frame and past
   the 2 KiB receive buffer.
3. `StartDriver` re-runs `init_hw`. Its `dma_init` re-arms every RX
   descriptor and sets the RX tail past the ring. It also zeroes every TX
   descriptor. But `cur_rx`, `cur_tx`, `dirty_tx` and `TxBufferMappings`
   keep their values, because only `IntelgbeFirstTimeInit` resets the
   cursors. After a few frames the RX engine stops at the tail that Receive
   wrote, while Receive waits at its old `cur_rx`, and nothing is received
   again. This happens whether or not the engine's pointer goes back to
   descriptor 0. On TX, the zeroed descriptors look transmitted, so Status
   hands back buffers that were never sent. `TxBufferConservation` still
   holds: each buffer comes back exactly once.
4. `intelgbe_link_status` tests `if (link)`, the pointer, not `*link`, so
   after a PHY reports the link down, `phy->link_up` is set to TRUE. On
   88E1512 and GPY, whose change bit clears on read, the next GetStatus
   reports the link up with the cable out.
5. With several controllers, a child's NII 3.1 `IfNum` is `IFcnt`
   (`mActiveChildren - 1`), while its private data sits in list slot
   `mActiveControllers` at the time of Start, and `IntelgbeUndiApiEntry`
   picks the adapter by `mIntelgbeUndi32DeviceList[IFnum]`. The shortest
   route: controller 1 starts without a child (slot 0), controller 2
   starts (slot 1) and its child gets IfNum 0. Another: controller 1
   starts with its child (slot 0, IfNum 0), the core stops that child
   (`mActiveChildren--`, `IFcnt` unchanged), and controller 2's child
   again gets IfNum 0. Either way UNDI commands on controller 2's NII
   drive controller 1. StopController then clears slot `IfNum`,
   the other controller's, and leaves its own freed private data listed.
6. When `IntelgbeFirstTimeInit` (or any later step of Start) fails, the
   error labels free the private data and close PciIo, but never free the
   three DMA buffers or restore the PCI attributes. Nobody calls Stop for
   the controller, `mActiveControllers` is back to 0, and Unload unloads
   the image with bus mastering on and 260 pages mapped.

## Plan

All parts except the string tables of the front-ends have a module. Still to come, most
important first:

1. The Initialize path with cable detection always returns NO_MEDIA,
   because `IntelgbeWaitForAutoNeg` never looks at the PHY. Stop and
   Shutdown change nothing, although the header comment of
   `IntelgbeUndiStop` (`Decode.c:622`) says its final action sets the
   state to STOPPED. StationAddress changes only the software copy of the
   address (`Decode.c:988`), and the next Initialize reads the old one back
   from the MAC. These are hazards, not yet stated as properties: each needs
   a violation run, and all twelve run slots are in use.
2. A property that a child stopped alone can be started again
   (`IsChildInitialized` is never cleared).
3. AIP `GetInformation` consumes link changes while a diagnostic owns the
   device (`DiagOwnsLinkState`, checked outside the runs). spec.md limits
   the busy rule to UNDI commands, so this is recorded as a hazard.

## Not modelled, and why

- **In the driver binding:** `NumberOfChildren > 1`,
  the contents and checksum of the `!PXE` structure, the device-path bytes
  `GigAppendMac2DevPath` builds, and the adapter-information type list.
  They are data the properties do not tell apart.
- **`UndiDmaMapMemoryRead`/`UndiDmaUnmapMemory` for caller buffers** are
  modelled by their outcomes in `TxRing`, not through `DmaBuffer`.
- **`ComponentName`, `DriverConfiguration`, `Brand`, `DeviceSupport`, and
  the rest of `AdapterInformation`** (the supported-type list and
  `SetInformation`, which always fails). Constant tables and string
  look-ups.
- **The data the informational handlers fill in** (the station address,
  the receive-filter register, statistics, NvData, the init and config
  info, the media header FillHeader builds). The handlers are actions, but
  what they write into the caller's buffers changes nothing the properties
  talk about; the one conversion a property is about, McastIpToMac, is an
  operator. Keeping the address would triple the state space of the
  `adapter` run.
- **`Intelgbe_osdep.c`.** Register and PCI config wrappers. The models treat
  every register access as one atomic step.
- **Register values.** `mac_init`, `mtl_init` and interrupt enabling are
  straight-line register writes that the driver never reads back. Only the
  effect of `dma_init` on the rings matters to the models.
- **Memory ordering on the descriptor writes.** The engine reads only
  descriptors before the tail, and the tail is written after them. The
  models treat a Transmit (or the re-arm in Receive) as one step, as x86
  store ordering provides.
