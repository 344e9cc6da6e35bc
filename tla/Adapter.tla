------------------------------- MODULE Adapter -------------------------------
(***************************************************************************)
(* One mGbE adapter as the UNDI command layer drives it (Decode.c,         *)
(* StartStop.c, Intelgbe.c): the lifecycle State of GIG_DRIVER_DATA, the   *)
(* DriverBusy flag of the driver-stop protocol, HwInitialized, and the     *)
(* three parts the commands reach: the transmit ring (TxRing), the receive *)
(* ring (RxRing) and the link tracking of the MAC layer (LinkStatus).      *)
(*                                                                         *)
(* IntelgbeUndiApiEntry checks the opcode table's required state before it *)
(* calls a handler; the data-path handlers check DriverBusy themselves.    *)
(* A command refused by either check changes nothing and is not a step.   *)
(* A diagnostic application brackets its own use of the hardware with     *)
(* StopDriver and StartDriver; StartDriver re-runs init_hw when the        *)
(* adapter is initialized, and otherwise leaves it to the next Initialize. *)
(* The DMA engines and the link partner act at any time.                   *)
(***************************************************************************)
EXTENDS Naturals, Sequences, FiniteSets, Bitwise

CONSTANTS
    N, MaxFrames, MaxEntries, MaxFragCnt, TxModes, MapResults,  \* TxRing
    MaxRx, BadFrames, FrameLens, BufferLens,                    \* RxRing
    PhyType, Speeds, MaxLinkEvents,                             \* LinkStatus
    MaxDiagRuns     \* StopDriver/StartDriver brackets in one behaviour

VARIABLES
    cur_tx, dirty_tx, tx_desc, TxBufferMappings, tail, hwCur,
    nextFrame, submitted, sent, returned,
    cur_rx, rx_desc, rxTail, hwRx, nextRx, delivered, lastCopy,
    phyLink, phySpeed, latched, link_up, link_speed, macSpeed,
    linkResult, linkEvents,
    State,          \* GigAdapter->State: "STOPPED", "STARTED", "INITIALIZED"
    DriverBusy,     \* GigAdapter->DriverBusy
    HwInitialized,  \* GigAdapter->HwInitialized
    diagRuns        \* StopDriver calls so far

Tx == INSTANCE TxRing
Rx == INSTANCE RxRing
Link == INSTANCE LinkStatus

txVars == <<cur_tx, dirty_tx, tx_desc, TxBufferMappings, tail, hwCur,
            nextFrame, submitted, sent, returned>>
linkVars == <<phyLink, phySpeed, latched, link_up, link_speed, macSpeed,
              linkResult, linkEvents>>
rxVars == <<cur_rx, rx_desc, rxTail, hwRx, nextRx, delivered, lastCopy>>
ringVars == <<txVars, rxVars>>
ctlVars == <<State, DriverBusy, HwInitialized, diagRuns>>
vars == <<txVars, rxVars, linkVars, ctlVars>>

-----------------------------------------------------------------------------
\* intelgbe_init_hw (intelgbe_init_controller): dma_init rewrites both rings,
\* mac_init re-reads the link; mtl_init, the interrupt enables and
\* start_transaction only write registers.  It cannot fail.
InitHw == Tx!TxDmaReinit /\ Rx!RxDmaReinit /\ Link!MacInitLink

\* IntelgbeInititialize: init_hw only when the hardware is not initialized
\* already, so that autonegotiation is not restarted.  The MAC address it
\* then re-reads is data the model does not keep (see UndiStnAddr).
IntelgbeInititialize ==
    IF HwInitialized
    THEN UNCHANGED <<ringVars, linkVars, HwInitialized>>
    ELSE InitHw /\ HwInitialized' = TRUE

-----------------------------------------------------------------------------
\* mIntelgbeApiTable, indexed by opcode (GET_STATE = 0 .. RECEIVE = 17): the
\* CPB and DB sizes IntelgbeUndiApiEntry requires (PXE_*SIZE_NOT_USED, the
\* size of the opcode's structure, or DONT_CHECK), the OpFlags it requires
\* (0 or DONT_CHECK), the adapter state it requires, and the handler.
PXE_OPCODE_LAST_VALID == 17
UINT16_DONT_CHECK == 65535      \* (UINT16) DONT_CHECK, for OpFlags
Entry(cpb, db, flags, state, api) ==
    [CpbSize |-> cpb, DbSize |-> db, OpFlags |-> flags, State |-> state,
     ApiPtr |-> api]
mIntelgbeApiTable ==
  << Entry("NOT_USED", "NOT_USED", 0, "ANY_STATE", "GET_STATE"),
     Entry("DONT_CHECK", "NOT_USED", 0, "ANY_STATE", "START"),
     Entry("NOT_USED", "NOT_USED", 0, "MUST_BE_STARTED", "STOP"),
     Entry("NOT_USED", "SIZED", 0, "MUST_BE_STARTED", "GET_INIT_INFO"),
     Entry("NOT_USED", "SIZED", 0, "MUST_BE_STARTED", "GET_CONFIG_INFO"),
     Entry("SIZED", "DONT_CHECK", UINT16_DONT_CHECK, "MUST_BE_STARTED", "INITIALIZE"),
     Entry("NOT_USED", "NOT_USED", UINT16_DONT_CHECK, "MUST_BE_INITIALIZED", "RESET"),
     Entry("NOT_USED", "NOT_USED", 0, "MUST_BE_INITIALIZED", "SHUTDOWN"),
     Entry("NOT_USED", "NOT_USED", UINT16_DONT_CHECK, "MUST_BE_INITIALIZED",
           "INTERRUPT_ENABLES"),
     Entry("DONT_CHECK", "DONT_CHECK", UINT16_DONT_CHECK, "MUST_BE_INITIALIZED",
           "RECEIVE_FILTERS"),
     Entry("DONT_CHECK", "DONT_CHECK", UINT16_DONT_CHECK, "MUST_BE_INITIALIZED",
           "STATION_ADDRESS"),
     Entry("NOT_USED", "DONT_CHECK", UINT16_DONT_CHECK, "MUST_BE_INITIALIZED",
           "STATISTICS"),
     Entry("SIZED", "SIZED", UINT16_DONT_CHECK, "MUST_BE_INITIALIZED",
           "MCAST_IP_TO_MAC"),
     Entry("DONT_CHECK", "DONT_CHECK", UINT16_DONT_CHECK, "MUST_BE_INITIALIZED",
           "NVDATA"),
     Entry("NOT_USED", "DONT_CHECK", UINT16_DONT_CHECK, "MUST_BE_INITIALIZED",
           "GET_STATUS"),
     Entry("DONT_CHECK", "NOT_USED", UINT16_DONT_CHECK, "MUST_BE_INITIALIZED",
           "FILL_HEADER"),
     Entry("DONT_CHECK", "NOT_USED", UINT16_DONT_CHECK, "MUST_BE_INITIALIZED",
           "TRANSMIT"),
     Entry("SIZED", "SIZED", 0, "MUST_BE_INITIALIZED", "RECEIVE") >>
TabPtr(op) == mIntelgbeApiTable[op + 1]
OpCodeOf(api) ==
    CHOOSE op \in 0 .. PXE_OPCODE_LAST_VALID : TabPtr(op).ApiPtr = api

\* A command descriptor block.  CPBsize and DBsize are NOT_USED, the size of
\* the opcode's structure (SIZED) or some other size (OTHER); CPBaddr and
\* DBaddr say whether the address is set; Fresh says whether StatCode and
\* StatFlags hold their INITIALIZE values.  The caller of the adapter's
\* single interface passes IFnum 0 and sets each address with its size.
Cdb(api, cpb, db, flags) ==
    [IFnum |-> 0, OpCode |-> OpCodeOf(api), Fresh |-> TRUE,
     CPBsize |-> cpb, CPBaddr |-> cpb # "NOT_USED",
     DBsize |-> db, DBaddr |-> db # "NOT_USED", OpFlags |-> flags]

\* mIntelgbePxe31->IFcnt with the one interface this adapter installs.
IFcnt == 0

\* InitUndiNotifyExitBs is never registered: nothing sets the flag.
ExitBootServicesTriggered == FALSE

\* The CDB checks of IntelgbeUndiApiEntry, each a goto BadCdb: the opcode
\* range and the INITIALIZE status fields, every size with its address, and
\* the sizes and OpFlags the table entry requires.
SizeMatches(tab, size) == tab = "DONT_CHECK" \/ tab = size
OpFlagsMatch(tab, flags) == tab = UINT16_DONT_CHECK \/ tab = flags
AddrMatchesSize(size, addr) == (size = "NOT_USED") = ~addr
CdbWellFormed(cdb) ==
    /\ cdb.OpCode <= PXE_OPCODE_LAST_VALID
    /\ cdb.Fresh
    /\ AddrMatchesSize(cdb.CPBsize, cdb.CPBaddr)
    /\ AddrMatchesSize(cdb.DBsize, cdb.DBaddr)
    /\ SizeMatches(TabPtr(cdb.OpCode).CpbSize, cdb.CPBsize)
    /\ SizeMatches(TabPtr(cdb.OpCode).DbSize, cdb.DBsize)
    /\ OpFlagsMatch(TabPtr(cdb.OpCode).OpFlags, cdb.OpFlags)

\* The state check: any required state excludes STOPPED, and
\* MUST_BE_INITIALIZED (2) requires INITIALIZED.
StateCheckNoInitialized(need, state) ==
    IF need # "ANY_STATE" /\ state = "STOPPED" THEN "NOT_STARTED"
    ELSE "SUCCESS"
StateCheck(need, state) ==
    IF need # "ANY_STATE" /\ state = "STOPPED" THEN "NOT_STARTED"
    ELSE IF need = "MUST_BE_INITIALIZED" /\ state # "INITIALIZED"
         THEN "NOT_INITIALIZED"
    ELSE "SUCCESS"

\* IntelgbeUndiApiEntry: the EFI status it returns and the StatCode it
\* leaves in the CDB before the handler runs (SUCCESS: the handler runs).
ApiResult(efi, code) == [efi |-> efi, StatCode |-> code]
IntelgbeUndiApiEntry(cdb, state, exitBs) ==
    IF cdb.IFnum > IFcnt
    THEN ApiResult("EFI_INVALID_PARAMETER", "INVALID_CDB")
    ELSE IF exitBs
    THEN ApiResult("EFI_INVALID_PARAMETER", "NOT_INITIALIZED")
    ELSE IF ~CdbWellFormed(cdb)
    THEN ApiResult("EFI_NOT_READY", "INVALID_CDB")
    ELSE LET code == StateCheck(TabPtr(cdb.OpCode).State, state)
         IN  IF code = "SUCCESS" THEN ApiResult("EFI_SUCCESS", "SUCCESS")
             ELSE ApiResult("EFI_NOT_READY", code)

\* The dispatcher passes the CDB to its handler in the current state.
Dispatched(cdb) ==
    IntelgbeUndiApiEntry(cdb, State, ExitBootServicesTriggered).StatCode
        = "SUCCESS"

-----------------------------------------------------------------------------
\* Variants of definitions below, each a plausible slip in the code it
\* stands for.
StartDriverNoReinit ==
    /\ DriverBusy
    /\ HwInitialized' = FALSE
    /\ DriverBusy' = FALSE
    /\ UNCHANGED <<ringVars, linkVars, State, diagRuns>>

\* OpFlags values of UefiPxe.h the handlers test.
PXE_OPFLAGS_INITIALIZE_DETECT_CABLE == 0
PXE_OPFLAGS_INITIALIZE_DO_NOT_DETECT_CABLE == 1
PXE_OPFLAGS_GET_TRANSMITTED_BUFFERS == 2
PXE_OPFLAGS_GET_MEDIA_STATUS == 4
PXE_OPFLAGS_STATION_ADDRESS_RESET == 1

\* IntelgbeUndiStart (ANY_STATE): a stopped adapter given a START_30 or
\* START_31 CPB (SIZED) takes the caller's callbacks and becomes started;
\* another CPB size is INVALID_CDB, and any other state succeeds without a
\* change.  The callbacks are not kept: no modelled step calls them.
UndiStart ==
    \E cpb \in {"SIZED", "OTHER"} :
        /\ Dispatched(Cdb("START", cpb, "NOT_USED", 0))
        /\ State = "STOPPED"
        /\ cpb = "SIZED"
        /\ State' = "STARTED"
        /\ UNCHANGED <<ringVars, linkVars, DriverBusy, HwInitialized,
                       diagRuns>>

\* IntelgbeUndiStop (MUST_BE_STARTED), IntelgbeUndiReset and
\* IntelgbeUndiShutdown (MUST_BE_INITIALIZED): the handlers are empty, so a
\* command the dispatcher accepts succeeds and changes nothing.
UndiStop ==
    /\ Dispatched(Cdb("STOP", "NOT_USED", "NOT_USED", 0))
    /\ UNCHANGED vars
UndiReset ==
    /\ \E flags \in {0, 1} : Dispatched(Cdb("RESET", "NOT_USED", "NOT_USED", flags))
    /\ UNCHANGED vars
UndiShutdown ==
    /\ Dispatched(Cdb("SHUTDOWN", "NOT_USED", "NOT_USED", 0))
    /\ UNCHANGED vars

\* IntelgbeUndiInitialize (MUST_BE_STARTED): BUSY while the driver is
\* stopped, INVALID_CDB for an OpFlags other than the two cable-detect
\* values, and success without a change on an initialized adapter.
\* Otherwise IntelgbeInititialize runs and the state becomes INITIALIZED,
\* unless the caller asked to detect the cable: IntelgbeWaitForAutoNeg then
\* returns FALSE without looking at the PHY, and the state goes back to
\* STARTED with NO_MEDIA.
UndiInitialize ==
    \E flags \in {0, 1, 2} :
        /\ Dispatched(Cdb("INITIALIZE", "SIZED", "SIZED", flags))
        /\ ~DriverBusy
        /\ flags \in {PXE_OPFLAGS_INITIALIZE_DETECT_CABLE,
                      PXE_OPFLAGS_INITIALIZE_DO_NOT_DETECT_CABLE}
        /\ State # "INITIALIZED"
        /\ IntelgbeInititialize
        /\ State' = IF flags = PXE_OPFLAGS_INITIALIZE_DETECT_CABLE
                    THEN "STARTED" ELSE "INITIALIZED"
        /\ UNCHANGED <<DriverBusy, diagRuns>>

\* IntelgbeUndiTransmit (MUST_BE_INITIALIZED): BUSY while the driver is
\* stopped, otherwise IntelgbeTransmit on the CPB.
UndiTransmit ==
    /\ Dispatched(Cdb("TRANSMIT", "SIZED", "NOT_USED", 0))
    /\ ~DriverBusy
    /\ Tx!IntelgbeTransmit
    /\ UNCHANGED <<rxVars, linkVars, ctlVars>>

\* IntelgbeUndiStatus (MUST_BE_INITIALIZED): BUSY while the driver is
\* stopped, INVALID_CDB for a DB shorter than two UINT64 (OTHER); then
\* GET_TRANSMITTED_BUFFERS reclaims transmitted buffers and GET_MEDIA_STATUS
\* asks IsLinkUp.  GET_INTERRUPT_STATUS only acknowledges DMA interrupt
\* bits and is left out.
StatusEffect(opflags) ==
    /\ IF (opflags & PXE_OPFLAGS_GET_TRANSMITTED_BUFFERS) # 0
       THEN Tx!Status ELSE UNCHANGED txVars
    /\ IF (opflags & PXE_OPFLAGS_GET_MEDIA_STATUS) # 0
       THEN Link!IntelgbeLinkStatus ELSE UNCHANGED linkVars
UndiStatusIgnoresBusy ==
    \E opflags \in {0, 2, 4, 6}, db \in {"SIZED", "OTHER"} :
        /\ Dispatched(Cdb("GET_STATUS", "NOT_USED", db, opflags))
        /\ db = "SIZED"
        /\ StatusEffect(opflags)
        /\ UNCHANGED <<rxVars, ctlVars>>
UndiStatus ==
    \E opflags \in {0, 2, 4, 6}, db \in {"SIZED", "OTHER"} :
        /\ Dispatched(Cdb("GET_STATUS", "NOT_USED", db, opflags))
        /\ ~DriverBusy
        /\ db = "SIZED"
        /\ StatusEffect(opflags)
        /\ UNCHANGED <<rxVars, ctlVars>>

\* IntelgbeUndiReceive (MUST_BE_INITIALIZED).  ReceiveStarted is set by
\* init_hw and only cleared by IntelgbeShutdown at unload, so it holds.
\* NO_DATA changes nothing.
UndiReceive ==
    /\ Dispatched(Cdb("RECEIVE", "SIZED", "SIZED", 0))
    /\ ~DriverBusy
    /\ \E b \in BufferLens : Rx!IntelgbeReceive(b)
    /\ UNCHANGED <<txVars, linkVars, ctlVars>>

\* IntelgbeUndiStnAddr (MUST_BE_INITIALIZED, no DriverBusy check): RESET
\* copies perm_addr to mac.addr, a CPB then sets mac.addr to the caller's
\* address and MacAddrOverride, and the DB reports the addresses.  The MAC
\* address registers are not written, and no code path reads mac.addr or
\* MacAddrOverride back for transmit or receive (Receive classifies on
\* perm_addr), so neither is kept and the command is no step.
UndiStnAddr ==
    /\ \E flags \in {0, PXE_OPFLAGS_STATION_ADDRESS_RESET},
         cpb \in {"NOT_USED", "SIZED"} :
           Dispatched(Cdb("STATION_ADDRESS", cpb, "SIZED", flags))
    /\ UNCHANGED vars

\* IntelgbeUndiGetState (ANY_STATE) reports State.  IntelgbeUndiGetInitInfo
\* (MUST_BE_STARTED) fills the DB with constants; its BUSY for an adapter
\* without UNDI cannot happen, because the NII is installed only when UNDI
\* is enabled (Init.c:825).  GetConfigInfo (MUST_BE_STARTED), Interrupt,
\* Statistics and NvData (MUST_BE_INITIALIZED) have empty handlers.
UndiGetState == Dispatched(Cdb("GET_STATE", "NOT_USED", "NOT_USED", 0)) /\ UNCHANGED vars
UndiGetInitInfo == Dispatched(Cdb("GET_INIT_INFO", "NOT_USED", "SIZED", 0)) /\ UNCHANGED vars
UndiGetConfigInfo == Dispatched(Cdb("GET_CONFIG_INFO", "NOT_USED", "SIZED", 0)) /\ UNCHANGED vars
UndiInterrupt == Dispatched(Cdb("INTERRUPT_ENABLES", "NOT_USED", "NOT_USED", 0)) /\ UNCHANGED vars
UndiStatistics == Dispatched(Cdb("STATISTICS", "NOT_USED", "SIZED", 0)) /\ UNCHANGED vars
UndiNvData == Dispatched(Cdb("NVDATA", "SIZED", "SIZED", 0)) /\ UNCHANGED vars

\* IntelgbeUndiRecFilter (MUST_BE_INITIALIZED): BUSY while the driver is
\* stopped; otherwise it sets ALLMCAST in MAC_PACKET_FILTER, whatever the
\* OpFlags ask, and reports unicast, broadcast and all-multicast.  The
\* filter register is not kept: the model's frames carry no address.
UndiRecFilter ==
    /\ \E flags \in {0, 1} : Dispatched(Cdb("RECEIVE_FILTERS", "NOT_USED", "NOT_USED", flags))
    /\ ~DriverBusy
    /\ UNCHANGED vars

\* IntelgbeUndiFillHeader (MUST_BE_INITIALIZED): INVALID_CDB without a CPB,
\* or for a fragmented CPB without fragments or with a first fragment
\* shorter than a MAC header; otherwise the destination, source and type
\* are written into the caller's frame, which the model does not keep.
UndiFillHeader ==
    /\ \E flags \in {0, 1}, cpb \in {"NOT_USED", "SIZED"} :
          Dispatched(Cdb("FILL_HEADER", cpb, "NOT_USED", flags))
    /\ UNCHANGED vars

\* IntelgbeUndiIp2Mac (MUST_BE_INITIALIZED): the multicast MAC address of an
\* IPv4 or IPv6 group address, written to the DB.  Addresses are sequences
\* of bytes in memory order.  For IPv4 the code reads the UINT32 through a
\* byte pointer, so TmpPtr[1] is the second byte in memory, ip[2].
PXE_OPFLAGS_MCAST_IPV6_TO_MAC == 1
IntelgbeUndiIp2MacNoMask(opflags, ip) ==
    IF (opflags & PXE_OPFLAGS_MCAST_IPV6_TO_MAC) # 0
    THEN <<51, 51, ip[13], ip[14], ip[15], ip[16]>>
    ELSE <<1, 0, 94, ip[2], ip[3], ip[4]>>
IntelgbeUndiIp2Mac(opflags, ip) ==
    IF (opflags & PXE_OPFLAGS_MCAST_IPV6_TO_MAC) # 0
    THEN <<51, 51, ip[13], ip[14], ip[15], ip[16]>>     \* 0x33, 0x33
    ELSE <<1, 0, 94, ip[2] & 127, ip[3], ip[4]>>        \* 0x01, 0x00, 0x5E
UndiMcastIpToMac ==
    /\ \E flags \in {0, PXE_OPFLAGS_MCAST_IPV6_TO_MAC} :
          Dispatched(Cdb("MCAST_IP_TO_MAC", "SIZED", "SIZED", flags))
    /\ UNCHANGED vars

\* EFI_ADAPTER_INFORMATION_PROTOCOL.GetInformation, installed on the
\* controller beside UNDI.  For the media-state type,
\* GetMediaStateInformationBlock allocates the block and calls IsLinkUp,
\* with no DriverBusy and no State check; a failed AllocatePool returns
\* OUT_OF_RESOURCES before the link is read.  The IPv6-support type
\* returns a constant; an unknown type, and SetInformation, fail.
GetMediaStateInformationBlock ==
    \/ Link!IntelgbeLinkStatus
    \/ UNCHANGED linkVars
AipGetInformation ==
    /\ GetMediaStateInformationBlock
    /\ UNCHANGED <<ringVars, ctlVars>>

\* StopDriver: the diagnostic application takes the hardware over.
StopDriver ==
    /\ diagRuns < MaxDiagRuns
    /\ ~DriverBusy
    /\ DriverBusy' = TRUE
    /\ diagRuns' = diagRuns + 1
    /\ UNCHANGED <<ringVars, linkVars, State, HwInitialized>>

\* StartDriver: HwInitialized is cleared; an initialized adapter is
\* re-initialized at once by IntelgbeInititialize, which now runs init_hw
\* and re-reads the MAC address (IsChildInitialized holds once UNDI
\* commands can arrive); any other is left for its next Initialize;
\* DriverBusy is cleared.  The saved ReceiveStarted is not used.
StartDriver ==
    /\ DriverBusy
    /\ IF State = "INITIALIZED"
       THEN InitHw /\ HwInitialized' = TRUE
       ELSE /\ HwInitialized' = FALSE
            /\ UNCHANGED <<ringVars, linkVars>>
    /\ DriverBusy' = FALSE
    /\ UNCHANGED <<State, diagRuns>>

\* The DMA engines and the link partner.
Hardware ==
    /\ \/ Tx!HwTransmit /\ UNCHANGED <<rxVars, linkVars>>
       \/ (Rx!HwStore \/ Rx!HwDrop) /\ UNCHANGED <<txVars, linkVars>>
       \/ Link!LinkChange /\ UNCHANGED ringVars
    /\ UNCHANGED ctlVars

-----------------------------------------------------------------------------
\* The adapter after IntelgbeFirstTimeInit (DriverBusy FALSE, init_hw run,
\* HwInitialized TRUE) and before the first UNDI Start.
Init ==
    /\ Tx!Init /\ Rx!Init /\ Link!LinkInit
    /\ State = "STOPPED"
    /\ DriverBusy = FALSE
    /\ HwInitialized = TRUE
    /\ diagRuns = 0

\* Every UNDI command the dispatcher routes to a handler.
UndiCommand ==
    \/ UndiGetState \/ UndiStart \/ UndiStop \/ UndiGetInitInfo
    \/ UndiGetConfigInfo \/ UndiInitialize \/ UndiReset \/ UndiShutdown
    \/ UndiInterrupt \/ UndiRecFilter \/ UndiStnAddr \/ UndiStatistics
    \/ UndiMcastIpToMac \/ UndiNvData \/ UndiStatus \/ UndiFillHeader
    \/ UndiTransmit \/ UndiReceive

Next ==
    \/ UndiCommand
    \/ AipGetInformation
    \/ StopDriver \/ StartDriver
    \/ Hardware

Spec == Init /\ [][Next]_vars

-----------------------------------------------------------------------------
AdapterTypeOK ==
    /\ Tx!TypeOK /\ Rx!TypeOK /\ Link!LinkTypeOK
    /\ State \in {"STOPPED", "STARTED", "INITIALIZED"}
    /\ DriverBusy \in BOOLEAN /\ HwInitialized \in BOOLEAN
    /\ diagRuns \in 0 .. MaxDiagRuns

\* The data path is open only on initialized hardware: whenever the
\* dispatcher and the handlers would let Transmit, Receive and Status touch
\* the rings, init_hw has run since the last StartDriver cleared
\* HwInitialized.
DataPathOnInitializedHw ==
    \A cdb \in {Cdb("TRANSMIT", "SIZED", "NOT_USED", 0),
                Cdb("RECEIVE", "SIZED", "SIZED", 0),
                Cdb("GET_STATUS", "NOT_USED", "SIZED", 0)} :
        Dispatched(cdb) /\ ~DriverBusy => HwInitialized

\* Every buffer Transmit accepts is accounted for exactly once: it is still
\* recorded in TxBufferMappings, or Status has handed it back, and not both
\* nor twice, across re-initialisation by StartDriver.
Occurrences(f) ==
    Len(SelectSeq(returned, LAMBDA a : a = f))
      + Cardinality({i \in Tx!Slots : TxBufferMappings[i].UnmappedAddress = f})
TxBufferConservation ==
    \A j \in DOMAIN submitted : Occurrences(submitted[j]) = 1

\* Receive hands no frame up twice, across re-initialisation by StartDriver.
RxAtMostOnce ==
    \A i, j \in DOMAIN Rx!DeliveredFrames :
        i # j => Rx!DeliveredFrames[i] # Rx!DeliveredFrames[j]

\* GetStatus reports the media as it is: every IsLinkUp result since the
\* partner last changed the link matches the PHY, across the link re-reads
\* of init_hw.
MediaStatusAccurate == Link!LinkReportAccurate

\* After any sequence of commands, StopDriver/StartDriver brackets and
\* frames, the receive DMA engine and Receive never wait for each other.
ReceiveNeverStuck == Rx!RxNoMutualWait

\* The software side of the data path: what Transmit, Status, Receive,
\* the link query and init_hw change.  The DMA engines and the link
\* partner change the descriptors, their own positions and the PHY.
softwareVars == <<cur_tx, dirty_tx, TxBufferMappings, tail, submitted,
                  returned, cur_rx, rxTail, delivered, lastCopy, link_up,
                  link_speed, macSpeed, HwInitialized>>

\* While a diagnostic application holds the hardware (StopDriver until
\* StartDriver), no UNDI command touches the rings or the link state:
\* spec.md has every data-path opcode fail with BUSY, and Transmit,
\* Status, Receive, Initialize and RecFilter each test DriverBusy (the
\* handlers that do not touch neither).
BusyLeavesDataPathAlone ==
    [][DriverBusy /\ UndiCommand => UNCHANGED softwareVars]_vars

\* The same for every step of the driver, the Adapter Information
\* protocol included.  GetMediaStateInformationBlock calls IsLinkUp without
\* testing DriverBusy, so this fails (README, hazards checked outside the
\* runs): the link query rewrites phy->link_up and MAC_CONFIGURATION while
\* the diagnostic application owns the hardware.
DiagOwnsLinkState ==
    [][DriverBusy /\ DriverBusy' => UNCHANGED softwareVars]_vars

-----------------------------------------------------------------------------
\* The multicast MAC addresses of RFC 1112 (IPv4: 01-00-5E, a zero bit,
\* then the low-order 23 bits of the group address) and RFC 2464 (IPv6:
\* 33-33, then the low-order 32 bits), stated over bit strings, most
\* significant bit first.
Bits(byte) == [i \in 1 .. 8 |-> (byte \div 2^(8 - i)) % 2]
RECURSIVE BitString(_)
BitString(bytes) ==
    IF bytes = <<>> THEN <<>> ELSE Bits(Head(bytes)) \o BitString(Tail(bytes))
RfcMulticastMac(v6, ip) ==
    IF v6 THEN BitString(<<51, 51>>) \o SubSeq(BitString(ip), 97, 128)
    ELSE BitString(<<1, 0, 94>>) \o <<0>> \o SubSeq(BitString(SubSeq(ip, 1, 4)), 10, 32)

\* Group addresses in memory order: IPv4 224.x.y.z and 239.x.y.z in the
\* first four bytes, IPv6 ff02:: and ff05:: with the last four bytes varied;
\* the bytes chosen set and clear the bit the 0x7F mask drops.
GroupBytes == {0, 127, 128, 255}
Ipv4Groups ==
    {<<a, b, c, d>> \o [i \in 1 .. 12 |-> 0] :
        a \in {224, 239}, b \in GroupBytes, c \in GroupBytes, d \in GroupBytes}
Ipv6Groups ==
    {<<255, p>> \o [i \in 1 .. 10 |-> 0] \o <<w, x, y, z>> :
        p \in {2, 5}, w \in {0, 255}, x \in {0, 128}, y \in {1, 254}, z \in {0, 127}}
Ip2MacAgreesWithRfc ==
    /\ \A ip \in Ipv4Groups, f \in {0, 2} :
          BitString(IntelgbeUndiIp2Mac(f, ip)) = RfcMulticastMac(FALSE, ip)
    /\ \A ip \in Ipv6Groups, f \in {1, 3} :
          BitString(IntelgbeUndiIp2Mac(f, ip)) = RfcMulticastMac(TRUE, ip)

\* Whenever the dispatcher would route MCastIpToMac, the handler answers
\* every IPv4 and IPv6 group address with the multicast MAC address that
\* RFC 1112 and RFC 2464 assign to it (IntelgbeUndiIp2Mac, Decode.c).
McastIpToMacMatchesRfc ==
    Dispatched(Cdb("MCAST_IP_TO_MAC", "SIZED", "SIZED", 0)) => Ip2MacAgreesWithRfc

-----------------------------------------------------------------------------
\* The dispatch contract of spec.md, over every CDB shape: an interface
\* index beyond the attached interfaces is rejected; after exit boot
\* services every request fails NOT_INITIALIZED; an opcode out of range, a
\* CPB or DB present where the table entry wants none or absent where it
\* wants one, or OpFlags other than an exact requirement is InvalidRequest;
\* a required state that does not hold is NotReady; anything else reaches
\* the handler.  Where several apply, any of them may be reported.
AttachedInterfaces == IFcnt + 1
Present(size) == size # "NOT_USED"
BlockMismatch(tab, size) ==
    tab # "DONT_CHECK" /\ Present(size) # Present(tab)
Rejections == {"InvalidRequest", "NotReady", "NotInitialized"}
ContractOutcomes(cdb, state, exitBs) ==
    LET inRange == cdb.OpCode <= PXE_OPCODE_LAST_VALID
        e == TabPtr(cdb.OpCode)
        fails ==
            (IF cdb.IFnum >= AttachedInterfaces THEN Rejections ELSE {})
            \cup (IF exitBs THEN {"NotInitialized"} ELSE {})
            \cup (IF ~inRange
                     \/ BlockMismatch(e.CpbSize, cdb.CPBsize)
                     \/ BlockMismatch(e.DbSize, cdb.DBsize)
                     \/ (e.OpFlags # UINT16_DONT_CHECK /\ e.OpFlags # cdb.OpFlags)
                  THEN {"InvalidRequest"} ELSE {})
            \cup (IF inRange
                     /\ \/ e.State # "ANY_STATE" /\ state = "STOPPED"
                        \/ e.State = "MUST_BE_INITIALIZED" /\ state # "INITIALIZED"
                  THEN {"NotReady"} ELSE {})
    IN  IF fails = {} THEN {"Routed"} ELSE fails

\* What a caller of IntelgbeUndiApiEntry observes: BadCdb and the IFnum
\* check leave INVALID_CDB, the state check returns EFI_NOT_READY, the
\* exit-boot-services check NOT_INITIALIZED.
Outcome(r) ==
    IF r.StatCode = "INVALID_CDB" THEN "InvalidRequest"
    ELSE IF r.efi = "EFI_NOT_READY" THEN "NotReady"
    ELSE IF r.StatCode = "NOT_INITIALIZED" THEN "NotInitialized"
    ELSE "Routed"

\* A CDB as the UNDI specification has callers build it: StatCode and
\* StatFlags initialised, each address set exactly when its size is, and
\* every structure of its own size.
Conventional(cdb) ==
    /\ cdb.Fresh
    /\ AddrMatchesSize(cdb.CPBsize, cdb.CPBaddr) /\ cdb.CPBsize # "OTHER"
    /\ AddrMatchesSize(cdb.DBsize, cdb.DBaddr) /\ cdb.DBsize # "OTHER"

CdbSpace ==
    [IFnum : 0 .. 1, OpCode : 0 .. PXE_OPCODE_LAST_VALID + 1, Fresh : BOOLEAN,
     CPBsize : {"NOT_USED", "SIZED", "OTHER"}, CPBaddr : BOOLEAN,
     DBsize : {"NOT_USED", "SIZED", "OTHER"}, DBaddr : BOOLEAN,
     OpFlags : {0, 1}]

\* For each adapter state, whether IntelgbeUndiApiEntry keeps the contract
\* for every CDB, with and without exit boot services: the outcome is one
\* the contract allows, or InvalidRequest for a CDB the UNDI conventions
\* call malformed.
KeepsContractIn ==
    [state \in {"STOPPED", "STARTED", "INITIALIZED"} |->
        \A cdb \in CdbSpace, exitBs \in BOOLEAN :
            LET got == Outcome(IntelgbeUndiApiEntry(cdb, state, exitBs))
            IN  \/ got \in ContractOutcomes(cdb, state, exitBs)
                \/ got = "InvalidRequest" /\ ~Conventional(cdb)]

\* In every state the adapter reaches, the dispatcher keeps the dispatch
\* contract of spec.md for every command a caller can issue.
DispatchMeetsContract == KeepsContractIn[State]

====
