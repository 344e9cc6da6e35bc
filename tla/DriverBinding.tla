---------------------------- MODULE DriverBinding ----------------------------
(***************************************************************************)
(* The UEFI driver-binding life of the mGbE controllers (Init.c) over the *)
(* PCI and DMA set-up of IntelgbePciInit (Intelgbe.c) and the DMA helpers  *)
(* of Dma.c (DmaBuffer.tla).                                               *)
(*                                                                         *)
(* The boot services' core is the environment: it calls Supported and,    *)
(* when that succeeds, Start for a controller; it calls Stop for a         *)
(* controller while this driver holds PciIo open BY_DRIVER on it, naming   *)
(* the child when one holds PciIo BY_CHILD_CONTROLLER.  Start runs as a    *)
(* sequence of steps (pc) for one controller (ctl), one step per helper,   *)
(* so that every intermediate state and every error path of it is a state *)
(* of the model; the core calls nothing else while Start runs             *)
(* (TPL_CALLBACK, one processor).                                          *)
(*                                                                         *)
(* The image's globals are shared by all controllers: the device list      *)
(* mIntelgbeUndi32DeviceList, mActiveControllers, mActiveChildren and the  *)
(* IFcnt of the !PXE structure.  Each controller has its own               *)
(* UNDI_PRIVATE_DATA; the platform's answers (pool, protocol database, PCI *)
(* attributes, DMA allocation and mapping, IntelgbeFirstTimeInit) are      *)
(* drawn from the constant sets below, and what the platform holds for     *)
(* each controller (pool, pages, mappings, opened and installed protocols, *)
(* PCI attributes) is part of the state.                                   *)
(***************************************************************************)
EXTENDS Naturals, FiniteSets, SequencesExt, DmaBuffer

CONSTANTS
    Controllers,    \* the controller handles the core may bind
    PoolResults,    \* AllocateZeroPool succeeds (TRUE) or fails (FALSE)
    OpenResults,    \* OpenControllerProtocols: "ok", or the open that fails
    AttrResults,    \* IntelgbePciInit: "ok", or the Attributes call that fails
    AllocResults,   \* PciIo->AllocateBuffer succeeds (TRUE) or fails (FALSE)
    MapResults,     \* PciIo->Map: "ok", "partial" or "fail"
    ShortBy,        \* bytes a partial Map leaves unmapped
    FtiResults,     \* IntelgbeFirstTimeInit: "ok" or "error"
    LateFailures,   \* whether the protocol services after InitController may fail
    MaxHeld         \* Start is called while the platform holds fewer than
                    \* MaxHeld sets of a controller's buffers

ASSUME Controllers # {}
ASSUME OpenResults \subseteq {"ok", "PciIo", "DevicePath"}
ASSUME AttrResults \subseteq {"ok", "get", "supported", "enable", "set"}
ASSUME FtiResults \subseteq {"ok", "error"}

VARIABLES
    loaded,             \* the driver image is loaded, its binding installed
    pc,                 \* the step of Start under way, "disconnect" while
                        \* Unload disconnects, "idle" between calls
    ctl,                \* the controller Start works on
    initChild,          \* Start's InitializeChild
    cur,                \* the slot of the private data Start works on,
                        \* NULLSLOT for none
    deviceList,         \* mIntelgbeUndi32DeviceList: its non-NULL slots,
                        \* each the controller whose private data it points
                        \* at and whether that data is still allocated
    mActiveControllers, \* UINT8
    mActiveChildren,    \* UINT16
    IFcnt,              \* mIntelgbePxe31->IFcnt, UINT8
    \* per controller:
    priv,               \* its UNDI_PRIVATE_DATA is allocated
    privPool,           \* private-data pool buffers the platform holds
    childInit,          \* UndiPrivateData->IsChildInitialized
    undiEnabled,        \* NicInfo.UndiEnabled
    ifNum,              \* NiiProtocol31.IfNum
    devPath,            \* UndiPrivateData->Undi32DevPath: "NULL", "held", "freed"
    devPathPool,        \* device-path pool buffers the platform holds
    saved,              \* NicInfo.OriginalPciAttributes
    opened,             \* protocols this driver holds open on the controller
    installed,          \* protocol interfaces installed for the controller
    attrs,              \* the controller's PCI attributes
    dma,                \* DMA state of TxRing, RxRing, RxBufferMapping
    last                \* history: the last call to return, its controller
                        \* and its result

globalVars == <<loaded, pc, ctl, initChild, cur, deviceList, mActiveControllers,
                mActiveChildren, IFcnt>>
ctlVars == <<priv, privPool, childInit, undiEnabled, ifNum, devPath, devPathPool,
             saved, opened, installed, attrs, dma>>
vars == <<globalVars, ctlVars, last>>

-----------------------------------------------------------------------------
\* The three DMA buffers in the order IntelgbePciInit allocates them, and
\* their Size: sizeof the members of GIG_UNDI_DMA_RESOURCES, one queue of
\* DEFAULT_*_DESCRIPTORS 16-byte descriptors and RX_BUFFER_SIZE buffers.
BufOrder == <<"TxRing", "RxRing", "RxBufferMapping">>
Buffers == Range(BufOrder)
ReqSize == [TxRing |-> 512 * 16, RxRing |-> 512 * 16, RxBufferMapping |-> 512 * 2048]

MAX_NIC_INTERFACES == 256

\* The list has MAX_NIC_INTERFACES slots; this index stands for NULL.
NULLSLOT == MAX_NIC_INTERFACES

\* The platform's outcomes for one UndiDmaAllocateCommonBuffer call.
PlatformOutcomes == [alloc : AllocResults, map : MapResults, short : ShortBy]

\* Outcomes of the protocol services called after InitController.
LateOk == IF LateFailures THEN BOOLEAN ELSE {TRUE}

\* Outcomes of PciIo->Attributes (Set).
SetOk == IF "set" \in AttrResults THEN BOOLEAN ELSE {TRUE}

\* GetControllerPrivateData(c): the first mActiveControllers slots of the
\* list are searched for a non-NULL entry whose ControllerHandle is c.  A
\* freed entry still holds the handle (FreePool does not clear it).
FoundSlots(c) == {i \in DOMAIN deviceList : i < mActiveControllers /\ deviceList[i].ctl = c}
GetControllerPrivateData(c) == FoundSlots(c) # {}

\* gBS->FreePool of c's private data: every entry of list l that points
\* at it now points at freed pool.
MarkFreed(l, c) ==
    [s \in DOMAIN l |-> IF l[s].ctl = c THEN [l[s] EXCEPT !.live = FALSE] ELSE l[s]]
FreePrivateData(c, l) ==
    /\ deviceList' = MarkFreed(l, c)
    /\ privPool' = [privPool EXCEPT ![c] = @ - IF priv[c] THEN 1 ELSE 0]
    /\ priv' = [priv EXCEPT ![c] = FALSE]

\* Start runs only while the leaks of earlier failed Starts are bounded.
HeldBelowBound(c) ==
    /\ devPathPool[c] < MaxHeld /\ privPool[c] < MaxHeld
    /\ \A b \in Buffers : dma[c].pages[b] < MaxHeld * BytesToPages(ReqSize[b])

\* GigUndiPxeUpdate: the child count goes up (refused at
\* MAX_NIC_INTERFACES) or down (only if positive), and IFcnt becomes
\* (UINT8) mActiveChildren - 1.
PxeIFcnt(n) == ((n % 256) + 255) % 256
PxeUpdateRemoveUnguarded(n) == (n + 65535) % 65536
PxeUpdateRemove(n) == IF n > 0 THEN n - 1 ELSE n

\* CloseControllerProtocols: DevicePath is closed first; when that fails
\* the function returns and PciIo stays open.
CloseControllerProtocols(o) ==
    IF "DevicePath" \in o THEN o \ {"DevicePath", "PciIo"} ELSE o

\* gBS->UninstallMultipleProtocolInterfaces on a handle with interfaces
\* inst: all of ps or none.
Uninstall(inst, ps) == IF ps \subseteq inst THEN inst \ ps ELSE inst

\* A call returns to the core; Start's locals are gone.
NoCtl == "none"
Return(op, c, ok) ==
    /\ pc' = "idle" /\ ctl' = NoCtl /\ cur' = NULLSLOT /\ initChild' = FALSE
    /\ last' = [op |-> op, ctl |-> c, ok |-> ok]

\* The core may call Stop between calls and from Unload's disconnect loop;
\* Stop returns to where it was called from.
StopCallable == loaded /\ pc \in {"idle", "disconnect"}
Returned(op, c, ok) == pc' = pc /\ last' = [op |-> op, ctl |-> c, ok |-> ok]

\* AnalyzeRemainingDevicePath with private data: ALREADY_STARTED once the
\* child is initialised, for an End node and for this adapter's MAC node.
AnalyzeRemainingDevicePath(c) == ~childInit[c]

\* IntelgbeUndiDriverSupported: with no private data PciIo must open
\* BY_DRIVER (and is closed again); the PCI IDs are those of the adapter.
IntelgbeUndiDriverSupported(c) ==
    IF GetControllerPrivateData(c) THEN AnalyzeRemainingDevicePath(c)
    ELSE "PciIo" \notin opened[c]

\* IntelgbeUndiDriverStop opens the controller's NII pointer protocol
\* GET_PROTOCOL to find the private data, and returns its error otherwise.
NiiPointerOpened(c) == "CtrlNiiPointer" \in installed[c]

-----------------------------------------------------------------------------
\* The core calls IntelgbeUndiDriverStart for controller c after Supported
\* succeeded, with a NULL or MAC remaining path ("child") or an End node
\* ("end").  With private data and an End node Start returns at once.
IntelgbeUndiDriverStart(c) ==
    /\ loaded /\ pc = "idle"
    /\ HeldBelowBound(c)
    /\ IntelgbeUndiDriverSupported(c)
    /\ \E rdp \in {"child", "end"} :
         IF GetControllerPrivateData(c) /\ rdp = "end"
         THEN Return("start", c, TRUE)
         ELSE /\ ctl' = c
              /\ initChild' = (rdp = "child")
              /\ cur' = IF GetControllerPrivateData(c) THEN Min(FoundSlots(c)) ELSE NULLSLOT
              /\ pc' = IF GetControllerPrivateData(c) THEN "undistruct" ELSE "privdata"
              /\ UNCHANGED last
    /\ UNCHANGED <<loaded, deviceList, mActiveControllers, mActiveChildren, IFcnt, ctlVars>>

\* InitUndiPrivateData: AllocateZeroPool, then the list slot at
\* mActiveControllers and the increment.
InitUndiPrivateData ==
    /\ pc = "privdata"
    /\ \E ok \in PoolResults :
         IF ok
         THEN /\ deviceList' = (mActiveControllers :> [ctl |-> ctl, live |-> TRUE]) @@ deviceList
              /\ cur' = mActiveControllers
              /\ priv' = [priv EXCEPT ![ctl] = TRUE]
              /\ privPool' = [privPool EXCEPT ![ctl] = @ + 1]
              /\ childInit' = [childInit EXCEPT ![ctl] = FALSE]
              /\ undiEnabled' = [undiEnabled EXCEPT ![ctl] = FALSE]
              /\ ifNum' = [ifNum EXCEPT ![ctl] = 0]
              /\ devPath' = [devPath EXCEPT ![ctl] = "NULL"]
              /\ saved' = [saved EXCEPT ![ctl] = "zero"]
              /\ dma' = [dma EXCEPT ![ctl].rec = [b \in Buffers |-> Unbound]]
              /\ mActiveControllers' = (mActiveControllers + 1) % 256
              /\ pc' = "openctrl"
         ELSE /\ pc' = "errUndi"
              /\ UNCHANGED <<deviceList, cur, priv, privPool, childInit, undiEnabled,
                             ifNum, devPath, saved, dma, mActiveControllers>>
    /\ UNCHANGED <<loaded, ctl, initChild, mActiveChildren, IFcnt, devPathPool,
                   opened, installed, attrs, last>>

\* OpenControllerProtocols: PciIo, then DevicePath, BY_DRIVER.
OpenControllerProtocols ==
    /\ pc = "openctrl"
    /\ \E r \in OpenResults :
         /\ opened' = [opened EXCEPT ![ctl] = @ \cup CASE r = "ok" -> {"PciIo", "DevicePath"}
                                                     [] r = "DevicePath" -> {"PciIo"}
                                                     [] OTHER -> {}]
         /\ pc' = IF r = "ok" THEN "pciinit" ELSE "errUndi"
    /\ UNCHANGED <<loaded, ctl, initChild, cur, deviceList, mActiveControllers,
                   mActiveChildren, IFcnt, priv, privPool, childInit, undiEnabled,
                   ifNum, devPath, devPathPool, saved, installed, attrs, dma, last>>

\* The three UndiDmaAllocateCommonBuffer calls of IntelgbePciInit, each
\* after its Size is set, stopping at the first failure; es are the
\* platform's outcomes for them.
AllocStep(es, acc, i) ==
        IF ~acc.ok THEN acc
        ELSE AllocateCommonBuffer([acc.d EXCEPT !.rec[BufOrder[i]].size = ReqSize[BufOrder[i]]],
                                  BufOrder[i], es[i])

\* A variant of AllocRings below, a plausible slip in that code: the status
\* of the RxBufferMapping allocation is not checked.
AllocRingsRxBufferUnchecked(d, es) ==
    [ok |-> FoldLeft(LAMBDA a, i : AllocStep(es, a, i), [ok |-> TRUE, d |-> d], <<1, 2>>).ok,
     d |-> FoldLeft(LAMBDA a, i : AllocStep(es, a, i), [ok |-> TRUE, d |-> d], <<1, 2, 3>>).d]

AllocRings(d, es) == FoldLeft(LAMBDA a, i : AllocStep(es, a, i), [ok |-> TRUE, d |-> d], <<1, 2, 3>>)

\* OnAllocError: UndiDmaFreeCommonBuffer for every buffer whose Mapping is
\* not NULL.
OnAllocError(d) ==
    FoldLeft(LAMBDA x, b : IF x.rec[b].mapping THEN FreeCommonBuffer(x, b) ELSE x,
             d, BufOrder)

\* InitController, first IntelgbePciInit: save the attributes (a failed Get
\* goes to PciIoError without them), Supported and Enable, the three
\* buffers; an allocation failure frees the mapped ones; PciIoError sets
\* the saved attributes back (its status is not checked).  Any failure is
\* EFI_OUT_OF_RESOURCES.
IntelgbePciInit ==
    /\ pc = "pciinit"
    /\ \E r \in AttrResults \ {"set"}, e1, e2, e3 \in PlatformOutcomes, setOk \in SetOk :
         LET al == AllocRings(dma[ctl], <<e1, e2, e3>>)
             ok == r = "ok" /\ al.ok
         IN  /\ saved' = [saved EXCEPT ![ctl] = IF r = "get" THEN @ ELSE attrs[ctl]]
             /\ dma' = [dma EXCEPT ![ctl] = CASE r # "ok" -> @
                                              [] al.ok -> al.d
                                              [] OTHER -> OnAllocError(al.d)]
             /\ attrs' = [attrs EXCEPT ![ctl] = IF ok \/ (r = "ok" /\ ~setOk) THEN "enabled" ELSE @]
             /\ pc' = IF ok THEN "fti" ELSE "errDevPath"
    /\ UNCHANGED <<loaded, ctl, initChild, cur, deviceList, mActiveControllers,
                   mActiveChildren, IFcnt, priv, privPool, childInit, undiEnabled,
                   ifNum, devPath, devPathPool, opened, installed, last>>

\* The rest of InitController: IntelgbeFirstTimeInit (Bringup.tla); an
\* error other than ACCESS_DENIED fails Start, ACCESS_DENIED would leave
\* UNDI disabled. IntelgbeFirstTimeInit returns SUCCESS, UNSUPPORTED or a
\* negative errno of the ModPHY/XPCS init, never ACCESS_DENIED, so UNDI is
\* always enabled after it.
IntelgbeFirstTimeInit ==
    /\ pc = "fti"
    /\ \E r \in FtiResults :
         /\ undiEnabled' = [undiEnabled EXCEPT ![ctl] = TRUE]
         /\ pc' = IF r = "error" THEN "errDevPath" ELSE "ctrlprot"
    /\ UNCHANGED <<loaded, ctl, initChild, cur, deviceList, mActiveControllers,
                   mActiveChildren, IFcnt, priv, privPool, childInit, ifNum, devPath,
                   devPathPool, saved, opened, installed, attrs, dma, last>>

\* InitControllerProtocols installs the NII pointer on the controller;
\* without a child Start succeeds here.
InitControllerProtocols ==
    /\ pc = "ctrlprot"
    /\ \E ok \in LateOk :
         /\ installed' = [installed EXCEPT ![ctl] = IF ok THEN @ \cup {"CtrlNiiPointer"} ELSE @]
         /\ IF ok /\ ~initChild
            THEN Return("start", ctl, TRUE)
            ELSE /\ pc' = IF ok THEN "undistruct" ELSE "errDevPath"
                 /\ UNCHANGED <<ctl, cur, initChild, last>>
    /\ UNCHANGED <<loaded, deviceList, mActiveControllers, mActiveChildren, IFcnt,
                   priv, privPool, childInit, undiEnabled, ifNum, devPath,
                   devPathPool, saved, opened, attrs, dma>>

\* InitUndiStructures: GigUndiPxeUpdate counts the child, refusing more
\* than MAX_NIC_INTERFACES, and sets IFcnt.
InitUndiStructures ==
    /\ pc = "undistruct"
    /\ IF mActiveChildren < MAX_NIC_INTERFACES
       THEN /\ mActiveChildren' = mActiveChildren + 1
            /\ IFcnt' = PxeIFcnt(mActiveChildren + 1)
            /\ pc' = "childprot"
       ELSE pc' = "errDevPath" /\ UNCHANGED <<mActiveChildren, IFcnt>>
    /\ UNCHANGED <<loaded, ctl, initChild, cur, deviceList, mActiveControllers,
                   ctlVars, last>>

\* What InitChildProtocols does, in order: the driver-stop protocol
\* (creating the child handle), GigAppendMac2DevPath's pool buffer and the
\* device path on it, the NII pointer, NII 3.1 when UNDI is enabled, the
\* adapter information protocol.
ChildSteps == <<"StartStop", "Undi32DevPath", "DevicePath", "NiiPointer", "Nii31", "AIP">>
ChildPlan(c) == IF undiEnabled[c] THEN ChildSteps ELSE SelectSeq(ChildSteps, LAMBDA s : s # "Nii31")

\* InitChild (an empty InstallMultipleProtocolInterfaces) and
\* InitChildProtocols, which returns at the first step that fails; k steps
\* succeed.  InitNiiProtocol sets IfNum to IFcnt before its install, so
\* IfNum is set also when that install is the step that fails.
InitChildProtocols ==
    /\ pc = "childprot"
    /\ \E k \in IF LateFailures THEN 0 .. Len(ChildPlan(ctl)) ELSE {Len(ChildPlan(ctl))} :
         LET done == Range(SubSeq(ChildPlan(ctl), 1, k))
             tried == Range(SubSeq(ChildPlan(ctl), 1, Min({k + 1, Len(ChildPlan(ctl))})))
             alloc == "Undi32DevPath" \in done
         IN  /\ installed' = [installed EXCEPT ![ctl] = @ \cup (done \ {"Undi32DevPath"})]
             /\ devPath' = [devPath EXCEPT ![ctl] = IF alloc THEN "held" ELSE @]
             /\ devPathPool' = [devPathPool EXCEPT ![ctl] = @ + IF alloc THEN 1 ELSE 0]
             /\ ifNum' = [ifNum EXCEPT ![ctl] = IF "Nii31" \in tried THEN IFcnt ELSE @]
             /\ pc' = IF k = Len(ChildPlan(ctl)) THEN "openchild" ELSE "errDevPath"
    /\ UNCHANGED <<loaded, ctl, initChild, cur, deviceList, mActiveControllers,
                   mActiveChildren, IFcnt, priv, privPool, childInit, undiEnabled,
                   saved, opened, attrs, dma, last>>

\* OpenChildProtocols opens PciIo BY_CHILD_CONTROLLER; its failure is only
\* logged.  The child is marked initialised and Start succeeds.
OpenChildProtocols ==
    /\ pc = "openchild"
    /\ \E ok \in LateOk :
         opened' = [opened EXCEPT ![ctl] = IF ok THEN @ \cup {"PciIoChild"} ELSE @]
    /\ childInit' = [childInit EXCEPT ![ctl] = TRUE]
    /\ Return("start", ctl, TRUE)
    /\ UNCHANGED <<loaded, deviceList, mActiveControllers, mActiveChildren, IFcnt,
                   priv, privPool, undiEnabled, ifNum, devPath, devPathPool, saved,
                   installed, attrs, dma>>

\* A variant of FreeUndi32DevPath below, a plausible slip in the code: the
\* FreePool is left out.
FreeUndi32DevPathSkipped(c) == UNCHANGED <<devPath, devPathPool>>

\* gBS->FreePool (UndiPrivateData->Undi32DevPath) of controller c: NULL is
\* refused; the pointer is not cleared.
FreeUndi32DevPath(c) ==
    IF devPath[c] = "held"
    THEN /\ devPath' = [devPath EXCEPT ![c] = "freed"]
         /\ devPathPool' = [devPathPool EXCEPT ![c] = @ - 1]
    ELSE UNCHANGED <<devPath, devPathPool>>

\* Start's UndiErrorDeleteDevicePath label: GigUndiPxeUpdate (NULL)
\* uncounts the child and sets IFcnt; the device path is freed.
UndiErrorDeleteDevicePath ==
    /\ pc = "errDevPath"
    /\ mActiveChildren' = PxeUpdateRemove(mActiveChildren)
    /\ IFcnt' = PxeIFcnt(PxeUpdateRemove(mActiveChildren))
    /\ FreeUndi32DevPath(ctl)
    /\ pc' = "errUndi"
    /\ UNCHANGED <<loaded, ctl, initChild, cur, deviceList, mActiveControllers,
                   priv, privPool, childInit, undiEnabled, ifNum, saved, opened,
                   installed, attrs, dma, last>>

\* A variant of UndiError below, a plausible slip in the code: the count is
\* not decremented.
UndiErrorNoDecrement ==
    /\ pc = "errUndi"
    /\ opened' = [opened EXCEPT ![ctl] = CloseControllerProtocols(@)]
    /\ IF cur = NULLSLOT THEN UNCHANGED <<deviceList, priv, privPool>>
       ELSE FreePrivateData(ctl, deviceList)
    /\ Return("start", ctl, FALSE)
    /\ UNCHANGED <<loaded, mActiveControllers, mActiveChildren, IFcnt, childInit,
                   undiEnabled, ifNum, devPath, devPathPool, saved, installed,
                   attrs, dma>>

\* Start's UndiError label: the controller count is decremented, the
\* controller protocols closed and the private data freed (FreePool of a
\* NULL pointer when it was never allocated); the list slot is left
\* pointing at it.  Nothing else is undone.
UndiError ==
    /\ pc = "errUndi"
    /\ mActiveControllers' = (mActiveControllers + 255) % 256
    /\ opened' = [opened EXCEPT ![ctl] = CloseControllerProtocols(@)]
    /\ IF cur = NULLSLOT THEN UNCHANGED <<deviceList, priv, privPool>>
       ELSE FreePrivateData(ctl, deviceList)
    /\ Return("start", ctl, FALSE)
    /\ UNCHANGED <<loaded, mActiveChildren, IFcnt, childInit, undiEnabled, ifNum,
                   devPath, devPathPool, saved, installed, attrs, dma>>

\* IntelgbeUndiDriverStop for controller c with its child
\* (NumberOfChildren = 1): the NII pointer of the controller leads to the
\* private data; StopChild closes PciIo for the child, uninstalls the
\* adapter information protocol, then the other child protocols at once;
\* when an agent denies that, once more without the driver-stop protocol
\* (and with NII 3.1 even when UNDI is disabled).  Neither result is
\* checked; IntelgbeShutdown only writes registers.  IsChildInitialized
\* stays TRUE, and mActiveChildren is decremented directly, unguarded and
\* without GigUndiPxeUpdate: IFcnt keeps its value.
IntelgbeUndiDriverStopChild(c) ==
    /\ StopCallable
    /\ NiiPointerOpened(c) /\ "PciIoChild" \in opened[c]
    /\ \E denied \in IF LateFailures THEN {"none", "once", "always"} ELSE {"none"} :
         LET first == {"StartStop", "NiiPointer", "DevicePath"}
                        \cup IF undiEnabled[c] THEN {"Nii31"} ELSE {}
             retry == {"Nii31", "NiiPointer", "DevicePath"}
             inst == installed[c] \ {"AIP"}
         IN  installed' = [installed EXCEPT ![c] = CASE denied = "none" -> Uninstall(inst, first)
                                                     [] denied = "once" -> Uninstall(inst, retry)
                                                     [] OTHER -> inst]
    /\ opened' = [opened EXCEPT ![c] = @ \ {"PciIoChild"}]
    /\ mActiveChildren' = PxeUpdateRemoveUnguarded(mActiveChildren)
    /\ Returned("stopChild", c, TRUE)
    /\ UNCHANGED <<loaded, ctl, initChild, cur, deviceList, mActiveControllers, IFcnt,
                   priv, privPool, childInit, undiEnabled, ifNum, devPath,
                   devPathPool, saved, attrs, dma>>

\* IntelgbeUndiDriverStop for controller c with no children,
\* StopController: uninstall the controller's NII pointer, clear list slot
\* NiiProtocol31.IfNum, free the device path, the three DMA buffers
\* (statuses ignored), set the original attributes back (a failure
\* returns), close the controller protocols (a failure returns), free the
\* private data; then mActiveControllers is decremented.
IntelgbeUndiDriverStopController(c) ==
    /\ StopCallable
    /\ "PciIo" \in opened[c] /\ "PciIoChild" \notin opened[c]
    /\ NiiPointerOpened(c)
    /\ \E setOk \in SetOk :
         LET closed == setOk /\ "DevicePath" \in opened[c]
             kept == Restrict(deviceList, DOMAIN deviceList \ {ifNum[c]})
         IN  /\ installed' = [installed EXCEPT ![c] = @ \ {"CtrlNiiPointer"}]
             /\ FreeUndi32DevPath(c)
             /\ dma' = [dma EXCEPT ![c] = FoldLeft(LAMBDA x, b : FreeCommonBuffer(x, b), @, BufOrder)]
             /\ attrs' = [attrs EXCEPT ![c] = IF setOk THEN saved[c] ELSE @]
             /\ opened' = [opened EXCEPT ![c] = IF setOk THEN CloseControllerProtocols(@) ELSE @]
             /\ IF closed THEN FreePrivateData(c, kept)
                ELSE deviceList' = kept /\ UNCHANGED <<priv, privPool>>
             /\ mActiveControllers' = IF closed THEN (mActiveControllers + 255) % 256
                                      ELSE mActiveControllers
             /\ Returned("stop", c, closed)
    /\ UNCHANGED <<loaded, ctl, initChild, cur, mActiveChildren, IFcnt,
                   childInit, undiEnabled, ifNum, saved>>

\* IntelgbeUndiUnload: DisconnectController on every handle, in which the
\* core calls Stop for the children and the controllers as long as this
\* driver manages them (the Stop actions above); then the image unloads
\* only when mActiveControllers is 0: the PXE structure is freed and the
\* binding and name protocols uninstalled.  Otherwise
\* EFI_INVALID_PARAMETER.
IntelgbeUndiUnload ==
    /\ loaded /\ pc = "idle"
    /\ pc' = "disconnect"
    /\ UNCHANGED <<loaded, ctl, initChild, cur, deviceList, mActiveControllers,
                   mActiveChildren, IFcnt, ctlVars, last>>

\* The rest of Unload, once the disconnect loop has found nothing more to
\* stop (a Stop that is refused is not retried).
UnloadDisconnected ==
    /\ pc = "disconnect"
    /\ ~ENABLED \E c \in Controllers :
          IntelgbeUndiDriverStopChild(c) \/ IntelgbeUndiDriverStopController(c)
    /\ loaded' = (mActiveControllers # 0)
    /\ Return("unload", NoCtl, mActiveControllers = 0)
    /\ UNCHANGED <<deviceList, mActiveControllers, mActiveChildren, IFcnt, ctlVars>>

\* The platform loads the driver image again: InitializeIntelgbeUNDIDriver
\* installs the binding and initialises the !PXE structure (IFcnt 0), and
\* the image's globals (the counts and the device list) start at zero;
\* what the platform still holds stays held.
InitializeIntelgbeUNDIDriver ==
    /\ ~loaded
    /\ loaded' = TRUE
    /\ deviceList' = << >>
    /\ mActiveControllers' = 0 /\ mActiveChildren' = 0 /\ IFcnt' = 0
    /\ last' = [op |-> "load", ctl |-> NoCtl, ok |-> TRUE]
    /\ UNCHANGED <<pc, ctl, initChild, cur, ctlVars>>

-----------------------------------------------------------------------------
\* The driver is loaded: nothing allocated, opened or installed, every
\* controller's attributes as the PCI bus driver left them.
Init ==
    /\ loaded = TRUE
    /\ pc = "idle" /\ ctl = NoCtl /\ initChild = FALSE /\ cur = NULLSLOT
    /\ deviceList = << >>
    /\ mActiveControllers = 0 /\ mActiveChildren = 0 /\ IFcnt = 0
    /\ priv = [c \in Controllers |-> FALSE]
    /\ privPool = [c \in Controllers |-> 0]
    /\ childInit = [c \in Controllers |-> FALSE]
    /\ undiEnabled = [c \in Controllers |-> FALSE]
    /\ ifNum = [c \in Controllers |-> 0]
    /\ devPath = [c \in Controllers |-> "NULL"]
    /\ devPathPool = [c \in Controllers |-> 0]
    /\ saved = [c \in Controllers |-> "zero"]
    /\ opened = [c \in Controllers |-> {}]
    /\ installed = [c \in Controllers |-> {}]
    /\ attrs = [c \in Controllers |-> "original"]
    /\ dma = [c \in Controllers |->
                [rec |-> [b \in Buffers |-> Unbound],
                 pages |-> [b \in Buffers |-> 0], maps |-> [b \in Buffers |-> 0]]]
    /\ last = [op |-> "none", ctl |-> NoCtl, ok |-> TRUE]

Next ==
    \/ \E c \in Controllers :
         \/ IntelgbeUndiDriverStart(c)
         \/ IntelgbeUndiDriverStopChild(c) \/ IntelgbeUndiDriverStopController(c)
    \/ InitUndiPrivateData \/ OpenControllerProtocols \/ IntelgbePciInit
    \/ IntelgbeFirstTimeInit \/ InitControllerProtocols
    \/ InitUndiStructures \/ InitChildProtocols \/ OpenChildProtocols
    \/ UndiErrorDeleteDevicePath \/ UndiError
    \/ IntelgbeUndiUnload \/ UnloadDisconnected \/ InitializeIntelgbeUNDIDriver

Spec == Init /\ [][Next]_vars

\* The controllers are interchangeable handles (safety runs only).
ControllerSymmetry == Permutations(Controllers)

-----------------------------------------------------------------------------
DriverTypeOK ==
    /\ loaded \in BOOLEAN
    /\ pc \in {"idle", "disconnect", "privdata", "openctrl", "pciinit", "fti", "ctrlprot",
               "undistruct", "childprot", "openchild", "errDevPath", "errUndi"}
    /\ ctl \in Controllers \cup {NoCtl}
    /\ DOMAIN deviceList \subseteq 0 .. MAX_NIC_INTERFACES - 1
    /\ \A s \in DOMAIN deviceList : deviceList[s] \in [ctl : Controllers, live : BOOLEAN]
    /\ mActiveControllers \in 0 .. 255 /\ IFcnt \in 0 .. 255
    /\ mActiveChildren \in 0 .. MAX_NIC_INTERFACES
    /\ \A c \in Controllers :
         /\ opened[c] \subseteq {"PciIo", "DevicePath", "PciIoChild"}
         /\ installed[c] \subseteq {"CtrlNiiPointer", "StartStop", "DevicePath",
                                   "NiiPointer", "Nii31", "AIP"}
         /\ attrs[c] \in {"original", "enabled", "zero"}
         /\ ifNum[c] \in 0 .. 255

\* Nothing of controller c is held for the driver: no private data or
\* device path pool, no DMA pages or mappings, no protocol opened or
\* installed, and the PCI attributes as found.
Released(c) ==
    /\ privPool[c] = 0 /\ devPathPool[c] = 0
    /\ \A b \in Buffers : dma[c].pages[b] = 0 /\ dma[c].maps[b] = 0
    /\ opened[c] = {} /\ installed[c] = {}
    /\ attrs[c] = "original"

\* Every DMA record is fully bound to a whole mapped allocation of its
\* size or fully unbound, and what the platform holds for each buffer of
\* each controller is exactly what its live record owns: no page or
\* mapping is lost by the OnAllocError path of IntelgbePciInit, which
\* frees only the buffers whose Mapping is set and leaves the failing one
\* to UndiDmaAllocateCommonBuffer's own unwinding, or by the frees of
\* StopController. The unwinding after a partial map keeps this only
\* while the shortfall stays within the last page (ShortBy below 4096).
DmaAccounted ==
    \A c \in Controllers, b \in Buffers :
        LET r == dma[c].rec[b] IN
        /\ priv[c] => r = Unbound \/ Bound(r, ReqSize[b])
        /\ dma[c].pages[b] = IF priv[c] THEN r.ua ELSE 0
        /\ dma[c].maps[b] = IF priv[c] /\ r.mapping THEN 1 ELSE 0

\* A Start that returned success leaves the adapter ready for UNDI: the
\* three buffers bound at full size, bus mastering enabled, PciIo and the
\* device path open and the NII pointer on the controller; with the child
\* initialised, its protocols installed (NII 3.1 exactly when UNDI is
\* enabled) and PciIo opened for it.
ReadyWhenStarted ==
    (pc = "idle" /\ last.op = "start" /\ last.ok) =>
        LET c == last.ctl IN
        /\ priv[c]
        /\ \A b \in Buffers : Bound(dma[c].rec[b], ReqSize[b])
        /\ attrs[c] = "enabled"
        /\ {"PciIo", "DevicePath"} \subseteq opened[c]
        /\ "CtrlNiiPointer" \in installed[c]
        /\ childInit[c] =>
             /\ {"StartStop", "DevicePath", "NiiPointer", "AIP"} \subseteq installed[c]
             /\ ("Nii31" \in installed[c] <=> undiEnabled[c])
             /\ "PciIoChild" \in opened[c]

\* A Stop of a controller that returned success has released everything
\* the driver took for it since the Start that found it, through
\* StopChild and StopController.
StopReleasesAll ==
    (StopCallable /\ last.op = "stop" /\ last.ok) => Released(last.ctl)

\* Once Unload has let the image go, the platform holds nothing for it:
\* no buffer the DMA engine may still write and no protocol whose code is
\* gone.
UnloadReleasesAll == ~loaded => \A c \in Controllers : Released(c)

\* GetControllerPrivateData, which Supported and Start rely on, only ever
\* finds private data that is still allocated: every slot below
\* mActiveControllers points at live data. On one controller whose private
\* data is always allocated, a Start that fails after InitUndiPrivateData
\* listed its data frees it through UndiError without clearing the slot,
\* and only the decrement of mActiveControllers there keeps the dangling
\* slot out of the search. With a failing pool allocation, or with two
\* controllers, the property fails (README).
ListedPrivateDataLive ==
    \A s \in DOMAIN deviceList : s < mActiveControllers => deviceList[s].live

\* IntelgbeUndiApiEntry accepts a CDB whose IFnum is at most IFcnt and
\* takes the adapter from mIntelgbeUndi32DeviceList[IFnum]: every NII 3.1
\* installed on a controller's child carries an IfNum the dispatcher
\* accepts and that leads to that controller's own, live, private data,
\* across Starts and Stops of the controllers in any order.
NiiRoutesToOwnController ==
    \A c \in Controllers :
        "Nii31" \in installed[c] =>
            /\ ifNum[c] <= IFcnt
            /\ ifNum[c] \in DOMAIN deviceList
            /\ deviceList[ifNum[c]] = [ctl |-> c, live |-> TRUE]

====
