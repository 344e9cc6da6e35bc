------------------------------- MODULE Bringup -------------------------------
(***************************************************************************)
(* IntelgbeFirstTimeInit (Intelgbe.c): the one-time bring-up of an mGbE    *)
(* controller and its PHY, over the shared code of IntelGbe/.              *)
(*                                                                         *)
(*   setup    intelgbe_setup_init_funcs: MAC type from the PCI device id,  *)
(*            MAC ops, PHY ops: the MDIO PHY scan and the PHY driver bound *)
(*            by vendor/model and interface                                *)
(*   getid    intelgbe_get_id (IP version >= 0x50) and read_mac_addr       *)
(*   modphy   intelgbe_modphy_init (SGMII only): SERDES rate, PLL clock    *)
(*            request, lane reset and power state P0, each polled          *)
(*   xpcs     intelgbe_xpcs_init (SGMII only): XPCS reset, polled, then    *)
(*            its mode registers                                           *)
(*   phyinit  intelgbe_phy_init: phy->ops.init, then phy->ops.cfg_link     *)
(*            (mii_phy_config_link: advertisement and autonegotiation)     *)
(*   reset    intelgbe_reset_controller: DMA software reset, polled        *)
(*   inithw   write_mac_addr and init_hw, which cannot fail                *)
(*                                                                         *)
(* The hardware is the environment.  Its configuration (device id, the PHY *)
(* and its address, the SERDES strap, ...) is fixed in Init; while it runs *)
(* it decides how long the MDIO busy bit stays set, and on which read a    *)
(* polled status bit shows up.  One choice of busy duration per function   *)
(* stands for its MDIO accesses: all complete, or the first one that times *)
(* out makes the function return.  Register contents are abstracted to the *)
(* bits the code tests: PHY registers are sets of named bits.              *)
(***************************************************************************)
EXTENDS Integers, FiniteSets

CONSTANTS
    DeviceIds,      \* PCI device ids the controller may carry
    PhyKinds,       \* PHYs that may sit on the MDIO bus
    PhyAddrs,       \* MDIO addresses the PHY may sit at
    Abilities,      \* link-mode sets the PHY may report as supported
    NumPhyAddrs,    \* addresses mii_phy_id_get walks (32)
    MdioLimit,      \* polls of the MDIO busy bit (100)
    ResetLimit,     \* polls of DMA_MODE.SWR by reset_controller (10)
    ModphyRetries,  \* polls of SERDES_GSR0 by modphy_init (10)
    XpcsRetries,    \* polls of the XPCS reset bit by xpcs_init (10)
    AckReads        \* on which poll a SERDES or XPCS status bit may show

ASSUME NumPhyAddrs \in Nat \ {0} /\ PhyAddrs \subseteq 0 .. NumPhyAddrs - 1
ASSUME MdioLimit \in Nat \ {0} /\ ResetLimit \in Nat \ {0}
ASSUME AckReads \subseteq Nat \ {0}

VARIABLES
    hw,         \* the hardware as it is: device, phy, phyAddr, ability,
                \* version ok, SERDES strap
    pc,         \* the step of IntelgbeFirstTimeInit next to run
    mac,        \* hw->mac: type, pse_gbe, speed_2500_en
    phy,        \* hw->phy: addr, c45, id (the bound driver), support
    serdes,     \* SERDES state reached: PLL clock, lane reset, power P0
    xpcsReset,  \* the XPCS reset bit (SR_MII_CTRL_RST)
    regs,       \* PHY registers: advertisement, 1000BASE-T control,
                \* autoneg enable, isolate
    anRestarts, \* autonegotiation restarts so far
    err,        \* the step IntelgbeFirstTimeInit failed in, "none" if none
    pollLog     \* history: the last busy-bit poll: its limit, the reads
                \* the bit stayed set, and whether the code saw it clear

vars == <<hw, pc, mac, phy, serdes, xpcsReset, regs, anRestarts, err, pollLog>>

-----------------------------------------------------------------------------
(* Device tables (Intelgbe.h, intelgbe_set_mac_type, init_mac_ops).        *)
RgmiiIds == {\h4BA0, \h4BB0}
PseSgmiiIds == {\h4BA1, \h4BB1, \h4BA2, \h4BB2}
PchSgmiiIds == {\h4B32, \h43AC, \h43A2, \hA0AC}
KnownIds == RgmiiIds \cup PseSgmiiIds \cup PchSgmiiIds

\* intelgbe_set_mac_type; pse_gbe stays FALSE where it is not assigned
\* (the adapter structure is zeroed).
MacTypeOf(d) == IF d \in RgmiiIds THEN "rgmii" ELSE "sgmii"

\* The PHYs of the drivers, and the clause they answer to.
C45Phys == {"88E2110"}
LinkModes == {"10H", "10F", "100H", "100F", "1000H", "1000F"}
AdvMask == {"10H", "10F", "100H", "100F", "T4", "PAUSE", "ASYM"}
GctrlMask == {"1000H", "1000F"}

-----------------------------------------------------------------------------
(* The polling loops.                                                      *)

\* `while (limit--) { if (!(read & BUSY)) break; delay; }` with the bit set
\* on the first b reads: the value of limit after the loop.  The MDIO
\* accesses (intelgbe_mdio_read/write) and reset_controller test it < 0.
RECURSIVE PollBusy(_, _)
PollBusy(limit, b) ==
    IF limit = 0 THEN -1
    ELSE IF b = 0 THEN limit - 1
    ELSE PollBusy(limit - 1, b - 1)

\* `do { read; if (acked) break; delay; } while (--retries);` with the
\* status bit showing on read k: the value of retries after the loop.
RECURSIVE PollDone(_, _)
PollDone(retries, k) ==
    IF k = 1 THEN retries
    ELSE IF retries - 1 = 0 THEN 0
    ELSE PollDone(retries - 1, k - 1)

\* The busy durations the hardware may choose against a poll of `limit'
\* reads: none, clearing on the last read, and never within the poll.
BusyChoices(limit) == {0, limit - 1, limit}

\* PollBusy for the two limits in use, evaluated once.
PollResult ==
    [l \in {MdioLimit, ResetLimit} |-> [b \in BusyChoices(l) |-> PollBusy(l, b)]]

PollOkOffByOne(limit, b) == PollResult[limit][b] > 0

\* The callers' test: -INTELGBE_BUSY (MDIO) or INTELGBE_ERR_RESET when
\* limit < 0 after the loop.
PollOk(limit, b) == PollResult[limit][b] >= 0

\* A busy-bit poll, recorded in the history.
Poll(limit, b) == pollLog' = [limit |-> limit, busy |-> b, ok |-> PollOk(limit, b)]

\* The MDIO accesses of one function, whose busy bit stays set b polls:
\* all of them complete, or the first that times out makes it return.
MdioOk(b) == PollOk(MdioLimit, b)

-----------------------------------------------------------------------------
(* mii_phy_id_get, for a PHY of kind `kind' at address `at'.  A read at  *)
(* an address where no PHY answers, or in the clause the PHY does not     *)
(* answer to, returns all-ones ("none").                                   *)
C22Id(kind, at, a) == IF a = at /\ kind \notin C45Phys THEN kind ELSE "none"
C45Id(kind, at, a) == IF a = at /\ kind \in C45Phys THEN kind ELSE "none"

\* The while loop: hw->phy.addr = phy_addr, clause-22 ID, clause-45 ID if
\* that was degenerate, phy_addr++; until an ID or phy_addr = 32.
RECURSIVE Scan(_, _, _, _)
ScanRecordAfterIncrement(kind, at, a, s) ==
    IF s.id # "none" \/ ~(a < NumPhyAddrs)
    THEN [s EXCEPT !.next = a]
    ELSE LET id22 == C22Id(kind, at, a) IN
         Scan(kind, at, a + 1,
              IF id22 # "none"
              THEN [id |-> id22, c45 |-> FALSE, addr |-> a + 1, next |-> a + 1]
              ELSE [id |-> C45Id(kind, at, a), c45 |-> TRUE, addr |-> a + 1, next |-> a + 1])
Scan(kind, at, a, s) ==
    IF s.id # "none" \/ ~(a < NumPhyAddrs)
    THEN [s EXCEPT !.next = a]
    ELSE LET id22 == C22Id(kind, at, a) IN
         Scan(kind, at, a + 1,
              IF id22 # "none"
              THEN [id |-> id22, c45 |-> FALSE, addr |-> a, next |-> a + 1]
              ELSE [id |-> C45Id(kind, at, a), c45 |-> TRUE, addr |-> a, next |-> a + 1])

\* mii_phy_id_get from phy_addr 0, for every PHY and address, evaluated once.
ScanTable ==
    [k \in PhyKinds, at \in PhyAddrs |->
        Scan(k, at, 0, [id |-> "none", c45 |-> FALSE, addr |-> 0, next |-> 0])]
MiiPhyIdGet == ScanTable[hw.phy, hw.phyAddr]

\* It returns success when phy_addr < 32 after the loop.
ScanOk(s) == s.next < NumPhyAddrs

\* intelgbe_init_phy_params_stmmac: the PHY driver for vendor/model; GPY
\* and 88E2110 only behind SGMII.  Unknown PHYs are refused.
Bindable(id, type) ==
    \/ id = "88E1512"
    \/ id \in {"GPY", "88E2110"} /\ type = "sgmii"

-----------------------------------------------------------------------------
(* mii_phy_config_link's register arithmetic.                              *)

AdvertiseUnmasked(support) == support \cup {"SEL"}

\* The advertisement genphy-style: 10/100 modes of phy->support plus the
\* IEEE 802.3 selector, and the 1000BASE-T modes.
Advertise(support) == (support \cap {"10H", "10F", "100H", "100F"}) \cup {"SEL"}
Advertise1000(support) == support \cap GctrlMask

\* MII_STD_STATUS_EXTEND_STATUS: the PHY has 1000BASE-T modes.
Extended(ability) == ability \cap GctrlMask # {}

\* intelgbe_phy_modify_c22/c45_if_changed: oldval is the u32 read from
\* MAC_MDIO_DATA_REG, newval the u16 (oldval & ~mask) | val.  A clause-45
\* read leaves the register number in the RA field (bits 31:16) of that
\* register, so the upper half of oldval is non-zero; clause 22 writes 0.
RaField(c45) == IF c45 THEN 1 ELSE 0
ModifyIfChanged(old, mask, val, c45) ==
    LET oldval == [ra |-> RaField(c45), bits |-> old]
        newval == [ra |-> 0, bits |-> (old \ mask) \cup val]
    IN  [changed |-> newval # oldval, new |-> newval.bits]

ConfigLinkNoRecheck(support) ==
    LET m1 == ModifyIfChanged(regs.adv, AdvMask, Advertise(support), phy.c45)
        m2 == IF Extended(hw.ability)
              THEN ModifyIfChanged(regs.gctrl, GctrlMask, Advertise1000(support), phy.c45)
              ELSE [changed |-> FALSE, new |-> regs.gctrl]
        changed == m1.changed \/ m2.changed
    IN  [adv |-> m1.new, gctrl |-> m2.new,
         anEn |-> regs.anEn \/ changed, isolate |-> regs.isolate /\ ~changed,
         restart |-> changed]

\* mii_phy_config_link without MDIO errors: both advertisements written if
\* changed, autonegotiation restarted if either changed or it was disabled
\* or the PHY isolated (clause 45: AN_CTRL written, clause 22: ISOLATE
\* cleared and AUTONEG_ENABLE|RESTART set), then the completion wait, whose
\* timeout is only logged.  The registers after it, and whether it
\* restarted autonegotiation.
ConfigLink(support) ==
    LET m1 == ModifyIfChanged(regs.adv, AdvMask, Advertise(support), phy.c45)
        m2 == IF Extended(hw.ability)
              THEN ModifyIfChanged(regs.gctrl, GctrlMask, Advertise1000(support), phy.c45)
              ELSE [changed |-> FALSE, new |-> regs.gctrl]
        changed == m1.changed \/ m2.changed \/ ~regs.anEn \/ regs.isolate
    IN  [adv |-> m1.new, gctrl |-> m2.new,
         anEn |-> regs.anEn \/ changed, isolate |-> regs.isolate /\ ~changed,
         restart |-> changed]

-----------------------------------------------------------------------------
Fail(step) == pc' = "failed" /\ err' = step

\* intelgbe_setup_init_funcs(hw, TRUE): set_mac_type (unknown ids are
\* refused), init_function_pointers, init_mac_ops, init_phy_params_stmmac:
\* MDIO ops, interface from the MAC type, mii_phy_id_get, and the PHY
\* driver's init_phy_ops.
SetupInitFuncs ==
    /\ pc = "setup"
    /\ IF hw.device \notin KnownIds
       THEN Fail("setup") /\ UNCHANGED <<mac, phy, pollLog>>
       ELSE /\ mac' = [type |-> MacTypeOf(hw.device),
                       pse |-> hw.device \in PseSgmiiIds, speed2500 |-> FALSE]
            /\ \E b \in BusyChoices(MdioLimit) :
                  /\ Poll(MdioLimit, b)
                  /\ IF MdioOk(b)
                     THEN LET s == MiiPhyIdGet IN
                          /\ phy' = [addr |-> s.addr, c45 |-> s.c45, id |-> s.id,
                                     support |-> {}]
                          /\ IF ScanOk(s) /\ Bindable(s.id, MacTypeOf(hw.device))
                             THEN pc' = "getid" /\ UNCHANGED err
                             ELSE Fail("setup")
                     ELSE Fail("setup") /\ UNCHANGED phy
    /\ UNCHANGED <<hw, serdes, xpcsReset, regs, anRestarts>>

\* intelgbe_get_id (an IP version below 0x50 is refused) and
\* intelgbe_read_mac_addr, which cannot fail; SGMII goes on to the ModPHY.
GetId ==
    /\ pc = "getid"
    /\ IF hw.versionOk
       THEN /\ pc' = IF mac.type = "sgmii" THEN "modphy" ELSE "phyinit"
            /\ UNCHANGED err
       ELSE Fail("getid")
    /\ UNCHANGED <<hw, mac, phy, serdes, xpcsReset, regs, anRestarts, pollLog>>

\* intelgbe_modphy_init: link mode from SERDES_GCR, rate and PCLK into
\* GCR0, then three requests (PLL clock, lane reset, power state P0), each
\* polled in SERDES_GSR0 with `do ... while (--retries)' and checked with
\* `retries < 0'; PSE parts get the Rx clock ungate.  Any MDIO error
\* returns it.  The status bit of each request shows on read kp, kl, k0.
ModphyTimedOut(k) == PollDone(ModphyRetries, k) < 0
ModphyInit ==
    /\ pc = "modphy"
    /\ \E b \in BusyChoices(MdioLimit), kp, kl, k0 \in AckReads :
          /\ Poll(MdioLimit, b)
          /\ IF MdioOk(b)
             THEN /\ mac' = [mac EXCEPT !.speed2500 = (hw.strap = "2G5")]
                  /\ serdes' = [pll |-> kp <= ModphyRetries,
                                lane |-> kl <= ModphyRetries,
                                p0 |-> k0 <= ModphyRetries]
                  /\ IF \E k \in {kp, kl, k0} : ModphyTimedOut(k)
                     THEN Fail("modphy")
                     ELSE pc' = "xpcs" /\ UNCHANGED err
             ELSE Fail("modphy") /\ UNCHANGED <<mac, serdes>>
    /\ UNCHANGED <<hw, phy, xpcsReset, regs, anRestarts>>

\* intelgbe_xpcs_init: the reset bit set through mdio_c45_modify (its
\* error is or-ed into retval and never looked at), then polled: phy_reg
\* starts at 0 and a failed read leaves it as it was, so the loop ends as
\* if the reset were done.  `!xpcs_retry' is a timeout.  The mode
\* registers follow with their errors ignored, and it returns success.
\* b1 is the busy time at the reset write, b2 at the polls; the XPCS leaves
\* reset on read k.
XpcsInit ==
    /\ pc = "xpcs"
    /\ \E b1, b2 \in BusyChoices(MdioLimit), k \in AckReads :
          LET issued == MdioOk(b1)
              stillReset == issued /\ ~(MdioOk(b2) /\ k <= XpcsRetries) /\ k > 1
              timedOut == issued /\ MdioOk(b2) /\ PollDone(XpcsRetries, k) = 0
          IN  /\ Poll(MdioLimit, b2)
              /\ xpcsReset' = stillReset
              /\ IF timedOut THEN Fail("xpcs") ELSE pc' = "phyinit" /\ UNCHANGED err
    /\ UNCHANGED <<hw, mac, phy, serdes, regs, anRestarts>>

\* phy->ops.init of the three drivers.  88E1512: page 18 and the copper
\* mode over SGMII, LED and MAC-interface pages, then a soft reset whose
\* result is dropped.
Init88E1512Ok(b) == MdioOk(b)

\* GPY: nothing to do.
InitGpyOk == TRUE

\* 88E2110: the boot status (a fatal boot is refused; when the read fails
\* phyreg is uninitialised, and either way the or-ed error is returned)
\* and the firmware version.
Init88E2110Ok(b) == MdioOk(b) /\ ~hw.bootFatal

\* hw->phy.ops.init as bound by init_phy_params.
PhyOpsInitOk(b) ==
    CASE phy.id = "88E1512" -> Init88E1512Ok(b)
      [] phy.id = "GPY"     -> InitGpyOk
      [] phy.id = "88E2110" -> Init88E2110Ok(b)

\* intelgbe_phy_init: `retval |= ops.init(hw); retval |= ops.cfg_link(hw)',
\* so cfg_link runs even after init failed.  cfg_link (88E1512: page 0;
\* 88E2110: MULTIG_CTRL; then mii_phy_config_link) reads the abilities if
\* phy->support is empty; an MDIO error returns it before any register it
\* would change.
PhyInit ==
    /\ pc = "phyinit"
    /\ \E b1, b2 \in BusyChoices(MdioLimit) :
          LET support == IF phy.support = {} THEN hw.ability ELSE phy.support
              r == ConfigLink(support)
          IN  /\ Poll(MdioLimit, b2)
              /\ IF MdioOk(b2)
                 THEN /\ regs' = [adv |-> r.adv, gctrl |-> r.gctrl,
                                  anEn |-> r.anEn, isolate |-> r.isolate]
                      /\ anRestarts' = anRestarts + (IF r.restart THEN 1 ELSE 0)
                      /\ phy' = [phy EXCEPT !.support = support]
                 ELSE UNCHANGED <<regs, anRestarts, phy>>
              /\ IF PhyOpsInitOk(b1) /\ MdioOk(b2)
                 THEN pc' = "reset" /\ UNCHANGED err
                 ELSE Fail("phyinit")
    /\ UNCHANGED <<hw, mac, serdes, xpcsReset>>

\* intelgbe_reset_controller (DMA_MODE.SWR set, then polled with
\* `while (limit--)'), then write_mac_addr and init_hw, which return 0:
\* HwInitialized.
ResetAndInitHw ==
    /\ pc = "reset"
    /\ \E b \in BusyChoices(ResetLimit) :
          /\ Poll(ResetLimit, b)
          /\ IF PollOk(ResetLimit, b) THEN pc' = "done" /\ UNCHANGED err
             ELSE Fail("reset")
    /\ UNCHANGED <<hw, mac, phy, serdes, xpcsReset, regs, anRestarts>>

-----------------------------------------------------------------------------
HwConfigs ==
    [device: DeviceIds, phy: PhyKinds, phyAddr: PhyAddrs, ability: Abilities,
     versionOk: BOOLEAN, strap: {"1G", "2G5"}, bootFatal: BOOLEAN]

\* Power-on: the PHY's advertisement either already what the driver
\* computes or only the selector, autonegotiation on or off; only a
\* clause-22 PHY has an isolate bit.
Init ==
    /\ hw \in HwConfigs
    /\ pc = "setup"
    /\ mac = [type |-> "none", pse |-> FALSE, speed2500 |-> FALSE]
    /\ phy = [addr |-> 0, c45 |-> FALSE, id |-> "none", support |-> {}]
    /\ serdes = [pll |-> FALSE, lane |-> FALSE, p0 |-> FALSE]
    /\ xpcsReset = FALSE
    /\ \E same \in BOOLEAN, en \in BOOLEAN,
          iso \in IF hw.phy \in C45Phys THEN {FALSE} ELSE BOOLEAN :
          regs = [adv |-> IF same THEN Advertise(hw.ability) ELSE {"SEL"},
                  gctrl |-> IF same THEN Advertise1000(hw.ability) ELSE {},
                  anEn |-> en, isolate |-> iso]
    /\ anRestarts = 0
    /\ err = "none"
    /\ pollLog = [limit |-> MdioLimit, busy |-> 0, ok |-> TRUE]

Next ==
    \/ SetupInitFuncs \/ GetId \/ ModphyInit \/ XpcsInit \/ PhyInit
    \/ ResetAndInitHw

Spec == Init /\ [][Next]_vars

-----------------------------------------------------------------------------
Steps == {"setup", "getid", "modphy", "xpcs", "phyinit", "reset"}

BringupTypeOK ==
    /\ hw \in HwConfigs
    /\ pc \in Steps \cup {"done", "failed"}
    /\ err \in Steps \cup {"none"}
    /\ mac.type \in {"none", "rgmii", "sgmii"}
    /\ phy.addr \in 0 .. NumPhyAddrs - 1 /\ phy.c45 \in BOOLEAN
    /\ phy.support \subseteq LinkModes
    /\ regs.adv \subseteq AdvMask \cup {"SEL"} /\ regs.gctrl \subseteq GctrlMask
    /\ anRestarts \in 0 .. 1
    /\ pollLog.ok \in BOOLEAN

\* Every busy-bit poll (the MDIO accesses, the DMA software reset) fails
\* exactly when the bit stayed set for all its reads: a bit that clears on
\* the last permitted read is a success, one that never clears is Busy.
PollBusyExact ==
    pollLog.ok <=> pollLog.busy < pollLog.limit

\* A successful bring-up has bound the driver of the PHY that is on the
\* bus, at its address and in the clause it answers to, behind an
\* interface that driver supports.
SuccessMeansPhyBound ==
    pc = "done" =>
        /\ phy.id = hw.phy /\ phy.addr = hw.phyAddr
        /\ phy.c45 = (hw.phy \in C45Phys)
        /\ Bindable(phy.id, mac.type)

\* A successful bring-up leaves the PHY advertising exactly the modes it
\* supports, with autonegotiation enabled and the PHY not isolated,
\* whatever the advertisement and control registers held at power-on.
LinkAdvertisedOnSuccess ==
    pc = "done" =>
        /\ phy.support = hw.ability
        /\ regs.adv \cap AdvMask = Advertise(phy.support) \cap AdvMask
        /\ Extended(hw.ability) => regs.gctrl = Advertise1000(phy.support)
        /\ regs.anEn /\ ~regs.isolate

\* mii_phy_config_link restarts autonegotiation only when the advertisement
\* changed, or autonegotiation was off or the PHY isolated ("Only restart
\* aneg if we are advertising something different than we were before").
AnRestartOnlyOnChange ==
    [][anRestarts' # anRestarts =>
         \/ regs'.adv # regs.adv \/ regs'.gctrl # regs.gctrl
         \/ ~regs.anEn \/ regs.isolate]_vars

\* A bring-up that reports success over SGMII has the SERDES PLL clock,
\* lane reset and power state P0 it requested.
SerdesReadyOnSuccess ==
    (pc = "done" /\ mac.type = "sgmii") => serdes.pll /\ serdes.lane /\ serdes.p0

\* A bring-up that reports success over SGMII has the XPCS out of reset.
XpcsOutOfResetOnSuccess ==
    (pc = "done" /\ mac.type = "sgmii") => ~xpcsReset

\* When the scan ran without an MDIO error and failed the setup step, no
\* PHY a driver supports was on the bus: every address 0..31 is scanned.
ScanFindsPresentPhy ==
    (err = "setup" /\ pollLog.ok /\ hw.device \in KnownIds)
        => ~Bindable(hw.phy, MacTypeOf(hw.device))

=============================================================================
