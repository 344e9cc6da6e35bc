----------------------------- MODULE LinkStatus -----------------------------
(***************************************************************************)
(* Link-state tracking of the mGbE MAC layer (intelgbe_stmmac.c) over the  *)
(* three PHY drivers it binds.                                             *)
(*                                                                         *)
(* intelgbe_link_status (mac->ops.check_for_link, called by IsLinkUp for   *)
(* the media status of UNDI GetStatus) first asks the PHY driver whether   *)
(* the link changed (phy->ops.link_status_change) and only then re-reads   *)
(* link, speed and duplex (phy->ops.status) and reprograms the speed field *)
(* of MAC_CONFIGURATION.  Whether a change is seen depends on the PHY:     *)
(*   88E1512 and GPY2xx read a latched, clear-on-read interrupt bit;       *)
(*   88E2110 compares the live link bit with the cached phy->link_up.      *)
(* intelgbe_mac_init (part of init_hw) reads the status once, unguarded.   *)
(*                                                                         *)
(* The link partner is the environment: it takes the link down and up,    *)
(* choosing a speed from Speeds each time it comes up.                     *)
(***************************************************************************)
EXTENDS Naturals

CONSTANTS
    PhyType,        \* "88E1512", "GPY" or "88E2110": the PHY the adapter found
    Speeds,         \* link speeds the partner may negotiate, in Mb/s
    MaxLinkEvents   \* link changes of the partner in one behaviour

ASSUME PhyType \in {"88E1512", "GPY", "88E2110"}
ASSUME Speeds \subseteq {10, 100, 1000, 2500} /\ Speeds # {}

VARIABLES
    phyLink,        \* the PHY's live link bit
    phySpeed,       \* the speed the PHY negotiated while the link is up
    latched,        \* the PHY's latched link-change interrupt bit
    link_up,        \* phy->link_up
    link_speed,     \* mac->link_speed
    macSpeed,       \* the speed field of MAC_CONFIGURATION, in Mb/s
    linkResult,     \* history: the result of the last IsLinkUp since the
                    \* last link change, "none" if there was none
    linkEvents      \* link changes so far

linkVars == <<phyLink, phySpeed, latched, link_up, link_speed, macSpeed,
              linkResult, linkEvents>>

\* The speed switch of intelgbe_mac_init and intelgbe_link_status: 100,
\* 1000 and 2500 select their own field, anything else 10 Mb/s.
SpeedField(s) == IF s \in {100, 1000, 2500} THEN s ELSE 10

\* The PHY drivers whose change detection is a latched interrupt bit.
Latches == PhyType \in {"88E1512", "GPY"}

\* IsLinkUp's BOOLEAN result, as the history records it.
Report(link) == IF link THEN "up" ELSE "down"

\* The speeds phy->ops.status can hand back.  With the link up it is the
\* negotiated speed.  With the link down 88E1512 and GPY leave the caller's
\* uninitialised link_speed as it was, and 88E2110 decodes whatever the
\* speed bits of PCS status hold; after SpeedField both are any field value.
ReadSpeeds == IF phyLink THEN {phySpeed} ELSE {10, 100, 1000, 2500}

-----------------------------------------------------------------------------
\* Variants of definitions below, each a plausible slip in the code it
\* stands for.
ChangeSignalledOnRise == IF Latches THEN latched ELSE phyLink /\ ~link_up

\* phy->ops.link_status_change: the latched interrupt bit (cleared by the
\* read), or the live link bit differing from phy->link_up (88E2110).
ChangeSignalled == IF Latches THEN latched ELSE phyLink # link_up

\* intelgbe_link_status.  Without a signalled change *link is the cached
\* phy->link_up.  With one, *link is the freshly read link bit; then
\* "if (link)" tests the pointer, which is never NULL, so the MAC speed
\* is reprogrammed from whatever was read and phy->link_up becomes TRUE
\* whether the link is up or down.
IntelgbeLinkStatus ==
    /\ latched' = FALSE
    /\ IF ChangeSignalled
       THEN \E s \in ReadSpeeds :
               /\ linkResult' = Report(phyLink)
               /\ link_speed' = s
               /\ macSpeed' = SpeedField(s)
               /\ link_up' = TRUE
       ELSE /\ linkResult' = Report(link_up)
            /\ UNCHANGED <<link_speed, macSpeed, link_up>>
    /\ UNCHANGED <<phyLink, phySpeed, linkEvents>>

\* The link part of intelgbe_mac_init, run by every init_hw: read the status
\* (a failure is only logged), take over speed and link when up, mark the
\* link down otherwise, and program the speed field from mac->link_speed.
\* The latched interrupt bit is not read.
MacInitLink ==
    \E s \in ReadSpeeds :
        /\ link_up' = phyLink
        /\ link_speed' = IF phyLink THEN s ELSE link_speed
        /\ macSpeed' = SpeedField(IF phyLink THEN s ELSE link_speed)
        /\ UNCHANGED <<phyLink, phySpeed, latched, linkResult, linkEvents>>

\* The link partner takes the link down, or brings it up at some speed; a
\* latching PHY sets its link-change interrupt bit.
LinkChange ==
    /\ linkEvents < MaxLinkEvents
    /\ phyLink' = ~phyLink
    /\ phySpeed' \in IF phyLink THEN {phySpeed} ELSE Speeds
    /\ latched' = Latches
    /\ linkResult' = "none"
    /\ linkEvents' = linkEvents + 1
    /\ UNCHANGED <<link_up, link_speed, macSpeed>>

-----------------------------------------------------------------------------
\* After IntelgbeFirstTimeInit: the PHY's link as found, mac->link_speed
\* preset to 100 by intelgbe_init_mac_ops, then intelgbe_mac_init.  The
\* interrupt bit may have latched during autonegotiation.
LinkInit ==
    /\ phyLink \in BOOLEAN
    /\ phySpeed \in Speeds
    /\ latched \in IF Latches THEN BOOLEAN ELSE {FALSE}
    /\ link_up = phyLink
    /\ link_speed = IF phyLink THEN phySpeed ELSE 100
    /\ macSpeed = SpeedField(link_speed)
    /\ linkResult = "none"
    /\ linkEvents = 0

\* MacInitLink is a step of StartDriver and Initialize (Adapter.tla).
LinkNext == IntelgbeLinkStatus \/ LinkChange

LinkSpec == LinkInit /\ [][LinkNext]_linkVars

-----------------------------------------------------------------------------
LinkTypeOK ==
    /\ phyLink \in BOOLEAN /\ latched \in BOOLEAN /\ link_up \in BOOLEAN
    /\ phySpeed \in Speeds
    /\ link_speed \in {10, 100, 1000, 2500}
    /\ macSpeed \in {10, 100, 1000, 2500}
    /\ linkResult \in {"none", "up", "down"}
    /\ linkEvents \in 0 .. MaxLinkEvents

\* IsLinkUp reports the link as it is: every result returned since the
\* partner last changed the link equals the PHY's link bit, however many
\* times GetStatus asks.
LinkReportAccurate == linkResult # "none" => linkResult = Report(phyLink)

\* Once IsLinkUp has reported the link up, the MAC runs at the speed the
\* PHY negotiated, so frames can actually pass.
MacSpeedMatchesLink == (linkResult = "up" /\ phyLink) => macSpeed = phySpeed

=============================================================================
