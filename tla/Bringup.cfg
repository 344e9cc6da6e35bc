\* IntelgbeFirstTimeInit against every hardware configuration below: the
\* three PHY drivers and an unsupported PHY at the first and a middle
\* address, RGMII, PSE and PCH SGMII parts and an unknown device id, MDIO
\* and reset polls that clear at once, on the last read or never, SERDES
\* and XPCS status bits that show at once, on the last read or never.
SPECIFICATION Spec
CONSTANTS
    DeviceIds = {19360, 19361, 19250, 4660}
    PhyKinds = {"88E1512", "GPY", "88E2110", "OTHER"}
    PhyAddrs = {0, 5}
    Abilities = {{"10H", "10F", "100H", "100F", "1000F"}, {"100H", "100F"}}
    NumPhyAddrs = 32
    MdioLimit = 100
    ResetLimit = 10
    ModphyRetries = 10
    XpcsRetries = 10
    AckReads = {1, 10, 11}
\* FirstTimeInit runs once and ends in "done" or "failed".
CHECK_DEADLOCK FALSE
INVARIANTS
    BringupTypeOK
    PollBusyExact
    SuccessMeansPhyBound
    LinkAdvertisedOnSuccess
