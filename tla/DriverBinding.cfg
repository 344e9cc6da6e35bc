\* One controller bound, stopped and rebound by the core, with every
\* outcome of the PCI attribute calls, of each DMA allocation and mapping
\* (a partial map one byte short, which still frees every page), and PciIo
\* already opened by another agent. IntelgbeFirstTimeInit succeeds and the
\* private-data pool allocation succeeds: the failures that break
\* DmaAccounted and ListedPrivateDataLive are checked with the changes the
\* README lists.
CONSTANTS
    Controllers = {c1}
    PoolResults = {TRUE}
    OpenResults = {"ok", "PciIo"}
    AttrResults = {"ok", "get", "supported", "enable"}
    AllocResults = {TRUE, FALSE}
    MapResults = {"ok", "partial", "fail"}
    ShortBy = {1}
    FtiResults = {"ok"}
    LateFailures = FALSE
    MaxHeld = 2
SPECIFICATION Spec
INVARIANT DriverTypeOK
INVARIANT DmaAccounted
INVARIANT ReadyWhenStarted
INVARIANT StopReleasesAll
INVARIANT ListedPrivateDataLive
