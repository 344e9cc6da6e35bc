\* IntelgbeFirstTimeInit fails with an error other than ACCESS_DENIED
\* after IntelgbePciInit has allocated and mapped the DMA buffers and
\* enabled bus mastering.
CONSTANTS
    Controllers = {c1}
    PoolResults = {TRUE}
    OpenResults = {"ok"}
    AttrResults = {"ok"}
    AllocResults = {TRUE}
    MapResults = {"ok"}
    ShortBy = {1}
    FtiResults = {"ok", "error"}
    LateFailures = FALSE
    MaxHeld = 2
SPECIFICATION Spec
INVARIANT UnloadReleasesAll
