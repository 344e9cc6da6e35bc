\* Two controllers bound, stopped and rebound by the core in any order,
\* every platform call succeeding: does each child's NII 3.1 IfNum lead
\* the UNDI dispatcher to its own controller's private data?
CONSTANTS
    Controllers = {c1, c2}
    PoolResults = {TRUE}
    OpenResults = {"ok"}
    AttrResults = {"ok"}
    AllocResults = {TRUE}
    MapResults = {"ok"}
    ShortBy = {1}
    FtiResults = {"ok"}
    LateFailures = FALSE
    MaxHeld = 2
SPECIFICATION Spec
SYMMETRY ControllerSymmetry
INVARIANT NiiRoutesToOwnController
