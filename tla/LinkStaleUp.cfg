\* 88E1512: a latched link-change bit; the link may go down after it was up.
CONSTANTS
    PhyType = "88E1512"
    Speeds = {100, 1000}
    MaxLinkEvents = 3
INIT LinkInit
NEXT LinkNext
INVARIANT LinkReportAccurate
CHECK_DEADLOCK FALSE
