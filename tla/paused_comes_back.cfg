SPECIFICATION FairSpec
CONSTANTS
    Products = {p1}
    Slots = {s1}
    Ads = {a1}
    None = None
    PatchStatuses = {"active"}
    MaxTime = 0
    Jobs = {"declined", "import"}
    AdOutcomes = {"none", "active", "blocked", "removed"}
    Grace = 0
    MaxVersion = 3
    MaxRuns = 3
PROPERTY PausedComesBack
\* The operator stops, the keys run out and the clock reaches its bound.
CHECK_DEADLOCK FALSE
