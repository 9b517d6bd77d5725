SPECIFICATION FairSpec
CONSTANTS
    Products = {p1}
    Slots = {s1}
    Ads = {a1}
    None = None
    PatchStatuses = {"active"}
    MaxTime = 1
    Jobs = {"import", "cleanup"}
    AdOutcomes = {"none", "active", "blocked", "removed"}
    Grace = 0
    MaxVersion = 2
    MaxRuns = 3
PROPERTY RemovedRowsAreDeleted
\* The operator stops, the keys run out and the clock reaches its bound.
CHECK_DEADLOCK FALSE
