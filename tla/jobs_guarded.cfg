SPECIFICATION Spec
CONSTANTS
    Products = {p1}
    Slots = {s1}
    Ads = {a1}
    None = None
    PatchStatuses = {"removed"}
    MaxTime = 0
    Jobs = {"declined", "sold", "import", "cleanup", "publish", "repost"}
    AdOutcomes = {"none", "active", "blocked", "removed"}
    Grace = 0
    MaxVersion = 2
    MaxRuns = 2
INVARIANT TypeOK
PROPERTIES FirstWriterWins
\* The operator stops, the keys run out and the clock reaches its bound.
CHECK_DEADLOCK FALSE
