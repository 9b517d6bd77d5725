SPECIFICATION FairSpec
CONSTANTS
    Products = {p1}
    Slots = {s1}
    Ads = {a1}
    None = None
    PatchStatuses = {"active"}
    MaxTime = 1
    Jobs = {"sold", "import", "cleanup"}
    AdOutcomes = {"none", "active"}
    Grace = 0
    MaxVersion = 3
    MaxRuns = 3
PROPERTIES OffAvitoComesOff SoldComesBack BareRowsAreDeleted
\* The operator stops, the keys run out and the clock reaches its bound.
CHECK_DEADLOCK FALSE
