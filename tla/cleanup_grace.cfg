SPECIFICATION AuditSpec
CONSTANTS
    Products = {p1}
    Slots = {s1}
    Ads = {a1}
    None = None
    PatchStatuses = {"active", "removed"}
    MaxTime = 3
    Jobs = {"cleanup"}
    AdOutcomes = {"none", "active", "blocked", "removed"}
    Grace = 1
    MaxVersion = 2
    MaxRuns = 3
PROPERTY GraceRespected
\* The operator stops, the keys run out and the clock reaches its bound.
CHECK_DEADLOCK FALSE
