SPECIFICATION AuditSpec
CONSTANTS
    Products = {p1}
    Slots = {s1}
    Ads = {a1}
    None = None
    PatchStatuses = {"active", "removed"}
    MaxTime = 1
    Jobs = {"declined", "import", "cleanup", "publish"}
    AdOutcomes = {"none", "active", "blocked", "removed"}
    Grace = 0
    MaxVersion = 2
    MaxRuns = 2
INVARIANT JobRemovalsAreDated
PROPERTIES NothingDestroyedEarly OperatorRemovalsHold VerdictsAreSeen
\* The operator stops, the keys run out and the clock reaches its bound.
CHECK_DEADLOCK FALSE
