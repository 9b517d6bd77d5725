SPECIFICATION Spec
CONSTANTS
    Products = {p1}
    Slots = {s1, s2}
    Ads = {a1}
    None = None
    PatchStatuses = {"draft", "imported"}
    Pictured = {p1}
    Times = {1}
    MaxTime = 1
INVARIANTS TypeOK OneUploadPerSchedule
PROPERTY DueGetsPublished
\* The operator stops and nothing is due.
CHECK_DEADLOCK FALSE
