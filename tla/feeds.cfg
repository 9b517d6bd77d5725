SPECIFICATION Spec
CONSTANTS
    Products = {p1}
    Workers = {w1, w2}
    None = None
    NoFile = NoFile
    Torn = Torn
    Window = 3
    Rounds = 3
    MaxDeaths = 1
INVARIANTS TypeOK ChangeReachesAvito OneWorkerSchedules
CHECK_DEADLOCK FALSE
SYMMETRY WorkerSymmetry
