SPECIFICATION Spec
CONSTANTS
    Products = {p1, p2}
    Ads = {a1, a2}
    None = None
    Free = Free
    MaxBusy = 2
INVARIANTS TypeOK UndisturbedFits
PROPERTIES LinksHold CompleteUnlessOvertaken LinksAreSerial
CHECK_DEADLOCK FALSE
