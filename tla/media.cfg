SPECIFICATION Spec
CONSTANTS
    Images = {i1, i2}
    Products = {p1, p2}
    Packs = {k1}
    Listings = {}
    Expired = {p1}
    MaxRequests = 1
    None = None
INVARIANT TypeOK
PROPERTIES PhotosInUseKeepTheirFiles OrphansGo
CHECK_DEADLOCK FALSE
