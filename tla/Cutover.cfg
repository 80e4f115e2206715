CONSTANTS
    None = None
    b1 = b1
    b2 = b2
    r1 = r1
    r2 = r2
    o1 = o1
    o2 = o2
    t1 = t1
    t2 = t2
    Beauticians = {b1, b2}
    Riders = {r1, r2}
    Orders = {o1, o2}
    Trips = {t1, t2}
    Days = {1, 2, 3, 4}
    DaysPerMonth = 2
    HexOf <- MCHexOf
    OrderDocs <- MCOrderDocs
    TripDocs <- MCTripDocs
    Boards <- MCBoards
    BeauticianProfiles <- MCBeauticianProfiles
    RiderProfiles <- MCRiderProfiles
    Offices <- MCOffices
    Ranges <- MCRanges
    Jobs <- MCJobs
    Sources <- MCSources
    MaxEdits = 1
    MaxRebuilds = 2
    MaxPayments = 1
SPECIFICATION Spec
INVARIANTS
    ReconcilerAgreesWithRebuild
    BoardShowsAwards
PROPERTIES
    CutoverKeepsCommissions
    CutoverKeepsPayables
    CutoverKeepsPetrol
