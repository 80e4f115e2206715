CONSTANTS
    order1 = order1
    c1 = c1
    c2 = c2
    Order = {order1}
    Client = {c1}
    InitialOrders <- MCUnderpaid
    Revisions <- MCNothing
    Payments <- MCPayments
    Ranges <- MCRanges
    NoTotal = NoTotal
    MaxRequests = 4
    MaxEdits = 1
    MaxFaults = 0

SPECIFICATION Spec

INVARIANT
    RecordedAdjustmentsApplied

CHECK_DEADLOCK FALSE
