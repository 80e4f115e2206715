CONSTANTS
    order1 = order1
    c1 = c1
    c2 = c2
    Order = {order1}
    Client = {c1, c2}
    InitialOrders <- MCInitialOrders
    Revisions <- MCRevisions
    Payments <- MCPayments
    Ranges <- MCRanges
    NoTotal = NoTotal
    MaxRequests = 4
    MaxEdits = 1
    MaxFaults = 1

SPECIFICATION Spec

INVARIANTS
    AdjustedOnce
    AdjustmentsAudited

PROPERTIES
    ScanRecreatesIndex
    AcceptedVarianceStands
    AlignmentReconciles

SYMMETRY Symmetry

CHECK_DEADLOCK FALSE
