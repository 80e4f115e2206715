CONSTANTS
    order1 = order1
    order2 = order2
    trip = trip
    p1 = p1
    p2 = p2
    Order = {order1}
    Trip = {trip}
    History <- MCHistory
    Partition = {p1}
    PartitionOf <- MCOnePartition
    EligibleFrom = 0
    Target1 = 2
    Target2 = 3
    Bonus = 4
    MonthLength = 4
    ClosePeriods <- MCSecondDay
    Rebuilds <- MCBothDays
    MaxCopies = 1
    MaxFaults = 1
    MaxRebuilds = 1

SPECIFICATION FairSpec

INVARIANT
    RowsFollowSources

PROPERTY
    EventsDrain

CHECK_DEADLOCK FALSE
