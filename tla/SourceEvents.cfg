CONSTANTS
    order1 = order1
    order2 = order2
    trip = trip
    p1 = p1
    p2 = p2
    Order = {order1, order2}
    Trip = {}
    History <- MCHistory
    Partition = {p1, p2}
    PartitionOf <- MCTwoPartitions
    EligibleFrom = 0
    Target1 = 2
    Target2 = 3
    Bonus = 4
    MonthLength = 4
    ClosePeriods <- MCSecondDay
    Rebuilds <- MCNoDays
    MaxCopies = 1
    MaxFaults = 1
    MaxRebuilds = 0

SPECIFICATION Spec

INVARIANTS
    CommittedEventsMaterialized
    MonthComplete
    RowsFollowSources

CHECK_DEADLOCK FALSE
