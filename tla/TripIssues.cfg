CONSTANTS
    None = None
    trip1 = trip1
    worker = worker
    c1 = c1
    c2 = c2
    Trip = {trip1}
    Worker = {worker}
    Client = {c1, c2}
    InitialTrips <- MCInitialTrips
    Revisions <- MCRevisions
    Office <- MCOffice
    Ranges <- MCRanges
    MaxRequests = 3
    MaxEdits = 1
    MaxFaults = 1

SPECIFICATION Spec

INVARIANTS
    RowsFollowSnapshots

PROPERTIES
    PaidSnapshotsImmutable
    RepairSettlesTrip
    ScanRecreatesIndex

SYMMETRY Symmetry

CHECK_DEADLOCK FALSE
