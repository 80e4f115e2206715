CONSTANTS
    Client = {c1, c2}
    Instance = {i1, i2}
    Ops = {"adjust", "settle", "edit", "close", "queue", "mode"}
    Rebuilds = {"j2"}
    Request <- MCRequest
    SourceRow <- MCSourceRow
    MonthLength = 2
    DefaultMode = "shadow"
    MaxChanges = 2
    MaxEdits = 1
    MaxStops = 1

SPECIFICATION Spec
SYMMETRY Interchangeable

PROPERTIES
    PeriodsSealed
    WritesAvoidRebuilds

CHECK_DEADLOCK FALSE
