CONSTANTS
    Client = {c1, c2}
    Instance = {i1, i2}
    Ops = {"queue"}
    Rebuilds = {"j1", "j2"}
    Request <- MCRequest
    SourceRow <- MCSourceRow
    MonthLength = 2
    DefaultMode = "shadow"
    MaxChanges = 0
    MaxEdits = 0
    MaxStops = 0

SPECIFICATION FairSpec

INVARIANTS
    OneInstancePerJob
    CompletedJobsMaterialized

PROPERTIES
    JobsMoveForward
    JobsEnd

CHECK_DEADLOCK FALSE
