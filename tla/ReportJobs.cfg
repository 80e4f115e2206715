CONSTANTS
    Request <- MCRequest
    Undecodable = Undecodable
    None = None
    Registry <- MCRegistry
    SilentReport <- MCSilentReport
    Columns <- MCColumns
    MaxMessages = 2
    MaxFaults = 2
    MaxStops = 1

SPECIFICATION FairSpec

INVARIANTS
    CompletedFilesWhole
    SensitiveHidden
    OneEnding

PROPERTIES
    RunsOnce
    JobsAnswered

CHECK_DEADLOCK FALSE
