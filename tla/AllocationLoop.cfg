CONSTANTS
    MaxRows = 3
    Ledger <- MCLedger
    Requested <- MCRequested

SPECIFICATION LoopSpec

INVARIANTS
    AgreesWithClosedForm

CHECK_DEADLOCK FALSE
