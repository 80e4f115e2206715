CONSTANTS
    w1 = w1
    w2 = w2
    commission = commission
    LedgerKey <- MCLedgerKey
    PayoutKey <- MCPayoutKey
    Worker <- MCWorker
    Bucket <- MCBucket
    SourceEntry <- MCSourceEntry
    Adjustment <- MCAdjustment
    Payout <- MCPayout
    EditAmount <- MCEditAmount
    MaxEdits = 1

SPECIFICATION Spec

INVARIANTS
    RowsConsistent
    Conservation
    SettlementsBalance
    SharesInScope

PROPERTIES
    PaidRowsImmutable
    NoDebtAfterPayout
    ImplementsPayouts

CHECK_DEADLOCK FALSE
