CONSTANTS
    w1 = w1
    w2 = w2
    commission = commission
    LedgerKey <- MCLedgerKey
    PayoutKey <- MCPayoutKey
    Worker <- MCWorker
    Bucket <- MCBucket
    SourceEntry <- MCSourceEntry
    Adjustment <- MCAdjustment
    Payout <- MCPayout
    EditAmount <- MCEditAmount
    MaxEdits = 1
    Session = {s1, s2}
    MaxRetries = 1

SYMMETRY Symmetric

SPECIFICATION TxnSpec

PROPERTIES
    ImplementsPayouts

CHECK_DEADLOCK FALSE
