SPECIFICATION FairSpec
CONSTANTS
    Writers = {w1, w2, w3}
    Records <- MCRecords
    RowId <- MCRowId
    StampedAt <- MCStampedAt
    TimeOf <- MCTimeOf
    Bounds <- MCBounds
    MaxClock = 1
INVARIANTS
    TypeOK
    NoStrandedTransaction
    LoneWriteIsKept
    LoneRowsKeepOrder
    RangesHoldTheirEvents
PROPERTIES
    StoredIdsStay
    GetIsUpToDate
    RowsSettle
    ImplementsStore
