SPECIFICATION Spec
CONSTANTS
    Writers = {w1, w2}
    Records <- MCRecords
    RowId <- MCRowId
    StampedAt <- MCStampedAt
    TimeOf <- MCTimeOf
    Bounds <- MCBounds
    MaxClock = 1
INVARIANT
    ReturnedIsPersisted
