SPECIFICATION Spec
CONSTANTS
    Writers = {w1}
    Records <- MCRecords
    RowId <- MCRowId
    StampedAt <- MCStampedAt
    TimeOf <- MCTimeOf
    Bounds <- MCBounds
    MaxClock = 1
INVARIANT
    RangeIncludesItsEnds
