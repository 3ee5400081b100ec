SPECIFICATION Spec
CONSTANTS
    Packets <- MCPackets
    Receipts <- MCReceipts
    NoReceipt = NoReceipt
    NoRecord = NoRecord
    Int64Max = 3
    SqlCanFail = FALSE
    MaxRows = 2
INVARIANTS
    LatestIsNewest
