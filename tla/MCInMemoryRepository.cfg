SPECIFICATION Spec
CONSTANTS
    Packets <- MCPackets
    Receipts <- MCReceipts
    NoReceipt = NoReceipt
    NoRecord = NoRecord
    Int64Max = 3
    MaxRows = 4
INVARIANTS
    IndexConsistent
    QueriesAgree
PROPERTIES
    DbSpec
