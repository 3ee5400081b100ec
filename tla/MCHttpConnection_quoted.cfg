\* The connection is closed in the end.
CHECK_DEADLOCK FALSE
SPECIFICATION Spec
CONSTANTS
    Word = 100
    None = None
    Packets <- QuotedPackets
    Orders <- MCOrders
    Lengths = {0}
    Asked = {}
    BufferSize = 3
    MaxRequestBytes = 70
    EventSizes = {125}
INVARIANTS
    AnyIdIsAccepted
