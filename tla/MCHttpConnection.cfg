\* The connection is closed in the end.
CHECK_DEADLOCK FALSE
SPECIFICATION Spec
CONSTANTS
    Word = 100
    None = None
    Packets <- MCPackets
    Orders <- MCOrders
    Lengths <- MCLengths
    Asked <- MCAsked
    BufferSize = 3
    MaxRequestBytes = 70
    EventSizes = {125, 126, 65535, 65536, 16777216}
INVARIANTS
    TypeOK
    WholeIsRouted
    ParsedAsSent
    AcceptedIsSigned
    UnsignedAsSent
    HashedTextIsUnique
    AnswersAreObjects
    RoutedAsAsked
    FrameIsRead
