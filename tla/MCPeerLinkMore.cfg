SPECIFICATION Spec
CONSTANTS
    a = a
    b = b
    Ends <- MCEnds
    Script <- BothAsk
    Items = 2
    Header = 2
    Body <- LargeBody
    Capacity = 3
    RecvBuffer = 3
    SendBufferSize = 4
    ReceiveFloodSize = 2
INVARIANTS
    TypeOK
    SendAccounting
    AnswersInOrder
PROPERTIES
    CarriesMessages
CHECK_DEADLOCK FALSE
