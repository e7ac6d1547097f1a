SPECIFICATION Spec
CONSTANTS
    a = a
    b = b
    Ends <- MCEnds
    Script <- MCScript
    Items = 2
    Header = 2
    Body <- MCBody
    Capacity = 2
    RecvBuffer = 2
    SendBufferSize = 4
    ReceiveFloodSize = 2
INVARIANT AnswersInOrder
PROPERTIES
    CarriesMessages
    RequestsAnswered
CHECK_DEADLOCK FALSE
