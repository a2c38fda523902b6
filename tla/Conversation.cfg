CONSTANTS
    m1 = m1
    m2 = m2
    bye = bye
    Msg = {m1, m2, bye}
    Goodbye = {bye}
    NoMsg = NoMsg
    MaxConv = 2
    MaxDeliveries = 2
    MaxMoves = 2
SPECIFICATION Spec
SYMMETRY Interchangeable
INVARIANTS
    ConversationTypeOK
    
    OpenedOnce
    
PROPERTIES
    ClassificationKept
    
    StaysClosed
CHECK_DEADLOCK FALSE
