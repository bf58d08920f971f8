CONSTANTS
    u1 = u1
    u2 = u2
    a1 = a1
    a2 = a2
    b1 = b1
    Users = {u1}
    Clients = {a1, a2}
    UserOf <- OneUser
    QueueCap = 1
    BufferCap = 1
    MaxEvents = 2
    MaxKicks = 2
SPECIFICATION FairSpec
CHECK_DEADLOCK FALSE
PROPERTIES
    DisconnectEndsStream
    GoneIsForgotten
