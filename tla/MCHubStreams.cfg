CONSTANTS
    u1 = u1
    u2 = u2
    a1 = a1
    a2 = a2
    b1 = b1
    Users = {u1, u2}
    Clients = {a1, a2, b1}
    UserOf <- TwoTabs
    QueueCap = 2
    BufferCap = 2
    MaxEvents = 1
    MaxKicks = 0
SPECIFICATION Spec
CHECK_DEADLOCK FALSE
INVARIANTS
    HubTypeOK
    OnlyOvertakenIsClosed
    StreamsAreOpen
    PresenceAnnounced
    PresenceViewConverges
PROPERTIES
    PresenceIsFed
