CONSTANTS
    u1 = u1
    a1 = a1
    a2 = a2
    Users = {u1}
    Clients = {a1, a2}
    UserOf <- OneUser
    QueueCap = 1
    BufferCap = 1
    MaxEvents = 2
    MaxKicks = 2
    MaxBans = 2
SPECIFICATION BanSpec
SYMMETRY Tabs
CHECK_DEADLOCK FALSE
INVARIANTS
    BanTypeOK
    OnlyLateStreamsEscape
