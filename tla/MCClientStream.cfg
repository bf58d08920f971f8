SPECIFICATION Spec
CONSTANTS
    Peers = {p1}
    ReplayLimit = 1
    BufferSize = 1
    MaxEvents = 3
    MaxFaults = 2
    MaxMounts = 2
INVARIANTS OneWayBack PresenceErrsForACause
PROPERTY Reconnects
CHECK_DEADLOCK FALSE
