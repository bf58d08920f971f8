CONSTANTS
    u1 = u1
    u2 = u2
    u3 = u3
    r1 = r1
    r2 = r2
    NoUser = NoUser
    Users = {u1, u2}
    Requests = {r1, r2}
    MaxUses = 1
    InviteLevel = "admins"
    AskedRoles = {"owner", "admin"}
    MaxFaults = 1
SPECIFICATION Spec
CHECK_DEADLOCK FALSE
SYMMETRY Symmetry
INVARIANTS
    TypeOK
    InviteBringsItsUses
    ChannelMembersBelong
    MembersReachGeneral
PROPERTIES
    LastOwnerGoesOnlyByARace
    OwnersStandDown
