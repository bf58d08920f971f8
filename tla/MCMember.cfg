CONSTANTS
    u1 = u1
    u2 = u2
    u3 = u3
    r1 = r1
    r2 = r2
    r3 = r3
    ChannelUsers = {u1, u2}
    Requests = {r1, r2, r3}
    MayFail = TRUE
SPECIFICATION MemberSpec
SYMMETRY Symmetry
INVARIANTS
    TypeOK
    CacheExactUnlessAstray
