CONSTANTS
    b1 = b1
    b2 = b2
    Broadcasters = {b1, b2}
    StoreCap = 1
    BufferCap = 1
    ReplayLimit = 1
    MayFail = TRUE
    MaxId = 5
SPECIFICATION Spec
SYMMETRY Symmetry
INVARIANTS
    TypeOK
    Accounted
