SPECIFICATION PagesSpec
CONSTANTS
    PageSize = 2
    MaxPages = 2
    Backlog = 5
    MaxId = 7
INVARIANTS
    PagesTypeOK
    HolesAreKnown
    OlderReachable
