SPECIFICATION Spec
CHECK_DEADLOCK FALSE
CONSTANTS
    Parent = parent
    Roots = {root}
    Replies = {reply}
    Broadcast = {reply}
    Mine = {reply, root}
    Me = me
    Other = other
    MaxOps = 3
    MaxPending = 1
    MaxFetches = 1
INVARIANTS NoDuplicates ListConverges ThreadConverges
