SPECIFICATION Spec
CONSTANT
    Habits <- MCHabits
CHECK_DEADLOCK FALSE
INVARIANTS
    RowFollowsServer
    StarSettles
    MarkIsOnItsWay
