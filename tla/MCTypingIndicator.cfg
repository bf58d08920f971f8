SPECIFICATION Spec
CONSTANTS
    Channels = {general, random}
    MaxDelay = 1
    MaxWire = 2
INVARIANTS TypeOK NoGhostTyper TypistIsShown
