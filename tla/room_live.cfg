SPECIFICATION Spec
CONSTANTS
    p1 = p1
    p2 = p2
    p3 = p3
    c1 = c1
    c2 = c2
    c3 = c3
    NoCaller = NoCaller
    Caller = {p1, p2}
    Client = {c1, c2}
    ClientOf <- TwoCallers
    MaxExpired = 1
    MaxPlayers = 0
    EmptyGrace = TRUE
    Hooks = {"return", "keepOff", "keepOn"}
    Fns = {"Join", "Leave"}
    InboxCap = 1
CHECK_DEADLOCK FALSE
PROPERTIES
    EmptiedRoomIsRemoved
    RemovalFinishes
    CallsReturn
