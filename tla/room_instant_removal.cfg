SPECIFICATION SafetySpec
CONSTANTS
    p1 = p1
    p2 = p2
    p3 = p3
    c1 = c1
    c2 = c2
    c3 = c3
    NoCaller = NoCaller
    Caller = {p1, p2}
    Client = {c1, c2}
    ClientOf <- TwoCallers
    MaxExpired = 0
    MaxPlayers = 2
    EmptyGrace = FALSE
    Hooks = {"return"}
    Fns = {"Join", "Leave"}
    InboxCap = 2
CHECK_DEADLOCK FALSE
PROPERTY RemovalStartsOnEmptyRoom
