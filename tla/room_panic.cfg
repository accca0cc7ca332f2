SPECIFICATION SafetySpec
CONSTANTS
    p1 = p1
    p2 = p2
    p3 = p3
    c1 = c1
    c2 = c2
    c3 = c3
    NoCaller = NoCaller
    Caller = {p1, p2, p3}
    Client = {c1, c2, c3}
    ClientOf <- ThreeCallers
    MaxExpired = 0
    MaxPlayers = 2
    EmptyGrace = FALSE
    Hooks = {"return", "panic"}
    Fns = {"Join", "Leave", "Close", "Open", "Info", "HandleMessage"}
    InboxCap = 2
CHECK_DEADLOCK FALSE
SYMMETRY PairSymmetry
INVARIANTS
    TypeOK
    NoLostWakeup
    
