SPECIFICATION SafetySpec
CONSTANTS
    p1 = p1
    p2 = p2
    p3 = p3
    c1 = c1
    c2 = c2
    c3 = c3
    NoCaller = NoCaller
    Caller = {p1, p2}
    Client = {c1, c2}
    ClientOf <- TwoCallers
    MaxExpired = 1
    MaxPlayers = 1
    EmptyGrace = TRUE
    Hooks = {"return", "keepOn", "keepOff"}
    Fns = {"Join", "JoinReplace", "Leave"}
    InboxCap = 2
CHECK_DEADLOCK FALSE
INVARIANTS
    SeatLimit
    TickingTimerIsArmed
PROPERTIES
    RemovalStartsOnEmptyRoom
    SwapNeverStartsRemoval
    ImplementsSeatTable
