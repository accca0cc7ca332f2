SPECIFICATION HandlersSpec
CONSTANTS
    c1 = c1
    c2 = c2
    u1 = u1
    u2 = u2
    duel = duel
    NoRoom = NoRoom
    NoSession = NoSession
    Client = {c1, c2}
    User = {u1, u2}
    UserOf <- TwoUsers
    Caller <- Loop
    ClientOf <- ClientOfLoop
    HandleLoop <- HandleLoopOf
    ReadLoop <- ReadLoopOf
    Leaver = {c1}
    RoomID = {r1, r2}
    Type = {duel}
    TypeOf <- OneType
    Modes = {"Reject", "Replace"}
    MaxPlayers = 1
    MaxExpired = 0
    Rejoins = FALSE
CHECK_DEADLOCK FALSE
SYMMETRY RoomSymmetry
INVARIANTS
    HandlersTypeOK
    
    
    NoRoomLeaks
