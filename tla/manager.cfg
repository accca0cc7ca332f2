SPECIFICATION Spec
CONSTANTS
    p1 = p1
    p2 = p2
    p3 = p3
    c1 = c1
    c2 = c2
    c3 = c3
    u1 = u1
    u2 = u2
    duel = duel
    NoRoom = NoRoom
    NoSession = NoSession
    Caller = {p1, p2, p3}
    Client = {c1, c2, c3}
    User = {u1, u2}
    ClientOf <- ClientOfThree
    UserOf <- UserOfThree
    RoomID = {r1, r2}
    Type = {duel}
    TypeOf <- OneType
    Modes = {"Reject", "Replace", "Allow"}
    MaxPlayers = 1
    MaxExpired = 0
    Rejoins = FALSE
CHECK_DEADLOCK FALSE
SYMMETRY Symmetry
INVARIANTS
    TypeOK
    RecordsNameLiveRooms
    
