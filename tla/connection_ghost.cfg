SPECIFICATION Spec
CONSTANTS
    r1 = r1
    Room = {r1}
    Self = Self
    Msgs <- JoinAndLeave
    HandleCap = 1
    SendCap = 1
    MaxSessions = 1
INVARIANT DisconnectLeavesAllRooms
