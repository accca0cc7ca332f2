SPECIFICATION Spec
CONSTANTS
    r1 = r1
    Room = {r1}
    Self = Self
    Msgs <- AllMessages
    HandleCap = 1
    SendCap = 1
    MaxSessions = 2
INVARIANTS
    TypeOK
    NoRequestBeforeAuth
    QuietDisconnectReleases
    QueuedBeforeCloseIsWritten
PROPERTIES
    SubscribedBeforeSeated
    ClosedConnectionUnwinds
    ShutdownCompletes
