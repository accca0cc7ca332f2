SPECIFICATION Spec
CONSTANTS
    Client = {c1, c2, c3}
CHECK_DEADLOCK FALSE
INVARIANTS
    TypeOK
    ShutdownClosesAll
PROPERTIES
    RunReturns
    ConnectionsEnd
