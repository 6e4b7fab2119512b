CONSTANTS
    Clients = {c1, c2}
    Commands = {"1", "4", "R", "Q"}
    NoClient = none
    SendCap = 2
    ReplyCap = 1
SPECIFICATION Spec
INVARIANTS
    TypeOK
    QuitEndsConnections
PROPERTIES
    EveryEdgeSeen
    ReplyIsCurrent
    HangUpKeepsServer
    DebuggersServed
CHECK_DEADLOCK FALSE
