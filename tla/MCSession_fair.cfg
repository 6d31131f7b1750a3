\* What must happen in the end, while two connections alternate.
SPECIFICATION FairSpec
CONSTANTS
    Callers = {c1}
    Reconnector = reconnector
    Heartbeat = heartbeat
    Sockets = {s1, s2}
    NoSocket = NoSocket
    NoTask = NoTask
    MayAbandon = FALSE
    Frames = {}
PROPERTIES
    CallsReturn
    CancelledSessionEnds
    DropEndsTasks
    ReconnectRestores
