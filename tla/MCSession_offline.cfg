\* A session becomes live after disconnect() has returned.
SPECIFICATION Spec
CONSTANTS
    Callers = {c1}
    Reconnector = reconnector
    Heartbeat = heartbeat
    Sockets = {s1, s2}
    NoSocket = NoSocket
    NoTask = NoTask
    MayAbandon = FALSE
    Frames = {}
PROPERTIES
    NoSessionAfterDisconnect
