\* The connection of an undisturbed client does not stay up.
SPECIFICATION ReachableSpec
CONSTANTS
    Callers = {c1}
    Reconnector = reconnector
    Heartbeat = heartbeat
    Sockets = {s1, s2}
    NoSocket = NoSocket
    NoTask = NoTask
    MayAbandon = FALSE
    Frames = {}
PROPERTIES
    StaysConnected
