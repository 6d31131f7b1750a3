\* Two application tasks and the reconnect loop share two connections.
SPECIFICATION Spec
CONSTANTS
    Callers = {c1, c2}
    Reconnector = reconnector
    Heartbeat = heartbeat
    Sockets = {s1, s2}
    NoSocket = NoSocket
    NoTask = NoTask
    MayAbandon = TRUE
    Frames = {"offline", "reload"}
SYMMETRY Symmetry
INVARIANTS
    TypeOK
    AtMostOneLiveSession
    WriterHasReader
    ConnectionsServed
    LockAtWork
PROPERTIES
    StaysOffline
    ImplementsConnection
