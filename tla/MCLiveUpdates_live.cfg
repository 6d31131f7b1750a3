\* One task plays the application and the loop; two connections, two versions.
SPECIFICATION FairSpec
CONSTANTS
    Callers = {app}
    Reconnector = app
    Sockets = {s1, s2}
    Servers <- Kinds
    MaxVersion = 2
    MaxUnread = 1
    Digest <- Digests
    Extras <- Others
INVARIANTS
    TypeOK
    NewsIsJudged
PROPERTIES
    Converges
    Settles
