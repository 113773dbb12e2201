SPECIFICATION FairSpec
CONSTANTS
    IdleTimeout = 2
    MaxDatagrams = 3
    SocketBuffer = 1
INVARIANTS
    TypeOK
    ShutdownNotLost
PROPERTIES
    NoTeardownBeforeBrowser
    ShutdownEndsForwarding
    StalledStreamNoticed
    IsRelay
CHECK_DEADLOCK FALSE
