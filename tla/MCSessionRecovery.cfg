SPECIFICATION FairSessionSpec
CONSTANTS
    IdleTimeout = 1
    MaxDatagrams = 0
    SocketBuffer = 1
    MaxFlaps = 1
PROPERTIES
    RecoveredConnectionRelays
CHECK_DEADLOCK FALSE
