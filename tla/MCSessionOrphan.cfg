SPECIFICATION FairSessionSpec
CONSTANTS
    IdleTimeout = 1
    MaxDatagrams = 0
    SocketBuffer = 1
    MaxFlaps = 1
PROPERTIES
    SessionEndReleasesBridge
CHECK_DEADLOCK FALSE
