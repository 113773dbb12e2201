SPECIFICATION FairSpec
CONSTANTS
    IdleTimeout = 2
    MaxDatagrams = 1
    SocketBuffer = 1
PROPERTIES
    SilentUpstreamTimesOut
CHECK_DEADLOCK FALSE
