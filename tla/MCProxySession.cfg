SPECIFICATION FairSessionSpec
CONSTANTS
    IdleTimeout = 1
    MaxDatagrams = 0
    SocketBuffer = 1
    MaxFlaps = 1
INVARIANTS
    SessionTypeOK
    OneBridge
    TakenBridgeStops
PROPERTIES
    WaitingBridgeReleased
CHECK_DEADLOCK FALSE
