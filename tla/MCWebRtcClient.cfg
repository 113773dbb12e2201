SPECIFICATION FairSpec
CONSTANTS
    Slots = 2
    MaxFaults = 1
INVARIANTS
    TypeOK
    KeepaliveWhileOpen
PROPERTIES
    CandidatesDelivered
    AlwaysRecovers
    ReplacedSessionsEnd
CHECK_DEADLOCK FALSE
