SPECIFICATION FairSpec
CONSTANTS
    Room = 3
    Parts = 2
    ClientAuth = TRUE
    Offers <- MCOffers
    Implemented = {"X25519"}
    MaxFaults = 1
INVARIANTS
    TypeOK
    ReceivedInOrder
    AgreeOnCompletion
    NoKeysBeforeVerify
    UsableCurveAccepted
PROPERTIES
    IsKeyAgreement
    ServerSettles
CHECK_DEADLOCK FALSE
